---------------------------- MODULE RelayProofs -----------------------------
(***************************************************************************)
(* Theorems about Relay, for any number of servers, connections, writers   *)
(* and packets.                                                            *)
(***************************************************************************)
EXTENDS Relay, FiniteSetTheorems, SequenceTheorems, TLAPS

(* A goroutine that works on a packet has one; reader and writer of a      *)
(* connection start together.                                              *)
Busy ==
  /\ \A r \in Readers : reader[r] = "cast" => packet[r] \in Packets /\ left[r] # <<>>
  /\ \A w \in Writers :
       writer[w] \in {"write", "release", "putback"} => item[w] \in Packets
  /\ \A w \in Writers : writer[w] = "putback" => Serves[w] \in NeedFeedBack
  /\ \A g \in Cons : reader[g] = "off" => writer[g] = "off"

RelayType == TypeOK /\ Busy

(* A writer of a server with NeedFeedBack gives its share back only of a   *)
(* packet that it wrote or that is too old.                                *)
DoneWith ==
  \A w \in Writers : writer[w] = "release" /\ Serves[w] \in NeedFeedBack =>
    item[w] \in old \cup Range(wrote[w])

(* A writer that does not work on a packet has none.                       *)
Idle ==
  \A w \in Writers :
    writer[w] \in {"off", "test", "get", "end"} => item[w] = Nil

(* The server s has m: in its queue, in a writer's hands, or written.      *)
Has(s, m) ==
  \/ m \in Range(queue[s])
  \/ \E w \in Writers : Serves[w] = s /\ (item[w] = m \/ m \in Range(wrote[w]))

KeepInv == Idle /\ DoneWith /\ NothingLost

-----------------------------------------------------------------------------
(* What is in a sequence after an element went in at its end, and after    *)
(* its first came out.                                                     *)
LEMMA RangeAppend ==
  ASSUME NEW S, NEW q \in Seq(S), NEW e \in S
  PROVE  Append(q, e) \in Seq(S) /\ Range(Append(q, e)) = Range(q) \cup {e}
<1>1. /\ Append(q, e) \in Seq(S)
      /\ DOMAIN Append(q, e) = 1 .. Len(q) + 1 /\ DOMAIN q = 1 .. Len(q) /\ Len(q) \in Nat
      /\ \A i \in 1 .. Len(q) : Append(q, e)[i] = q[i]
      /\ Append(q, e)[Len(q) + 1] = e
  OBVIOUS
<1>2. QED
  BY <1>1 DEF Range

(* The same for the removal of the first.                                  *)
LEMMA RangeTail ==
  ASSUME NEW S, NEW q \in Seq(S), q # <<>>
  PROVE  /\ Head(q) \in S /\ Tail(q) \in Seq(S)
         /\ Len(Tail(q)) = Len(q) - 1
         /\ Range(q) = {Head(q)} \cup Range(Tail(q))
<1>1. /\ Head(q) \in S /\ Tail(q) \in Seq(S)
      /\ Len(q) \in Nat \ {0} /\ Len(Tail(q)) = Len(q) - 1
      /\ DOMAIN q = 1 .. Len(q) /\ DOMAIN Tail(q) = 1 .. Len(q) - 1
      /\ \A i \in 1 .. Len(q) - 1 : Tail(q)[i] = q[i + 1]
      /\ Head(q) = q[1]
  OBVIOUS
<1>2. Range(q) \subseteq {Head(q)} \cup Range(Tail(q))
  <2> SUFFICES ASSUME NEW i \in 1 .. Len(q), i # 1
               PROVE  q[i] \in Range(Tail(q))
    BY <1>1 DEF Range
  <2>1. i - 1 \in 1 .. Len(q) - 1 /\ (i - 1) + 1 = i
    BY <1>1
  <2>2. Tail(q)[i - 1] = q[i]
    BY <1>1, <2>1
  <2>3. QED
    BY <1>1, <2>1, <2>2 DEF Range
<1>3. Range(Tail(q)) \subseteq Range(q)
  BY <1>1 DEF Range
<1>4. Head(q) \in Range(q)
  BY <1>1 DEF Range
<1>5. QED
  BY <1>1, <1>2, <1>3, <1>4
-----------------------------------------------------------------------------
(* Nothing is there at the start.                                          *)
LEMMA InitRelay == Init => RelayType /\ KeepInv
<1> SUFFICES ASSUME Init PROVE RelayType /\ KeepInv
  OBVIOUS
<1>1. TypeOK
  BY RelayAssumption DEF Init, TypeOK, RelayAssumption, Readers, Writers
<1>2. Busy /\ Idle /\ DoneWith
  BY DEF Init, Busy, Idle, DoneWith, Readers, Writers
<1>3. NothingLost
  BY RelayAssumption DEF Init, NothingLost, RelayAssumption, Range
<1>4. QED
  BY <1>1, <1>2, <1>3 DEF RelayType, KeepInv

(* The steps of a reader keep the types.                                   *)
LEMMA ReaderTypes ==
  ASSUME RelayType, NEW r \in Readers, ReaderStep(r)
  PROVE  RelayType'
<1> USE RelayAssumption DEF RelayType, RelayAssumption, SetReader, SetWriter, packetVars,
        readerVars, writerVars, history
<1>1. CASE Spawn(r)
  <2>1. CASE r \in Cons
    <3>1. /\ r \in Writers /\ reader' = [reader EXCEPT ![r] = "read"]
          /\ writer' = [writer EXCEPT ![r] = "test"]
          /\ \E state \in {"open", "closed"} : con' = [con EXCEPT ![r] = state]
          /\ UNCHANGED <<made, acks, inUse, old, packet, left, queue, item, wrote, sent, putBack>>
      BY <1>1, <2>1 DEF Spawn, Writers
    <3>2. TypeOK'
      BY <2>1, <3>1 DEF TypeOK
    <3>3. Busy'
      BY <2>1, <3>1 DEF TypeOK, Busy, Readers, Writers
    <3>4. QED
      BY <3>2, <3>3
  <2>2. CASE r \notin Cons
    BY <1>1, <2>2 DEF Spawn, TypeOK, Busy, Readers, Writers
  <2>3. QED
    BY <2>1, <2>2
<1>2. CASE ReadError(r)
  BY <1>2 DEF ReadError, TypeOK, Busy
<1>3. CASE Read(r)
  BY <1>3 DEF Read, TypeOK, Busy
<1>4. CASE ParsePacket(r)
  <2>1. made + 1 \in Packets /\ Shares(r) \in Int /\ ToBroadCast[r] \in Seq(Servers) \ {<<>>}
    BY <1>4 DEF ParsePacket, TypeOK, Packets, Shares
  <2>2. TypeOK'
    BY <1>4, <2>1 DEF ParsePacket, TypeOK
  <2>3. Busy'
    BY <1>4, <2>1 DEF ParsePacket, TypeOK, Busy
  <2>4. QED
    BY <2>2, <2>3
<1>5. CASE ParseNothing(r)
  BY <1>5 DEF ParseNothing, TypeOK, Busy
<1>6. CASE BeatAckFails(r)
  BY <1>6 DEF BeatAckFails, TypeOK, Busy
<1>7. CASE BroadCast(r)
  <2> DEFINE s == Head(left[r])
             m == packet[r]
  <2>1. /\ reader[r] = "cast" /\ m \in Packets /\ left[r] \in Seq(Servers) /\ left[r] # <<>>
    BY <1>7 DEF BroadCast, AfterCast, TypeOK, Busy
  <2>2. /\ s \in Servers /\ Tail(left[r]) \in Seq(Servers)
        /\ Len(Tail(left[r])) = Len(left[r]) - 1 /\ Len(left[r]) \in Nat
    BY <2>1, RangeTail
  <2>3. /\ queue[s] \in Seq(Packets) /\ Append(queue[s], m) \in Seq(Packets)
        /\ Len(Append(queue[s], m)) = Len(queue[s]) + 1 /\ Len(queue[s]) \in Nat
        /\ sent[s] \in Seq(Packets) /\ Append(sent[s], m) \in Seq(Packets)
    BY <2>1, <2>2 DEF TypeOK
  <2>4. /\ queue' = [queue EXCEPT ![s] = Append(queue[s], m)]
        /\ sent' = [sent EXCEPT ![s] = Append(sent[s], m)]
        /\ s \in Channels => Len(queue[s]) < Cap
    BY <1>7 DEF BroadCast, Put, HasRoom
  <2>5. /\ queue' \in [Servers -> Seq(Packets)] /\ sent' \in [Servers -> Seq(Packets)]
        /\ \A t \in Channels : Len(queue'[t]) <= Cap
    <3>1. queue' \in [Servers -> Seq(Packets)] /\ sent' \in [Servers -> Seq(Packets)]
      BY <2>3, <2>4 DEF TypeOK
    <3>2. /\ queue'[s] = Append(queue[s], m)
          /\ \A t \in Servers \ {s} : queue'[t] = queue[t]
      BY <2>2, <2>4 DEF TypeOK
    <3>3. ASSUME NEW t \in Channels PROVE Len(queue'[t]) <= Cap
      <4>1. CASE t = s
        BY <2>3, <2>4, <3>2, <4>1
      <4>2. CASE t # s
        BY <3>2, <4>2 DEF TypeOK
      <4>3. QED
        BY <4>1, <4>2
    <3>4. QED
      BY <3>1, <3>3
  <2>6. /\ left' = [left EXCEPT ![r] = Tail(left[r])]
        /\ UNCHANGED <<made, acks, inUse, old, writer, item, con, wrote, putBack>>
    BY <1>7 DEF BroadCast, AfterCast
  <2>7. CASE Tail(left[r]) # <<>>
    <3>1. UNCHANGED <<reader, packet>>
      BY <1>7, <2>7 DEF BroadCast, AfterCast
    <3>2. TypeOK'
      BY <2>2, <2>5, <2>6, <3>1 DEF TypeOK
    <3>3. Busy'
      BY <2>6, <2>7, <3>1 DEF TypeOK, Busy
    <3>4. QED
      BY <3>2, <3>3
  <2>8. CASE Tail(left[r]) = <<>>
    <3>1. /\ reader' = [reader EXCEPT ![r] = AfterCast(r)]
          /\ AfterCast(r) \in {"read", "parse"}
          /\ packet' = [packet EXCEPT ![r] = Nil]
      BY <1>7, <2>8 DEF BroadCast, AfterCast
    <3>2. TypeOK'
      BY <2>2, <2>5, <2>6, <3>1 DEF TypeOK
    <3>3. Busy'
      BY <2>6, <3>1 DEF Busy, TypeOK
    <3>4. QED
      BY <3>2, <3>3
  <2>9. QED
    BY <2>7, <2>8
<1>8. QED
  BY <1>1, <1>2, <1>3, <1>4, <1>5, <1>6, <1>7 DEF ReaderStep

(* The steps of a writer keep the types.                                   *)
LEMMA WriterTypes ==
  ASSUME RelayType, NEW w \in Writers, WriterStep(w)
  PROVE  RelayType'
<1> USE RelayAssumption DEF RelayType, RelayAssumption, SetReader, SetWriter, packetVars,
        readerVars, writerVars, history
<1>0. Serves[w] \in Servers /\ queue[Serves[w]] \in Seq(Packets)
  BY DEF TypeOK
<1>1. CASE TestClosed(w)
  <2>1. writer' = [writer EXCEPT ![w] = "end"] \/ writer' = [writer EXCEPT ![w] = "get"]
    BY <1>1, Zenon DEF TestClosed
  <2>2. TypeOK'
    BY <1>1, <2>1 DEF TestClosed, TypeOK
  <2>3. Busy'
    BY <1>1, <2>1 DEF TestClosed, TypeOK, Busy
  <2>4. QED
    BY <2>2, <2>3
<1>2. CASE Fetch(w)
  <2> DEFINE s == Serves[w]
  <2>1. /\ Head(queue[s]) \in Packets /\ Tail(queue[s]) \in Seq(Packets)
        /\ Len(Tail(queue[s])) = Len(queue[s]) - 1 /\ Len(queue[s]) \in Nat
    BY <1>0, <1>2, RangeTail DEF Fetch
  <2>2. TypeOK'
    BY <1>0, <1>2, <2>1 DEF Fetch, TypeOK
  <2>3. Busy'
    BY <1>0, <1>2, <2>1 DEF Fetch, TypeOK, Busy
  <2>4. QED
    BY <2>2, <2>3
<1>3. CASE SkipOld(w)
  BY <1>3 DEF SkipOld, TypeOK, Busy, Then
<1>4. CASE WriteWorks(w)
  <2>1. item[w] \in Packets /\ wrote[w] \in Seq(Packets)
    BY <1>4 DEF WriteWorks, TypeOK, Busy
  <2>2. Append(wrote[w], item[w]) \in Seq(Packets)
    BY <2>1
  <2>3. TypeOK'
    BY <1>4, <2>2 DEF WriteWorks, TypeOK, Then
  <2>4. Busy'
    BY <1>4 DEF WriteWorks, TypeOK, Busy, Then
  <2>5. QED
    BY <2>3, <2>4
<1>5. CASE WriteFails(w)
  BY <1>5 DEF WriteFails, TypeOK, Busy, Then
<1>6. CASE NobodyReached(w)
  BY <1>6 DEF NobodyReached, TypeOK, Busy, Then
<1>7. CASE ReleaseOnece(w)
  <2>1. item[w] \in Packets
    BY <1>7 DEF ReleaseOnece, Busy
  <2>2. TypeOK'
    BY <1>7, <2>1 DEF ReleaseOnece, TypeOK, After
  <2>3. Busy'
    BY <1>7 DEF ReleaseOnece, TypeOK, Busy, After
  <2>4. QED
    BY <2>2, <2>3
<1>8. CASE PutItBack(w)
  <2> DEFINE s == Serves[w]
  <2>1. item[w] \in Packets /\ s \notin Channels
    BY <1>8 DEF PutItBack, Busy
  <2>2. Append(queue[s], item[w]) \in Seq(Packets)
    BY <1>0, <2>1
  <2>3. queue' = [queue EXCEPT ![s] = Append(queue[s], item[w])]
    BY <1>8 DEF PutItBack, Put
  <2>4. TypeOK'
    BY <1>0, <1>8, <2>1, <2>2, <2>3 DEF PutItBack, TypeOK
  <2>5. Busy'
    BY <1>8 DEF PutItBack, TypeOK, Busy
  <2>6. QED
    BY <2>4, <2>5
<1>9. CASE FetchNothing(w)
  <2>1. writer' = [writer EXCEPT ![w] = "test"]
    BY <1>9, Zenon DEF FetchNothing
  <2>2. TypeOK'
    BY <1>9, <2>1 DEF FetchNothing, TypeOK
  <2>3. Busy'
    BY <1>9, <2>1 DEF FetchNothing, TypeOK, Busy
  <2>4. QED
    BY <2>2, <2>3
<1>10. QED
  BY <1>1, <1>2, <1>3, <1>4, <1>5, <1>6, <1>7, <1>8, <1>9 DEF WriterStep

(* Every step keeps the types.                                             *)
LEMMA NextTypes == ASSUME RelayType, [Next]_vars PROVE RelayType'
<1>1. CASE \E m \in Packets : Expire(m)
  BY <1>1 DEF Expire, RelayType, TypeOK, Busy, readerVars, writerVars, history
<1>2. CASE UNCHANGED vars
  BY <1>2 DEF RelayType, TypeOK, Busy, vars, packetVars, readerVars, writerVars, history
<1>3. QED
  BY <1>1, <1>2, ReaderTypes, WriterTypes DEF Next

(* The relay's state (createReadroutine, writeDataEachConRoutine,          *)
(* writeDataSharePool of new/server_tcp.go) is always well typed; the      *)
(* channel of WS never holds more than its capacity.                       *)
THEOREM RelayTypeCorrect == Spec => []TypeOK
<1>1. Init => RelayType
  BY InitRelay
<1>2. RelayType /\ [Next]_vars => RelayType'
  BY NextTypes
<1>3. RelayType => TypeOK
  BY DEF RelayType
<1>4. QED
  BY <1>1, <1>2, <1>3, PTL DEF Spec

-----------------------------------------------------------------------------
(* A step that neither hands over nor takes out nor drops a packet.        *)
LEMMA StillThere ==
  ASSUME KeepInv, UNCHANGED <<queue, sent, item, wrote>>, old \subseteq old',
         \A w \in Writers :
           \/ writer'[w] = writer[w]
           \/ writer[w] \in {"off", "test", "get"} /\ writer'[w] \in {"test", "get", "end"}
  PROVE  KeepInv'
BY DEF KeepInv, Idle, DoneWith, NothingLost

(* The steps of a reader lose nothing.                                     *)
LEMMA ReaderKeeps ==
  ASSUME RelayType, KeepInv, NEW r \in Readers, ReaderStep(r)
  PROVE  KeepInv'
<1> USE DEF SetReader, SetWriter, packetVars, readerVars, writerVars, history
<1>1. CASE Spawn(r)
  <2>1. \A w \in Writers :
          \/ writer'[w] = writer[w]
          \/ writer[w] \in {"off", "test"} /\ writer'[w] \in {"test", "get", "end"}
    BY <1>1, RelayAssumption DEF Spawn, RelayType, TypeOK, Busy
  <2>2. QED
    BY <1>1, <2>1, StillThere DEF Spawn
<1>2. CASE \/ ReadError(r) \/ Read(r) \/ ParsePacket(r) \/ ParseNothing(r) \/ BeatAckFails(r)
  BY <1>2, StillThere DEF ReadError, Read, ParsePacket, ParseNothing, BeatAckFails
<1>3. CASE BroadCast(r)
  <2> DEFINE s == Head(left[r])
             m == packet[r]
  <2>1. /\ m \in Packets /\ left[r] \in Seq(Servers) /\ left[r] # <<>>
        /\ s \in Servers
    BY <1>3, RangeTail DEF BroadCast, AfterCast, RelayType, TypeOK, Busy
  <2>2. /\ Range(Append(queue[s], m)) = Range(queue[s]) \cup {m}
        /\ Range(Append(sent[s], m)) = Range(sent[s]) \cup {m}
    BY <2>1, RangeAppend DEF RelayType, TypeOK
  <2>3. /\ queue' = [queue EXCEPT ![s] = Append(queue[s], m)]
        /\ sent' = [sent EXCEPT ![s] = Append(sent[s], m)]
        /\ UNCHANGED <<old, writer, item, wrote>>
    BY <1>3 DEF BroadCast, Put
  <2>4. Idle' /\ DoneWith'
    BY <2>3 DEF KeepInv, Idle, DoneWith
  <2>5. \A t \in Servers :
          /\ t = s => Range(queue'[t]) = Range(queue[t]) \cup {m}
                     /\ Range(sent'[t]) = Range(sent[t]) \cup {m}
          /\ t # s => queue'[t] = queue[t] /\ sent'[t] = sent[t]
    BY <2>1, <2>2, <2>3 DEF RelayType, TypeOK
  <2>6. NothingLost'
    <3> SUFFICES ASSUME NEW t \in NeedFeedBack, NEW x \in Range(sent'[t]) \ old'
                 PROVE  Has(t, x)'
      BY DEF NothingLost, Has
    <3>1. t \in Servers
      BY RelayAssumption DEF RelayAssumption
    <3>2. CASE t = s /\ x = m
      BY <2>5, <3>1, <3>2 DEF Has
    <3>3. CASE ~(t = s /\ x = m)
      <4>1. x \in Range(sent[t]) \ old
        BY <2>3, <2>5, <3>1, <3>3
      <4>2. Has(t, x)
        BY <4>1 DEF KeepInv, NothingLost, Has
      <4>3. QED
        BY <2>3, <2>5, <3>1, <4>2 DEF Has
    <3>4. QED
      BY <3>2, <3>3
  <2>7. QED
    BY <2>4, <2>6 DEF KeepInv
<1>4. QED
  BY <1>1, <1>2, <1>3 DEF ReaderStep

(* The steps of a writer lose nothing: a packet leaves its hands only for  *)
(* the queue, or when DoneWith holds of it.                                *)
LEMMA WriterKeeps ==
  ASSUME RelayType, KeepInv, NEW w \in Writers, WriterStep(w)
  PROVE  KeepInv'
<1> USE RelayAssumption DEF RelayAssumption, SetReader, SetWriter, packetVars, readerVars,
        writerVars, history
<1>0. /\ Serves[w] \in Servers /\ queue[Serves[w]] \in Seq(Packets)
      /\ writer \in [Writers -> {"off", "test", "get", "write", "release", "putback", "end"}]
      /\ item \in [Writers -> Packets \cup {Nil}]
      /\ wrote \in [Writers -> Seq(Packets)]
      /\ queue \in [Servers -> Seq(Packets)]
  BY DEF RelayType, TypeOK
<1>1. CASE TestClosed(w) \/ FetchNothing(w)
  <2>1. \A v \in Writers :
          \/ writer'[v] = writer[v]
          \/ /\ writer[v] \in {"off", "test", "get"}
             /\ writer'[v] \in {"test", "get", "end"}
    BY <1>0, <1>1 DEF TestClosed, FetchNothing
  <2>2. QED
    BY <1>1, <2>1, StillThere DEF TestClosed, FetchNothing
<1>2. CASE Fetch(w)
  <2> DEFINE s == Serves[w]
  <2>1. /\ writer[w] = "get" /\ item[w] = Nil /\ UNCHANGED <<sent, old, wrote>>
        /\ item' = [item EXCEPT ![w] = Head(queue[s])]
        /\ queue' = [queue EXCEPT ![s] = Tail(queue[s])]
        /\ writer' = [writer EXCEPT ![w] = "write"]
    BY <1>2 DEF Fetch, KeepInv, Idle
  <2>2. Range(queue[s]) = {Head(queue[s])} \cup Range(Tail(queue[s]))
    BY <1>0, <1>2, RangeTail DEF Fetch
  <2>3. Idle' /\ DoneWith'
    BY <1>0, <2>1 DEF KeepInv, Idle, DoneWith
  <2>4. NothingLost'
    <3> SUFFICES ASSUME NEW t \in NeedFeedBack, NEW x \in Range(sent[t]) \ old
                 PROVE  Has(t, x)'
      BY <2>1 DEF NothingLost, Has
    <3>1. Has(t, x) /\ t \in Servers
      BY DEF KeepInv, NothingLost, Has
    <3>2. CASE x \in Range(queue[t])
      BY <1>0, <2>1, <2>2, <3>1, <3>2 DEF Has
    <3>3. CASE x \notin Range(queue[t])
      <4>1. PICK v \in Writers : Serves[v] = t /\ (item[v] = x \/ x \in Range(wrote[v]))
        BY <3>1, <3>3 DEF Has
      <4>2. x \in Range(wrote[v]) \/ v # w \/ x = Nil
        BY <2>1, <4>1
      <4>3. CASE x = Nil
        <5>1. t \in Servers /\ sent[t] \in Seq(Packets) /\ x \in Packets
          BY <3>1, RangeAppend DEF RelayType, TypeOK, Range
        <5>2. QED
          BY <4>3, <5>1
      <4>4. CASE x # Nil
        BY <1>0, <2>1, <4>1, <4>2, <4>4 DEF Has
      <4>5. QED
        BY <4>3, <4>4
    <3>4. QED
      BY <3>2, <3>3
  <2>5. QED
    BY <2>3, <2>4 DEF KeepInv
<1>3. CASE SkipOld(w) \/ WriteFails(w) \/ NobodyReached(w)
  <2>1. /\ writer[w] = "write" /\ UNCHANGED <<queue, sent, old, item, wrote>>
        /\ \/ writer' = [writer EXCEPT ![w] = "putback"]
           \/ /\ writer' = [writer EXCEPT ![w] = "release"]
              /\ Serves[w] \in NeedFeedBack => item[w] \in old
    BY <1>3 DEF SkipOld, WriteFails, NobodyReached, Then
  <2>2. Idle' /\ DoneWith'
    BY <1>0, <2>1 DEF KeepInv, Idle, DoneWith
  <2>3. NothingLost'
    BY <2>1 DEF KeepInv, NothingLost
  <2>4. QED
    BY <2>2, <2>3 DEF KeepInv
<1>4. CASE WriteWorks(w)
  <2>1. /\ writer[w] = "write" /\ UNCHANGED <<queue, sent, old, item>>
        /\ writer' = [writer EXCEPT ![w] = "release"]
        /\ wrote' = [wrote EXCEPT ![w] = Append(wrote[w], item[w])]
    BY <1>4 DEF WriteWorks, Then
  <2>2. item[w] \in Packets
    BY <2>1 DEF RelayType, Busy
  <2>3. Range(Append(wrote[w], item[w])) = Range(wrote[w]) \cup {item[w]}
    BY <1>0, <2>2, RangeAppend
  <2>4. \A v \in Writers : Range(wrote[v]) \subseteq Range(wrote'[v])
    BY <1>0, <2>1, <2>3
  <2>5. Idle' /\ DoneWith'
    BY <1>0, <2>1, <2>3, <2>4 DEF KeepInv, Idle, DoneWith
  <2>6. NothingLost'
    <3> SUFFICES ASSUME NEW t \in NeedFeedBack, NEW x \in Range(sent[t]) \ old
                 PROVE  Has(t, x)'
      BY <2>1 DEF NothingLost, Has
    <3>1. Has(t, x)
      BY DEF KeepInv, NothingLost, Has
    <3>2. QED
      BY <2>1, <2>4, <3>1 DEF Has
  <2>7. QED
    BY <2>5, <2>6 DEF KeepInv
<1>5. CASE ReleaseOnece(w)
  <2>1. /\ writer[w] = "release" /\ UNCHANGED <<queue, sent, old, wrote>>
        /\ writer' = [writer EXCEPT ![w] = After(w)]
        /\ item' = [item EXCEPT ![w] = Nil]
    BY <1>5 DEF ReleaseOnece
  <2>2. Idle' /\ DoneWith'
    BY <1>0, <2>1 DEF KeepInv, Idle, DoneWith, After
  <2>3. NothingLost'
    <3> SUFFICES ASSUME NEW t \in NeedFeedBack, NEW x \in Range(sent[t]) \ old
                 PROVE  Has(t, x)'
      BY <2>1 DEF NothingLost, Has
    <3>1. Has(t, x)
      BY DEF KeepInv, NothingLost, Has
    <3>2. CASE Serves[w] = t /\ item[w] = x
      <4>1. x \in Range(wrote[w])
        BY <2>1, <3>2 DEF KeepInv, DoneWith
      <4>2. QED
        BY <2>1, <3>2, <4>1 DEF Has
    <3>3. CASE ~(Serves[w] = t /\ item[w] = x)
      BY <1>0, <2>1, <3>1, <3>3 DEF Has
    <3>4. QED
      BY <3>2, <3>3
  <2>4. QED
    BY <2>2, <2>3 DEF KeepInv
<1>6. CASE PutItBack(w)
  <2> DEFINE s == Serves[w]
             m == item[w]
  <2>1. /\ writer[w] = "putback" /\ UNCHANGED <<sent, old, wrote>>
        /\ writer' = [writer EXCEPT ![w] = IF w \in Cons THEN "end" ELSE "get"]
        /\ item' = [item EXCEPT ![w] = Nil]
        /\ queue' = [queue EXCEPT ![s] = Append(queue[s], m)]
    BY <1>6 DEF PutItBack, Put
  <2>2. m \in Packets
    BY <2>1 DEF RelayType, Busy
  <2>3. Range(Append(queue[s], m)) = Range(queue[s]) \cup {m}
    BY <1>0, <2>2, RangeAppend
  <2>4. /\ m \in Range(queue'[s])
        /\ \A t \in Servers : Range(queue[t]) \subseteq Range(queue'[t])
    BY <1>0, <2>1, <2>3
  <2>5. Idle' /\ DoneWith'
    BY <1>0, <2>1 DEF KeepInv, Idle, DoneWith
  <2>6. NothingLost'
    <3> SUFFICES ASSUME NEW t \in NeedFeedBack, NEW x \in Range(sent[t]) \ old
                 PROVE  Has(t, x)'
      BY <2>1 DEF NothingLost, Has
    <3>1. Has(t, x) /\ t \in Servers
      BY DEF KeepInv, NothingLost, Has
    <3>2. CASE Serves[w] = t /\ item[w] = x
      BY <2>4, <3>2 DEF Has
    <3>3. CASE ~(Serves[w] = t /\ item[w] = x)
      BY <1>0, <2>1, <2>4, <3>1, <3>3 DEF Has
    <3>4. QED
      BY <3>2, <3>3
  <2>7. QED
    BY <2>5, <2>6 DEF KeepInv
<1>7. QED
  BY <1>1, <1>2, <1>3, <1>4, <1>5, <1>6 DEF WriterStep

THEOREM RelayInvariant == Spec => [](RelayType /\ KeepInv)
<1>1. Init => RelayType /\ KeepInv
  BY InitRelay
<1>2. RelayType /\ KeepInv /\ [Next]_vars => RelayType' /\ KeepInv'
  <2> SUFFICES ASSUME RelayType, KeepInv, [Next]_vars PROVE KeepInv'
    BY NextTypes
  <2>1. CASE \E m \in Packets : Expire(m)
    BY <2>1, StillThere DEF Expire, writerVars, readerVars, history
  <2>2. CASE UNCHANGED vars
    BY <2>2, StillThere DEF vars, packetVars, readerVars, writerVars, history
  <2>3. QED
    BY <2>1, <2>2, ReaderKeeps, WriterKeeps DEF Next
<1>3. QED
  BY <1>1, <1>2, PTL DEF Spec

(* What was handed to a server with NeedFeedBack (GATEWAY) and is not too  *)
(* old is in its queue, with one of its writers, or written: a connection  *)
(* that fails loses nothing (writeDataEachConRoutine, writeDatatoCon).     *)
THEOREM NothingIsLost == Spec => []NothingLost
<1>1. KeepInv => NothingLost
  BY DEF KeepInv
<1>2. QED
  BY <1>1, RelayInvariant, PTL

-----------------------------------------------------------------------------
(* The places of a packet can be counted, one that was not made has none,  *)
(* and a reader has a packet only while it hands it over.                  *)
Counted ==
  /\ \A m \in Packets : IsFiniteSet(Places(m)) /\ acks[m] = Cardinality(Places(m))
  /\ \A m \in Packets : m \in inUse <=> Places(m) # {}
  /\ \A m \in Packets : m > made => Places(m) = {}

Empty == \A r \in Readers : packet[r] # Nil => reader[r] = "cast"

SharesInv == Counted /\ Empty

(* What is in the three kinds of places.                                   *)
LEMMA InUnvisited ==
  ASSUME NEW m
  PROVE  /\ \A p : p \in Unvisited(m) <=>
              \E r \in Readers : packet[r] = m /\ \E i \in DOMAIN left[r] : p = <<"left", r, i>>
         /\ \A p : p \in Unvisited(m)' <=>
              \E r \in Readers : packet'[r] = m /\ \E i \in DOMAIN left'[r] : p = <<"left", r, i>>
<1>1. \A p : p \in Unvisited(m) <=>
        \E r \in Readers : packet[r] = m /\ \E i \in DOMAIN left[r] : p = <<"left", r, i>>
  BY DEF Unvisited
<1>2. \A p : p \in Unvisited(m)' <=>
        \E r \in Readers : packet'[r] = m /\ \E i \in DOMAIN left'[r] : p = <<"left", r, i>>
  BY DEF Unvisited
<1>3. QED
  BY <1>1, <1>2

LEMMA InQueued ==
  ASSUME NEW m
  PROVE  /\ \A p : p \in Queued(m) <=>
              \E s \in Servers : \E i \in DOMAIN queue[s] : queue[s][i] = m /\ p = <<"queue", s, i>>
         /\ \A p : p \in Queued(m)' <=>
              \E s \in Servers : \E i \in DOMAIN queue'[s] : queue'[s][i] = m /\ p = <<"queue", s, i>>
<1>1. \A p : p \in Queued(m) <=>
        \E s \in Servers : \E i \in DOMAIN queue[s] : queue[s][i] = m /\ p = <<"queue", s, i>>
  BY DEF Queued
<1>2. \A p : p \in Queued(m)' <=>
        \E s \in Servers : \E i \in DOMAIN queue'[s] : queue'[s][i] = m /\ p = <<"queue", s, i>>
  BY DEF Queued
<1>3. QED
  BY <1>1, <1>2

LEMMA InInHands ==
  ASSUME NEW m
  PROVE  /\ \A p : p \in InHands(m) <=> \E w \in Writers : item[w] = m /\ p = <<"writer", w, 1>>
         /\ \A p : p \in InHands(m)' <=> \E w \in Writers : item'[w] = m /\ p = <<"writer", w, 1>>
BY DEF InHands

(* The kinds do not overlap.                                               *)
LEMMA KindsDiffer ==
  ASSUME NEW m
  PROVE  /\ \A r, i : <<"left", r, i>> \notin Queued(m) \cup InHands(m)
         /\ \A s, i : <<"queue", s, i>> \notin Unvisited(m) \cup InHands(m)
         /\ \A w : <<"writer", w, 1>> \notin Unvisited(m) \cup Queued(m)
BY InUnvisited, InQueued, InInHands

(* Steps that move no packet.                                              *)
LEMMA NothingMoves ==
  ASSUME Counted, UNCHANGED <<made, acks, inUse, packet, left, queue, item>>
  PROVE  Counted'
<1>1. \A m \in Packets : Places(m)' = Places(m)
  BY DEF Places, Unvisited, Queued, InHands
<1>2. QED
  BY <1>1 DEF Counted

(* A share that goes from one place to another.                            *)
LEMMA ShareMoves ==
  ASSUME Counted, UNCHANGED <<made, acks, inUse>>, NEW m \in Packets, NEW p, NEW q,
         p \in Places(m), q \notin Places(m), Places(m)' = (Places(m) \ {p}) \cup {q},
         \A n \in Packets \ {m} : Places(n)' = Places(n)
  PROVE  Counted'
<1>1. IsFiniteSet(Places(m)) /\ Cardinality(Places(m)) \in Nat
  BY FS_CardinalityType DEF Counted
<1>2. /\ IsFiniteSet(Places(m) \ {p})
      /\ Cardinality(Places(m) \ {p}) = Cardinality(Places(m)) - 1
  BY <1>1, FS_RemoveElement
<1>3. /\ IsFiniteSet(Places(m)')
      /\ Cardinality(Places(m)') = Cardinality(Places(m))
  BY <1>1, <1>2, FS_AddElement
<1>4. Places(m)' # {} /\ Places(m) # {}
  OBVIOUS
<1>5. QED
  BY <1>3, <1>4 DEF Counted

(* What goes to the end of the queue of s is in one more place.            *)
LEMMA QueuedAfterPut ==
  ASSUME RelayType, NEW s \in Servers, NEW m \in Packets, queue' = Put(s, m)
  PROVE  /\ Queued(m)' = Queued(m) \cup {<<"queue", s, Len(queue[s]) + 1>>}
         /\ <<"queue", s, Len(queue[s]) + 1>> \notin Queued(m)
         /\ \A n \in Packets \ {m} : Queued(n)' = Queued(n)
<1> DEFINE l == Len(queue[s]) + 1
           end == <<"queue", s, l>>
<1>1. /\ queue \in [Servers -> Seq(Packets)] /\ queue[s] \in Seq(Packets)
      /\ queue'[s] = Append(queue[s], m) /\ \A t \in Servers \ {s} : queue'[t] = queue[t]
  BY DEF RelayType, TypeOK, Put
<1>2. ASSUME NEW q \in Seq(Packets)
      PROVE  /\ Len(q) \in Nat /\ DOMAIN q = 1 .. Len(q) /\ DOMAIN Append(q, m) = 1 .. Len(q) + 1
             /\ \A i \in 1 .. Len(q) : Append(q, m)[i] = q[i]
             /\ Append(q, m)[Len(q) + 1] = m
  OBVIOUS
<1>3. /\ l \in Nat \ {0} /\ DOMAIN queue[s] = 1 .. l - 1 /\ DOMAIN queue'[s] = 1 .. l
      /\ \A i \in 1 .. l - 1 : queue'[s][i] = queue[s][i]
      /\ queue'[s][l] = m
  BY <1>1, <1>2
<1> HIDE DEF l
<1>4. ASSUME NEW n, NEW p \in Queued(n) PROVE p \in Queued(n)'
  <2>1. PICK t, i : t \in Servers /\ i \in DOMAIN queue[t] /\ queue[t][i] = n /\ p = <<"queue", t, i>>
    BY <1>4, InQueued
  <2>2. i \in DOMAIN queue'[t] /\ queue'[t][i] = n
    BY <1>1, <1>3, <2>1
  <2>3. QED
    BY <2>1, <2>2, InQueued
<1>5. ASSUME NEW n, NEW p, p \in Queued(n)' PROVE p \in Queued(n) \/ (n = m /\ p = end)
  <2>1. PICK t, i : t \in Servers /\ i \in DOMAIN queue'[t] /\ queue'[t][i] = n /\ p = <<"queue", t, i>>
    BY <1>5, InQueued
  <2>2. CASE t = s /\ i = l
    BY <1>3, <2>1, <2>2
  <2>3. CASE ~ (t = s /\ i = l)
    <3>1. i \in DOMAIN queue[t] /\ queue[t][i] = n
      <4>1. CASE t # s
        BY <1>1, <2>1, <4>1
      <4>2. CASE t = s
        <5>1. i \in 1 .. l - 1
          BY <1>3, <2>1, <2>3, <4>2
        <5>2. QED
          BY <1>3, <2>1, <4>2, <5>1
      <4>3. QED
        BY <4>1, <4>2
    <3>2. QED
      BY <2>1, <3>1, InQueued
  <2>4. QED
    BY <2>2, <2>3
<1>6. end \in Queued(m)'
  BY <1>3, InQueued
<1>7. \A n : end \notin Queued(n)
  <2> SUFFICES ASSUME NEW n, end \in Queued(n) PROVE FALSE
    OBVIOUS
  <2>1. PICK t, i : t \in Servers /\ i \in DOMAIN queue[t] /\ end = <<"queue", t, i>>
    BY InQueued
  <2>2. t = s /\ i = l
    BY <2>1
  <2>3. QED
    BY <1>3, <2>1, <2>2
<1>8. QED
  BY <1>4, <1>5, <1>6, <1>7 DEF l

(* BroadCast: from the reader to the end of a queue.                       *)
LEMMA BroadCastCounts ==
  ASSUME RelayType, SharesInv, NEW r \in Readers, BroadCast(r)
  PROVE  SharesInv'
<1> USE RelayAssumption DEF RelayAssumption
<1>1. /\ reader[r] = "cast" /\ packet[r] \in Packets /\ left[r] \in Seq(Servers) /\ left[r] # <<>>
      /\ Head(left[r]) \in Servers
  BY RangeTail DEF BroadCast, RelayType, TypeOK, Busy
<1>2. PICK s \in Servers : s = Head(left[r])
  BY <1>1
<1>3. PICK m \in Packets : m = packet[r]
  BY <1>1
<1>4. PICK k : k = Len(left[r])
  OBVIOUS
<1>5. PICK from : from = <<"left", r, k>>
  OBVIOUS
<1>6. PICK to : to = <<"queue", s, Len(queue[s]) + 1>>
  OBVIOUS
<1>7. /\ reader[r] = "cast" /\ packet[r] = m /\ left[r] \in Seq(Servers) /\ left[r] # <<>>
      /\ m # Nil
  BY <1>1, <1>3
<1>8. ASSUME NEW q \in Seq(Servers), q # <<>>
      PROVE  /\ Len(q) \in Nat \ {0}
             /\ DOMAIN q = 1 .. Len(q) /\ DOMAIN Tail(q) = 1 .. Len(q) - 1
             /\ Tail(q) = <<>> => Len(q) = 1
  <2>1. Len(q) \in Nat \ {0} /\ DOMAIN q = 1 .. Len(q)
    BY <1>8
  <2>2. Tail(q) \in Seq(Servers) /\ Len(Tail(q)) = Len(q) - 1
    BY <1>8, RangeTail
  <2>3. DOMAIN Tail(q) = 1 .. Len(q) - 1
    BY <2>2
  <2>4. Tail(q) = <<>> => Len(Tail(q)) = 0
    BY <2>2, EmptySeq, Zenon
  <2>5. Tail(q) = <<>> => Len(q) = 1
    <3>1. \A x, y \in Nat : x = y - 1 /\ x = 0 => y = 1
      OBVIOUS
    <3>2. QED
      BY <2>1, <2>2, <2>4, <3>1, Zenon
  <2>6. QED
    BY <2>1, <2>3, <2>5
<1>9. /\ k \in Nat \ {0} /\ DOMAIN left[r] = 1 .. k /\ DOMAIN Tail(left[r]) = 1 .. k - 1
      /\ Tail(left[r]) = <<>> => k = 1
  BY <1>7, <1>8, <1>4
<1>10. /\ queue' = Put(s, m)
       /\ left' = [left EXCEPT ![r] = Tail(left[r])]
       /\ UNCHANGED <<made, acks, inUse, item>>
       /\ \/ Tail(left[r]) # <<>> /\ UNCHANGED <<reader, packet>>
          \/ /\ Tail(left[r]) = <<>> /\ packet' = [packet EXCEPT ![r] = Nil]
             /\ \E a \in {"read", "parse"} : reader' = [reader EXCEPT ![r] = a]
  BY <1>2, <1>3 DEF BroadCast, SetReader, AfterCast, packetVars, writerVars
<1>11. /\ packet \in [Readers -> Packets \cup {Nil}] /\ left \in [Readers -> Seq(Servers)]
       /\ reader \in [Readers -> {"off", "read", "parse", "cast", "end"}]
  BY DEF RelayType, TypeOK
<1>12. Empty'
  BY <1>7, <1>10, <1>11 DEF SharesInv, Empty
<1>13. /\ Queued(m)' = Queued(m) \cup {to} /\ to \notin Queued(m)
       /\ \A n \in Packets \ {m} : Queued(n)' = Queued(n)
  BY <1>7, <1>10, <1>6, QueuedAfterPut
<1>14. /\ k \in Nat \ {0} /\ DOMAIN left[r] = 1 .. k /\ DOMAIN left'[r] = 1 .. k - 1
       /\ \A t \in Readers \ {r} : left'[t] = left[t] /\ packet'[t] = packet[t]
       /\ packet[r] = m /\ (packet'[r] = m \/ (packet'[r] = Nil /\ k = 1))
  BY <1>7, <1>9, <1>10, <1>11
<1>15. from \in Unvisited(m)
  <2>1. k \in 1 .. k
    BY <1>9
  <2>2. packet[r] = m /\ k \in DOMAIN left[r]
    BY <1>14, <2>1
  <2>3. QED
    BY <1>5, <2>2, InUnvisited
<1>16. from \notin Unvisited(m)'
  <2> SUFFICES ASSUME from \in Unvisited(m)' PROVE FALSE
    OBVIOUS
  <2>1. PICK t, i : t \in Readers /\ i \in DOMAIN left'[t] /\ from = <<"left", t, i>>
    BY InUnvisited
  <2>2. t = r /\ i = k
    BY <1>5, <2>1
  <2>3. k \notin 1 .. k - 1
    BY <1>9
  <2>4. DOMAIN left'[r] = 1 .. k - 1
    BY <1>14
  <2>5. QED
    BY <2>1, <2>2, <2>3, <2>4
<1>17. ASSUME NEW n \in Packets, NEW p, p \in Unvisited(n)' PROVE p \in Unvisited(n)
  <2>1. PICK t \in Readers : /\ packet'[t] = n
                             /\ \E i \in DOMAIN left'[t] : p = <<"left", t, i>>
    BY <1>17, InUnvisited
  <2>2. PICK i \in DOMAIN left'[t] : p = <<"left", t, i>>
    BY <2>1
  <2>3. packet[t] = n /\ i \in DOMAIN left[t]
    <3>1. CASE t = r
      <4>1. i \in 1 .. k - 1 /\ packet'[r] # Nil
        BY <1>14, <2>1, <3>1
      <4>2. i \in 1 .. k
        BY <1>9, <4>1
      <4>3. packet[r] = n /\ i \in DOMAIN left[r]
        BY <1>14, <2>1, <3>1, <4>1, <4>2
      <4>4. QED
        BY <3>1, <4>3
    <3>2. CASE t # r
      BY <1>14, <2>1, <3>2
    <3>3. QED
      BY <3>1, <3>2
  <2>4. QED
    BY <2>2, <2>3, InUnvisited
<1>18. ASSUME NEW n \in Packets, NEW p \in Unvisited(n), p # from PROVE p \in Unvisited(n)'
  <2>1. PICK t \in Readers : packet[t] = n /\ \E i \in DOMAIN left[t] : p = <<"left", t, i>>
    BY <1>18, InUnvisited
  <2>2. PICK i \in DOMAIN left[t] : p = <<"left", t, i>>
    BY <2>1
  <2>3. packet'[t] = n /\ i \in DOMAIN left'[t]
    <3>1. CASE t = r
      <4>1. i # k
        BY <1>5, <1>18, <2>2, <3>1
      <4>2. i \in 1 .. k
        BY <1>14, <3>1
      <4>3. i \in 1 .. k - 1 /\ k # 1
        BY <1>9, <4>1, <4>2
      <4>4. packet'[r] = n
        BY <1>14, <2>1, <3>1, <4>3
      <4>5. i \in DOMAIN left'[r]
        BY <1>14, <4>3
      <4>6. QED
        BY <3>1, <4>4, <4>5
    <3>2. CASE t # r
      BY <1>14, <2>1, <2>2, <3>2
    <3>3. QED
      BY <3>1, <3>2
  <2>4. QED
    BY <2>2, <2>3, InUnvisited
<1>19. ASSUME NEW n \in Packets \ {m} PROVE from \notin Unvisited(n)
  <2> SUFFICES ASSUME from \in Unvisited(n) PROVE FALSE
    OBVIOUS
  <2>1. PICK t \in Readers : packet[t] = n /\ \E i : from = <<"left", t, i>>
    BY InUnvisited
  <2>2. t = r
    BY <1>5, <2>1
  <2>3. QED
    BY <1>14, <2>1, <2>2
<1>20. Unvisited(m)' = Unvisited(m) \ {from}
  BY <1>7, <1>16, <1>17, <1>18
<1>21. ASSUME NEW n \in Packets \ {m} PROVE Unvisited(n)' = Unvisited(n)
  <2>1. \A p : p \in Unvisited(n)' => p \in Unvisited(n)
    BY <1>17
  <2>2. \A p : p \in Unvisited(n) => p \in Unvisited(n)'
    BY <1>18, <1>19
  <2>3. QED
    BY <2>1, <2>2
<1>22. \A n : InHands(n)' = InHands(n)
  BY <1>10 DEF InHands
<1>23. from \notin Queued(m) \cup InHands(m) /\ to \notin Unvisited(m) \cup InHands(m) /\ from # to
  BY <1>5, <1>6, KindsDiffer
<1>24. Counted'
  <2>1. \A n : Places(n)' = Unvisited(n)' \cup Queued(n)' \cup InHands(n)'
    BY DEF Places
  <2>2. /\ Places(m)' = (Places(m) \ {from}) \cup {to}
        /\ from \in Places(m) /\ to \notin Places(m)
    BY <1>13, <1>15, <1>20, <1>22, <1>23, <2>1 DEF Places
  <2>3. \A n \in Packets \ {m} : Places(n)' = Places(n)
    BY <1>13, <1>21, <1>22, <2>1 DEF Places
  <2>4. Counted /\ UNCHANGED <<made, acks, inUse>>
    BY <1>10 DEF SharesInv
  <2>5. QED
    BY <1>7, <2>2, <2>3, <2>4, ShareMoves
<1>25. QED
  BY <1>12, <1>24 DEF SharesInv

(* Two functions that undo each other make two sets equally large.         *)
LEMMA Paired ==
  ASSUME NEW S, NEW T, NEW f \in [S -> T], NEW g \in [T -> S],
         \A x \in S : g[f[x]] = x, \A y \in T : f[g[y]] = y
  PROVE  ExistsBijection(S, T)
<1>1. f \in Injection(S, T)
  BY DEF Injection, IsInjective
<1>2. f \in Surjection(S, T)
  BY DEF Surjection
<1>3. QED
  BY <1>1, <1>2 DEF ExistsBijection, Bijection

(* Steps after which every packet has as many places as before.            *)
LEMMA AsManyPlaces ==
  ASSUME Counted, UNCHANGED <<made, acks, inUse>>,
         \A n \in Packets : ExistsBijection(Places(n), Places(n)')
  PROVE  Counted'
<1> SUFFICES ASSUME NEW n \in Packets
             PROVE  /\ IsFiniteSet(Places(n)') /\ acks'[n] = Cardinality(Places(n)')
                    /\ n \in inUse' <=> Places(n)' # {}
                    /\ n > made' => Places(n)' = {}
  BY DEF Counted
<1>1. IsFiniteSet(Places(n)) /\ acks[n] = Cardinality(Places(n))
  BY DEF Counted
<1>2. IsFiniteSet(Places(n)') /\ Cardinality(Places(n)') = Cardinality(Places(n))
  BY <1>1, FS_Bijection
<1>3. Places(n)' = {} <=> Places(n) = {}
  BY <1>1, <1>2, FS_EmptySet
<1>4. QED
  BY <1>1, <1>2, <1>3 DEF Counted

(* What a writer takes from the front of a queue is in its hands; the rest *)
(* moves up.                                                               *)
LEMMA FetchCounts ==
  ASSUME RelayType, SharesInv, Idle, NEW w \in Writers, Fetch(w)
  PROVE  SharesInv'
<1> USE RelayAssumption DEF RelayAssumption
<1>1. PICK s \in Servers : s = Serves[w]
  OBVIOUS
<1>2. queue \in [Servers -> Seq(Packets)] /\ queue[s] \in Seq(Packets) /\ queue[s] # <<>>
  BY <1>1 DEF Fetch, RelayType, TypeOK
<1>3. PICK l : l = Len(queue[s])
  OBVIOUS
<1>4. ASSUME NEW q \in Seq(Packets), q # <<>>
      PROVE  /\ Len(q) \in Nat \ {0} /\ DOMAIN q = 1 .. Len(q)
             /\ DOMAIN Tail(q) = 1 .. Len(q) - 1
             /\ \A i \in 1 .. Len(q) - 1 : Tail(q)[i] = q[i + 1]
             /\ Head(q) = q[1]
  BY <1>4
<1>5. /\ l \in Nat \ {0} /\ DOMAIN queue[s] = 1 .. l /\ DOMAIN queue'[s] = 1 .. l - 1
      /\ \A i \in 1 .. l - 1 : queue'[s][i] = queue[s][i + 1]
      /\ \A t \in Servers \ {s} : queue'[t] = queue[t]
  BY <1>1, <1>2, <1>3, <1>4 DEF Fetch
<1>6. /\ item[w] = Nil /\ item'[w] = queue[s][1]
      /\ \A v \in Writers \ {w} : item'[v] = item[v]
      /\ UNCHANGED <<made, acks, inUse, reader, packet, left>>
  BY <1>1, <1>2, <1>4 DEF Fetch, Idle, RelayType, TypeOK, packetVars, readerVars
<1>7. PICK first, hand : first = <<"queue", s, 1>> /\ hand = <<"writer", w, 1>>
  OBVIOUS
<1>8. ASSUME NEW n \in Packets PROVE ExistsBijection(Places(n), Places(n)')
  <2> DEFINE Here == {<<"queue", s, i>> : i \in 2 .. l}
             Up == {<<"queue", s, i>> : i \in 1 .. l - 1}
             F(p) == IF p = first THEN hand
                     ELSE IF p \in Here THEN <<"queue", s, p[3] - 1>> ELSE p
             G(p) == IF p = hand THEN first
                     ELSE IF p \in Up THEN <<"queue", s, p[3] + 1>> ELSE p
  <2>1. /\ Unvisited(n)' = Unvisited(n) /\ \A p : p \in Unvisited(n) => p # hand /\ p # first /\ p \notin Here /\ p \notin Up
    BY <1>6, <1>7, InUnvisited DEF Unvisited
  <2>2. /\ \A v \in Writers \ {w} : <<"writer", v, 1>> \in InHands(n) <=> <<"writer", v, 1>> \in InHands(n)'
        /\ hand \notin InHands(n)
        /\ hand \in InHands(n)' <=> queue[s][1] = n
    BY <1>6, <1>7, InInHands
  <2>3. /\ Places(n) = Unvisited(n) \cup Queued(n) \cup InHands(n)
        /\ Places(n)' = Unvisited(n)' \cup Queued(n)' \cup InHands(n)'
    BY DEF Places
  <2>4. /\ first \notin Here /\ hand \notin Up /\ hand \notin Here /\ first # hand
    BY <1>7
  <2>5. /\ \A i \in 2 .. l : i - 1 \in 1 .. l - 1
        /\ \A i \in 1 .. l - 1 : i + 1 \in 2 .. l
        /\ \A i \in 1 .. l : i = 1 \/ i \in 2 .. l
        /\ \A i \in 2 .. l : i \in 1 .. l /\ i # 1
        /\ \A i \in 1 .. l - 1 : i \in 1 .. l
    BY <1>5
  <2>6. /\ F(first) = hand /\ G(hand) = first
        /\ \A i \in 2 .. l : /\ F(<<"queue", s, i>>) = <<"queue", s, i - 1>>
                             /\ G(<<"queue", s, i - 1>>) = <<"queue", s, i>>
        /\ \A i \in 1 .. l - 1 : /\ G(<<"queue", s, i>>) = <<"queue", s, i + 1>>
                                 /\ F(<<"queue", s, i + 1>>) = <<"queue", s, i>>
        /\ \A p : p \notin Here /\ p # first => F(p) = p
        /\ \A p : p \notin Up /\ p # hand => G(p) = p
    <3>1. \A i \in 2 .. l : <<"queue", s, i>> \in Here /\ <<"queue", s, i>> # first
      BY <1>7, <2>5
    <3>2. \A i \in 1 .. l - 1 : <<"queue", s, i>> \in Up /\ <<"queue", s, i>> # hand
      BY <1>7
    <3>3. /\ \A i \in 2 .. l : <<"queue", s, i>>[3] - 1 = i - 1 /\ (i - 1) + 1 = i
          /\ \A i \in 1 .. l - 1 : <<"queue", s, i>>[3] + 1 = i + 1 /\ (i + 1) - 1 = i
      BY <1>5
    <3> HIDE DEF Here, Up
    <3>4. /\ \A i \in 2 .. l : F(<<"queue", s, i>>) = <<"queue", s, i - 1>>
          /\ \A i \in 1 .. l - 1 : G(<<"queue", s, i>>) = <<"queue", s, i + 1>>
      BY <3>1, <3>2, <3>3
    <3>5. /\ F(first) = hand /\ G(hand) = first
          /\ \A p : p \notin Here /\ p # first => F(p) = p
          /\ \A p : p \notin Up /\ p # hand => G(p) = p
      OBVIOUS
    <3> HIDE DEF F, G
    <3>6. QED
      BY <2>5, <3>3, <3>4, <3>5
  <2>7. /\ \A p \in Queued(n) : \E t \in Servers : \E i \in DOMAIN queue[t] :
             queue[t][i] = n /\ p = <<"queue", t, i>>
        /\ \A p : p \in Queued(n)' => \E t \in Servers : \E i \in DOMAIN queue'[t] :
             queue'[t][i] = n /\ p = <<"queue", t, i>>
    BY InQueued
  <2>8. ASSUME NEW p \in Places(n)
        PROVE  F(p) \in Places(n)' /\ G(F(p)) = p
    <3>1. CASE p \in Unvisited(n)
      <4> HIDE DEF F, G, Here, Up
      <4>1. QED
        BY <2>1, <2>3, <2>6, <3>1
    <3>2. CASE p \in InHands(n)
      <4>1. PICK v \in Writers : item[v] = n /\ p = <<"writer", v, 1>>
        BY <3>2, InInHands
      <4>2. v # w /\ p # first /\ p # hand /\ p \notin Here /\ p \notin Up
        BY <1>6, <1>7, <4>1
      <4>3. p \in InHands(n)'
        BY <2>2, <3>2, <4>1, <4>2
      <4> HIDE DEF F, G, Here, Up
      <4>4. QED
        BY <2>3, <2>6, <4>2, <4>3
    <3>3. CASE p \in Queued(n)
      <4>1. PICK t \in Servers : \E i \in DOMAIN queue[t] : queue[t][i] = n /\ p = <<"queue", t, i>>
        BY <2>7, <3>3
      <4>2. PICK i \in DOMAIN queue[t] : queue[t][i] = n /\ p = <<"queue", t, i>>
        BY <4>1
      <4>3. CASE t # s
        <5>1. p # first /\ p # hand /\ p \notin Here /\ p \notin Up
          BY <1>7, <4>2, <4>3
        <5>2. p \in Queued(n)'
          BY <1>5, <4>2, <4>3, InQueued
        <5> HIDE DEF F, G, Here, Up
        <5>3. QED
          BY <2>3, <2>6, <5>1, <5>2
      <4>4. CASE t = s /\ i = 1
        <5>1. p = first /\ hand \in InHands(n)'
          BY <1>7, <2>2, <4>2, <4>4
        <5> HIDE DEF F, G, Here, Up
        <5>2. QED
          BY <2>3, <2>6, <5>1
      <4>5. CASE t = s /\ i # 1
        <5>1. i \in 2 .. l /\ i - 1 \in 1 .. l - 1 /\ (i - 1) + 1 = i
          BY <1>5, <2>5, <4>5
        <5>2. i - 1 \in DOMAIN queue'[s] /\ queue'[s][i - 1] = n
          BY <1>5, <4>2, <4>5, <5>1
        <5>3. <<"queue", s, i - 1>> \in Queued(n)'
          BY <1>1, <5>2, InQueued
        <5> HIDE DEF F, G, Here, Up
        <5>4. QED
          BY <2>3, <2>6, <4>2, <4>5, <5>1, <5>3
      <4>6. QED
        BY <4>3, <4>4, <4>5
    <3>4. QED
      BY <2>3, <3>1, <3>2, <3>3
  <2>9. ASSUME NEW p, p \in Places(n)'
        PROVE  G(p) \in Places(n) /\ F(G(p)) = p
    <3>1. CASE p \in Unvisited(n)'
      <4> HIDE DEF F, G, Here, Up
      <4>1. QED
        BY <2>1, <2>3, <2>6, <3>1
    <3>2. CASE p \in InHands(n)'
      <4>1. PICK v \in Writers : item'[v] = n /\ p = <<"writer", v, 1>>
        BY <3>2, InInHands
      <4>2. CASE v = w
        <5>1. p = hand /\ queue[s][1] = n /\ 1 \in DOMAIN queue[s]
          BY <1>5, <1>6, <1>7, <4>1, <4>2
        <5>2. first \in Queued(n)
          BY <1>1, <1>7, <5>1, InQueued
        <5> HIDE DEF F, G, Here, Up
        <5>3. QED
          BY <2>3, <2>6, <5>1, <5>2
      <4>3. CASE v # w
        <5>1. p # first /\ p # hand /\ p \notin Here /\ p \notin Up
          BY <1>7, <4>1, <4>3
        <5>2. p \in InHands(n)
          BY <2>2, <3>2, <4>1, <4>3
        <5> HIDE DEF F, G, Here, Up
        <5>3. QED
          BY <2>3, <2>6, <5>1, <5>2
      <4>4. QED
        BY <4>2, <4>3
    <3>3. CASE p \in Queued(n)'
      <4>1. PICK t \in Servers : \E i \in DOMAIN queue'[t] : queue'[t][i] = n /\ p = <<"queue", t, i>>
        BY <2>7, <3>3
      <4>2. PICK i \in DOMAIN queue'[t] : queue'[t][i] = n /\ p = <<"queue", t, i>>
        BY <4>1
      <4>3. CASE t # s
        <5>1. p # first /\ p # hand /\ p \notin Here /\ p \notin Up
          BY <1>7, <4>2, <4>3
        <5>2. p \in Queued(n)
          BY <1>5, <4>2, <4>3, InQueued
        <5> HIDE DEF F, G, Here, Up
        <5>3. QED
          BY <2>3, <2>6, <5>1, <5>2
      <4>4. CASE t = s
        <5>1. i \in 1 .. l - 1 /\ i + 1 \in 1 .. l
          BY <1>5, <2>5, <4>4
        <5>2. i + 1 \in DOMAIN queue[s] /\ queue[s][i + 1] = n
          BY <1>5, <4>2, <4>4, <5>1
        <5>3. <<"queue", s, i + 1>> \in Queued(n)
          BY <1>1, <5>2, InQueued
        <5> HIDE DEF F, G, Here, Up
        <5>4. QED
          BY <2>3, <2>6, <4>2, <4>4, <5>1, <5>3
      <4>5. QED
        BY <4>3, <4>4
    <3>4. QED
      BY <2>9, <2>3, <3>1, <3>2, <3>3
  <2>10. QED
    <3> DEFINE f == [p \in Places(n) |-> F(p)]
               g == [p \in Places(n)' |-> G(p)]
    <3> HIDE DEF F, G
    <3>1. f \in [Places(n) -> Places(n)'] /\ g \in [Places(n)' -> Places(n)]
      BY <2>8, <2>9
    <3>2. /\ \A p \in Places(n) : g[f[p]] = p
          /\ \A p \in Places(n)' : f[g[p]] = p
      BY <2>8, <2>9
    <3> HIDE DEF f, g
    <3>3. PICK S, T : S = Places(n) /\ T = Places(n)'
      OBVIOUS
    <3>4. /\ f \in [S -> T] /\ g \in [T -> S]
          /\ \A p \in S : g[f[p]] = p
          /\ \A p \in T : f[g[p]] = p
      BY <3>1, <3>2, <3>3, Zenon
    <3>5. ExistsBijection(S, T)
      BY <3>4, Paired
    <3>6. QED
      BY <3>3, <3>5
<1>9. Counted'
  BY <1>6, <1>8, AsManyPlaces DEF SharesInv
<1>10. QED
  BY <1>6, <1>9 DEF SharesInv, Empty

(* A writer lets go of its packet.                                         *)
LEMMA HandsAfter ==
  ASSUME NEW w \in Writers, NEW m \in Packets, item[w] = m, item'[w] \notin Packets,
         \A v \in Writers \ {w} : item'[v] = item[v]
  PROVE  /\ InHands(m)' = InHands(m) \ {<<"writer", w, 1>>}
         /\ <<"writer", w, 1>> \in InHands(m)
         /\ \A n \in Packets \ {m} : InHands(n)' = InHands(n)
<1> DEFINE hand == <<"writer", w, 1>>
<1>1. ASSUME NEW n \in Packets, NEW p, p \in InHands(n)' PROVE p \in InHands(n) /\ p # hand
  <2>1. PICK v \in Writers : item'[v] = n /\ p = <<"writer", v, 1>>
    BY <1>1, InInHands
  <2>2. v # w /\ item[v] = n
    BY <2>1
  <2>3. QED
    BY <2>1, <2>2, InInHands
<1>2. ASSUME NEW n \in Packets, NEW p, p \in InHands(n), p # hand PROVE p \in InHands(n)'
  <2>1. PICK v \in Writers : item[v] = n /\ p = <<"writer", v, 1>>
    BY <1>2, InInHands
  <2>2. v # w /\ item'[v] = n
    BY <1>2, <2>1
  <2>3. QED
    BY <2>1, <2>2, InInHands
<1>3. hand \in InHands(m)
  BY InInHands
<1>4. ASSUME NEW n \in Packets \ {m} PROVE hand \notin InHands(n)
  <2> SUFFICES ASSUME hand \in InHands(n) PROVE FALSE
    OBVIOUS
  <2>1. PICK v \in Writers : item[v] = n /\ hand = <<"writer", v, 1>>
    BY InInHands
  <2>2. v = w
    BY <2>1
  <2>3. QED
    BY <2>1, <2>2
<1> HIDE DEF hand
<1>5. InHands(m)' = InHands(m) \ {hand}
  BY <1>1, <1>2
<1>6. \A n \in Packets \ {m} : InHands(n)' = InHands(n)
  BY <1>1, <1>2, <1>4
<1>7. QED
  BY <1>3, <1>5, <1>6 DEF hand

(* PutItBack: from the hands of the writer to the end of the queue.        *)
LEMMA PutItBackCounts ==
  ASSUME RelayType, SharesInv, NEW w \in Writers, PutItBack(w)
  PROVE  SharesInv'
<1> USE RelayAssumption DEF RelayAssumption
<1>1. PICK s \in Servers : s = Serves[w]
  OBVIOUS
<1>2. item[w] \in Packets
  BY DEF PutItBack, RelayType, Busy
<1>3. PICK m \in Packets : m = item[w]
  BY <1>2
<1>4. PICK to, hand : to = <<"queue", s, Len(queue[s]) + 1>> /\ hand = <<"writer", w, 1>>
  OBVIOUS
<1>5. /\ queue' = Put(s, m)
      /\ item'[w] = Nil /\ \A v \in Writers \ {w} : item'[v] = item[v]
      /\ UNCHANGED <<made, acks, inUse, reader, packet, left>>
      /\ Nil \notin Packets
  BY <1>1, <1>3 DEF PutItBack, RelayType, TypeOK, packetVars, readerVars
<1>6. /\ Queued(m)' = Queued(m) \cup {to} /\ to \notin Queued(m)
      /\ \A n \in Packets \ {m} : Queued(n)' = Queued(n)
  BY <1>4, <1>5, QueuedAfterPut
<1>7. /\ InHands(m)' = InHands(m) \ {hand} /\ hand \in InHands(m)
      /\ \A n \in Packets \ {m} : InHands(n)' = InHands(n)
  BY <1>3, <1>4, <1>5, HandsAfter
<1>8. \A n : Unvisited(n)' = Unvisited(n)
  BY <1>5 DEF Unvisited
<1>9. hand \notin Unvisited(m) \cup Queued(m) /\ to \notin Unvisited(m) \cup InHands(m) /\ hand # to
  BY <1>4, KindsDiffer
<1>10. Counted'
  <2>1. \A n : Places(n)' = Unvisited(n)' \cup Queued(n)' \cup InHands(n)'
    BY DEF Places
  <2>2. /\ Places(m)' = (Places(m) \ {hand}) \cup {to}
        /\ hand \in Places(m) /\ to \notin Places(m)
    BY <1>6, <1>7, <1>8, <1>9, <2>1 DEF Places
  <2>3. \A n \in Packets \ {m} : Places(n)' = Places(n)
    BY <1>6, <1>7, <1>8, <2>1 DEF Places
  <2>4. Counted /\ UNCHANGED <<made, acks, inUse>>
    BY <1>5 DEF SharesInv
  <2>5. QED
    BY <2>2, <2>3, <2>4, ShareMoves
<1>11. QED
  BY <1>5, <1>10 DEF SharesInv, Empty

(* ReleaseOnece: one place less, and AckTimes less one.                    *)
LEMMA ReleaseCounts ==
  ASSUME RelayType, SharesInv, NEW w \in Writers, ReleaseOnece(w)
  PROVE  SharesInv'
<1> USE RelayAssumption DEF RelayAssumption
<1>1. item[w] \in Packets
  BY DEF ReleaseOnece, RelayType, Busy
<1>2. PICK m \in Packets : m = item[w]
  BY <1>1
<1>3. PICK hand : hand = <<"writer", w, 1>>
  OBVIOUS
<1>4. /\ acks'[m] = acks[m] - 1 /\ \A n \in Packets \ {m} : acks'[n] = acks[n]
      /\ inUse' = IF acks[m] = 1 THEN inUse \ {m} ELSE inUse
      /\ item'[w] = Nil /\ \A v \in Writers \ {w} : item'[v] = item[v]
      /\ UNCHANGED <<made, reader, packet, left, queue>>
      /\ Nil \notin Packets
  BY <1>2 DEF ReleaseOnece, RelayType, TypeOK, readerVars
<1>5. /\ InHands(m)' = InHands(m) \ {hand} /\ hand \in InHands(m)
      /\ \A n \in Packets \ {m} : InHands(n)' = InHands(n)
  BY <1>2, <1>3, <1>4, HandsAfter
<1>6. \A n : Unvisited(n)' = Unvisited(n) /\ Queued(n)' = Queued(n)
  BY <1>4 DEF Unvisited, Queued
<1>7. hand \notin Unvisited(m) \cup Queued(m)
  BY <1>3, KindsDiffer
<1>8. \A n : Places(n)' = Unvisited(n)' \cup Queued(n)' \cup InHands(n)'
  BY DEF Places
<1>9. Places(m)' = Places(m) \ {hand} /\ hand \in Places(m)
  BY <1>5, <1>6, <1>7, <1>8 DEF Places
<1>10. \A n \in Packets \ {m} : Places(n)' = Places(n)
  BY <1>5, <1>6, <1>8 DEF Places
<1>11. IsFiniteSet(Places(m)) /\ acks[m] = Cardinality(Places(m)) /\ Cardinality(Places(m)) \in Nat
  BY FS_CardinalityType DEF SharesInv, Counted
<1>12. IsFiniteSet(Places(m)') /\ Cardinality(Places(m)') = acks'[m]
  BY <1>4, <1>9, <1>11, FS_RemoveElement
<1>13. acks[m] = 1 <=> Places(m)' = {}
  BY <1>4, <1>11, <1>12, FS_EmptySet
<1>14. m \in inUse' <=> Places(m)' # {}
  BY <1>4, <1>9, <1>13 DEF SharesInv, Counted
<1>15. \A n \in Packets \ {m} : n \in inUse' <=> Places(n)' # {}
  BY <1>4, <1>10 DEF SharesInv, Counted
<1>16. Counted'
  <2>1. ASSUME NEW n \in Packets
        PROVE  IsFiniteSet(Places(n)') /\ acks'[n] = Cardinality(Places(n)')
    <3>1. CASE n = m
      BY <1>12, <3>1
    <3>2. CASE n # m
      <4>1. IsFiniteSet(Places(n)) /\ acks[n] = Cardinality(Places(n))
        BY DEF SharesInv, Counted
      <4>2. Places(n)' = Places(n) /\ acks'[n] = acks[n]
        BY <1>4, <1>10, <3>2
      <4>3. QED
        BY <4>1, <4>2
    <3>3. QED
      BY <3>1, <3>2
  <2>2. \A n \in Packets : n > made' => Places(n)' = {}
    BY <1>4, <1>9, <1>10 DEF SharesInv, Counted
  <2>3. QED
    BY <1>14, <1>15, <2>1, <2>2 DEF Counted
<1>17. QED
  BY <1>4, <1>16 DEF SharesInv, Empty

(* ParsePacket: a new packet has a place for each server that is to get it.*)
LEMMA ParseCounts ==
  ASSUME RelayType, SharesInv, NEW r \in Readers, ParsePacket(r)
  PROVE  SharesInv'
<1> USE RelayAssumption DEF RelayAssumption
<1>1. PICK k : k = Len(ToBroadCast[r])
  OBVIOUS
<1>2. ASSUME NEW q \in Seq(Servers), q # <<>> PROVE Len(q) \in Nat \ {0} /\ DOMAIN q = 1 .. Len(q)
  BY <1>2
<1>3. k \in Nat \ {0} /\ DOMAIN ToBroadCast[r] = 1 .. k
  BY <1>1, <1>2
<1>4. PICK m : m = made + 1
  OBVIOUS
<1>5. m \in Packets /\ m # Nil /\ made \in Nat /\ m > made
  BY <1>4 DEF ParsePacket, RelayType, TypeOK, Packets
<1>6. /\ packet[r] = Nil /\ packet'[r] = m /\ left'[r] = ToBroadCast[r] /\ reader'[r] = "cast"
      /\ \A t \in Readers \ {r} : /\ packet'[t] = packet[t] /\ left'[t] = left[t]
                                  /\ reader'[t] = reader[t]
      /\ acks'[m] = k /\ \A n \in Packets \ {m} : acks'[n] = acks[n]
      /\ inUse' = inUse \cup {m} /\ made' = m
      /\ UNCHANGED <<queue, item>>
  BY <1>1, <1>4, <1>5 DEF ParsePacket, RelayType, TypeOK, SetReader, Shares, writerVars, SharesInv, Empty
<1>7. \A n : Queued(n)' = Queued(n) /\ InHands(n)' = InHands(n)
  BY <1>6 DEF Queued, InHands
<1>8. ASSUME NEW n \in Packets \ {m} PROVE Unvisited(n)' = Unvisited(n)
  <2>1. ASSUME NEW p, p \in Unvisited(n)' PROVE p \in Unvisited(n)
    <3>1. PICK t \in Readers : packet'[t] = n /\ \E i \in DOMAIN left'[t] : p = <<"left", t, i>>
      BY <2>1, InUnvisited
    <3>2. t # r /\ packet[t] = n /\ left'[t] = left[t]
      BY <1>6, <3>1
    <3>3. QED
      BY <3>1, <3>2, InUnvisited
  <2>2. ASSUME NEW p, p \in Unvisited(n) PROVE p \in Unvisited(n)'
    <3>1. PICK t \in Readers : packet[t] = n /\ \E i \in DOMAIN left[t] : p = <<"left", t, i>>
      BY <2>2, InUnvisited
    <3>2. t # r /\ packet'[t] = n /\ left'[t] = left[t]
      BY <1>6, <3>1
    <3>3. QED
      BY <3>1, <3>2, InUnvisited
  <2>3. QED
    BY <2>1, <2>2
<1>9. Places(m) = {}
  BY <1>5 DEF SharesInv, Counted
<1>10. Places(m)' = {<<"left", r, i>> : i \in 1 .. k}
  <2>1. Unvisited(m) = {} /\ Queued(m) = {} /\ InHands(m) = {}
    BY <1>9 DEF Places
  <2>2. ASSUME NEW p, p \in Unvisited(m)' PROVE p \in {<<"left", r, i>> : i \in 1 .. k}
    <3>1. PICK t \in Readers : packet'[t] = m /\ \E i \in DOMAIN left'[t] : p = <<"left", t, i>>
      BY <2>2, InUnvisited
    <3>2. t = r
      <4> SUFFICES ASSUME t # r PROVE FALSE
        OBVIOUS
      <4>1. packet[t] = m /\ left'[t] = left[t]
        BY <1>6, <3>1
      <4>2. p \in Unvisited(m)
        BY <3>1, <4>1, InUnvisited
      <4>3. QED
        BY <2>1, <4>2
    <3>3. QED
      BY <1>3, <1>6, <3>1, <3>2
  <2>3. ASSUME NEW i \in 1 .. k PROVE <<"left", r, i>> \in Unvisited(m)'
    BY <1>3, <1>6, InUnvisited
  <2>4. Unvisited(m)' = {<<"left", r, i>> : i \in 1 .. k}
    BY <2>2, <2>3
  <2>5. QED
    BY <1>7, <2>1, <2>4 DEF Places
<1>11. IsFiniteSet(Places(m)') /\ Cardinality(Places(m)') = k
  <2>1. PICK P : P = {<<"left", r, i>> : i \in 1 .. k}
    OBVIOUS
  <2> DEFINE f == [i \in 1 .. k |-> <<"left", r, i>>]
             g == [p \in P |-> p[3]]
  <2>2. f \in [1 .. k -> P]
    BY <2>1
  <2>3. g \in [P -> 1 .. k]
    BY <2>1
  <2>4. \A i \in 1 .. k : g[f[i]] = i
    BY <2>1
  <2>5. \A p \in P : f[g[p]] = p
    BY <2>1
  <2> HIDE DEF f, g
  <2>6. ExistsBijection(1 .. k, P)
    <3>1. PICK J : J = 1 .. k
      OBVIOUS
    <3>2. /\ f \in [J -> P] /\ g \in [P -> J]
          /\ \A i \in J : g[f[i]] = i
          /\ \A p \in P : f[g[p]] = p
      BY <2>2, <2>3, <2>4, <2>5, <3>1
    <3>3. ExistsBijection(J, P)
      BY <3>2, Paired
    <3>4. QED
      BY <3>1, <3>3
  <2>7. IsFiniteSet(P) /\ Cardinality(P) = k
    BY <1>3, <2>6, FS_NatBijection, FS_CountingElements
  <2>8. QED
    BY <1>10, <2>1, <2>7
<1>12. Places(m)' # {}
  <2>1. 1 \in 1 .. k
    BY <1>3
  <2>2. <<"left", r, 1>> \in Places(m)'
    BY <1>10, <2>1
  <2>3. QED
    BY <2>2
<1>13. \A n \in Packets \ {m} : Places(n)' = Places(n)
  BY <1>7, <1>8 DEF Places
<1>14. Counted'
  <2>1. \A n \in Packets : n > m => n > made
    BY <1>5 DEF Packets
  <2>2. ~ (m > m)
    BY <1>5 DEF Packets
  <2> SUFFICES ASSUME NEW n \in Packets
               PROVE  /\ IsFiniteSet(Places(n)') /\ acks'[n] = Cardinality(Places(n)')
                      /\ n \in inUse' <=> Places(n)' # {}
                      /\ n > made' => Places(n)' = {}
    BY DEF Counted
  <2>3. CASE n = m
    BY <1>6, <1>11, <1>12, <2>2, <2>3
  <2>4. CASE n # m
    <3>1. Places(n)' = Places(n) /\ acks'[n] = acks[n] /\ (n \in inUse' <=> n \in inUse)
      BY <1>6, <1>13, <2>4
    <3>2. n > made' => n > made
      BY <1>6, <2>1
    <3>3. /\ IsFiniteSet(Places(n)) /\ acks[n] = Cardinality(Places(n))
          /\ n \in inUse <=> Places(n) # {}
          /\ n > made => Places(n) = {}
      BY DEF SharesInv, Counted
    <3>4. QED
      BY <3>1, <3>2, <3>3
  <2>5. QED
    BY <2>3, <2>4
<1>15. Empty'
  <2> SUFFICES ASSUME NEW t \in Readers, packet'[t] # Nil PROVE reader'[t] = "cast"
    BY DEF Empty
  <2>1. packet[t] # Nil => reader[t] = "cast"
    BY DEF SharesInv, Empty
  <2>2. QED
    BY <1>6, <2>1
<1>16. QED
  BY <1>14, <1>15 DEF SharesInv

(* The steps that move no packet.                                          *)
LEMMA OtherStepsCount ==
  ASSUME RelayType, SharesInv, UNCHANGED <<made, acks, inUse, packet, left, queue, item>>,
         \A r \in Readers : reader[r] = "cast" => reader'[r] = "cast"
  PROVE  SharesInv'
BY NothingMoves DEF SharesInv, Empty

LEMMA ReaderCounts ==
  ASSUME RelayType, SharesInv, NEW r \in Readers, ReaderStep(r)
  PROVE  SharesInv'
<1> USE DEF packetVars, readerVars, writerVars, SetReader, RelayType, TypeOK
<1>1. CASE Spawn(r)
  BY <1>1, OtherStepsCount DEF Spawn
<1>2. CASE ReadError(r)
  BY <1>2, OtherStepsCount DEF ReadError
<1>3. CASE Read(r)
  BY <1>3, OtherStepsCount DEF Read
<1>4. CASE ParsePacket(r)
  BY <1>4, ParseCounts
<1>5. CASE ParseNothing(r)
  BY <1>5, OtherStepsCount DEF ParseNothing
<1>6. CASE BeatAckFails(r)
  BY <1>6, OtherStepsCount DEF BeatAckFails
<1>7. CASE BroadCast(r)
  BY <1>7, BroadCastCounts
<1>8. QED
  BY <1>1, <1>2, <1>3, <1>4, <1>5, <1>6, <1>7 DEF ReaderStep

LEMMA WriterCounts ==
  ASSUME RelayType, SharesInv, Idle, NEW w \in Writers, WriterStep(w)
  PROVE  SharesInv'
<1> USE DEF packetVars, readerVars, writerVars
<1>1. CASE TestClosed(w) \/ FetchNothing(w)
  BY <1>1, OtherStepsCount DEF TestClosed, FetchNothing
<1>2. CASE Fetch(w)
  BY <1>2, FetchCounts
<1>3. CASE SkipOld(w) \/ WriteWorks(w) \/ WriteFails(w) \/ NobodyReached(w)
  BY <1>3, OtherStepsCount DEF SkipOld, WriteWorks, WriteFails, NobodyReached
<1>4. CASE ReleaseOnece(w)
  BY <1>4, ReleaseCounts
<1>5. CASE PutItBack(w)
  BY <1>5, PutItBackCounts
<1>6. QED
  BY <1>1, <1>2, <1>3, <1>4, <1>5 DEF WriterStep

(* Nothing is there at the start.                                          *)
LEMMA InitShares == Init => SharesInv
<1> SUFFICES ASSUME Init PROVE SharesInv
  OBVIOUS
<1> USE RelayAssumption DEF RelayAssumption
<1>1. ASSUME NEW m \in Packets PROVE Places(m) = {}
  <2>1. Unvisited(m) = {}
    BY DEF Init, Unvisited
  <2>2. Queued(m) = {}
    BY DEF Init, Queued
  <2>3. InHands(m) = {}
    BY DEF Init, InHands
  <2>4. QED
    BY <2>1, <2>2, <2>3 DEF Places
<1>2. IsFiniteSet({}) /\ Cardinality({}) = 0
  BY FS_EmptySet
<1>3. QED
  BY <1>1, <1>2 DEF Init, SharesInv, Counted, Empty

(* The acknowledgement count of every packet is the number of places that  *)
(* still hold it, and its memory is in use as long as there is one         *)
(* (GetEntity, BroadCastData, ReleaseOnece).                               *)
THEOREM SharesAreCounted == Spec => []SharesMatch
<1>1. Init => SharesInv
  BY InitShares
<1>2. RelayType /\ KeepInv /\ SharesInv /\ [Next]_vars => SharesInv'
  <2> SUFFICES ASSUME RelayType, KeepInv, SharesInv, [Next]_vars PROVE SharesInv'
    OBVIOUS
  <2>1. CASE \E m \in Packets : Expire(m)
    BY <2>1, OtherStepsCount DEF Expire, readerVars, writerVars
  <2>2. CASE UNCHANGED vars
    BY <2>2, OtherStepsCount DEF vars, packetVars, readerVars, writerVars
  <2>3. QED
    BY <2>1, <2>2, ReaderCounts, WriterCounts DEF Next, KeepInv
<1>3. SharesInv => SharesMatch
  BY DEF SharesInv, Counted, SharesMatch
<1>4. QED
  BY <1>1, <1>2, <1>3, RelayInvariant, PTL DEF Spec

-----------------------------------------------------------------------------
(* The writer has the packet and may still write it.                       *)
Holds(w, m) == writer[w] \in {"write", "putback"} /\ item[w] = m

(* The packet has got to the server: it is queued, or a writer of the      *)
(* server holds it or wrote it.                                            *)
Reached(s, m) ==
  \/ m \in Range(queue[s])
  \/ \E w \in Writers : Serves[w] = s /\ (Holds(w, m) \/ m \in Range(wrote[w]))

Distinct(q) == \A i, j \in DOMAIN q : q[i] = q[j] => i = j

(* A packet is in one place of a server at most.                           *)
OnceThere ==
  /\ \A s \in Servers : Distinct(queue[s])
  /\ \A w \in Writers : Distinct(wrote[w])
  /\ \A w \in Writers, m \in Packets :
       m \in Range(queue[Serves[w]]) => ~Holds(w, m) /\ m \notin Range(wrote[w])
  /\ \A v, w \in Writers, m \in Packets :
       Serves[v] = Serves[w] /\ Holds(v, m) => (Holds(w, m) => v = w) /\ m \notin Range(wrote[w])
  /\ \A v, w \in Writers, m \in Packets :
       Serves[v] = Serves[w] /\ m \in Range(wrote[v]) /\ m \in Range(wrote[w]) => v = w

(* One reader hands a packet over, and to no server twice; a packet that   *)
(* was not made is nowhere.                                                *)
OnceHanded ==
  /\ \A r \in Readers : reader[r] = "cast" =>
       /\ packet[r] <= made
       /\ Distinct(left[r])
       /\ \A s \in Range(left[r]) : ~Reached(s, packet[r])
  /\ \A r, t \in Readers :
       reader[r] = "cast" /\ reader[t] = "cast" /\ packet[r] = packet[t] => r = t
  /\ \A s \in Servers, m \in Packets : Reached(s, m) => m <= made

OnceInv == OnceThere /\ OnceHanded

(* s was handed x before y, or y was put back.                             *)
Follows(s, x, y) ==
  \/ y \in putBack
  \/ \E k, l \in DOMAIN sent[s] : k < l /\ sent[s][k] = x /\ sent[s][l] = y

(* The packets of a server come in this order: those that one of its       *)
(* writers wrote, the one it holds, the queue.                             *)
HandedOver ==
  \A s \in Servers, m \in Packets : Reached(s, m) => m \in Range(sent[s])

WrittenInOrder ==
  \A w \in Writers : \A i, j \in DOMAIN wrote[w] :
    i < j => Follows(Serves[w], wrote[w][i], wrote[w][j])

HeldAfterWritten ==
  \A w \in Writers, y \in Packets : Holds(w, y) =>
    \A x \in Range(wrote[w]) : Follows(Serves[w], x, y)

QueuedAfterTaken ==
  \A w \in Writers, x \in Packets : x \in Range(wrote[w]) \/ Holds(w, x) =>
    \A y \in Range(queue[Serves[w]]) : Follows(Serves[w], x, y)

QueuedInOrder ==
  \A s \in Servers : \A i, j \in DOMAIN queue[s] :
    i < j => Follows(s, queue[s][i], queue[s][j])

OrderInv ==
  HandedOver /\ WrittenInOrder /\ HeldAfterWritten /\ QueuedAfterTaken /\ QueuedInOrder

-----------------------------------------------------------------------------
(* The places of a sequence after an element went in at its end, and after *)
(* its first came out.                                                     *)
LEMMA AppendAt ==
  ASSUME NEW S, NEW q \in Seq(S), NEW e \in S
  PROVE  /\ Len(q) \in Nat /\ DOMAIN q = 1 .. Len(q)
         /\ DOMAIN Append(q, e) = 1 .. Len(q) + 1
         /\ \A i \in 1 .. Len(q) : Append(q, e)[i] = q[i]
         /\ Append(q, e)[Len(q) + 1] = e
OBVIOUS

LEMMA TailAt ==
  ASSUME NEW S, NEW q \in Seq(S), q # <<>>
  PROVE  /\ Len(q) \in Nat \ {0} /\ DOMAIN q = 1 .. Len(q)
         /\ DOMAIN Tail(q) = 1 .. Len(q) - 1
         /\ \A i \in 1 .. Len(q) - 1 : Tail(q)[i] = q[i + 1]
         /\ Head(q) = q[1]
OBVIOUS

LEMMA DistinctAppend ==
  ASSUME NEW S, NEW q \in Seq(S), NEW e \in S, Distinct(q), e \notin Range(q)
  PROVE  Distinct(Append(q, e))
<1> SUFFICES ASSUME NEW i \in DOMAIN Append(q, e), NEW j \in DOMAIN Append(q, e),
                    Append(q, e)[i] = Append(q, e)[j]
             PROVE  i = j
  BY DEF Distinct
<1>1. \A k \in DOMAIN q : q[k] # e
  BY DEF Range
<1>2. /\ i \in DOMAIN q \/ i = Len(q) + 1
      /\ j \in DOMAIN q \/ j = Len(q) + 1
  BY AppendAt
<1>3. CASE i \in DOMAIN q /\ j \in DOMAIN q
  BY <1>3, AppendAt DEF Distinct
<1>4. CASE i = Len(q) + 1 \/ j = Len(q) + 1
  BY <1>1, <1>2, <1>4, AppendAt
<1>5. QED
  BY <1>2, <1>3, <1>4

LEMMA DistinctTail ==
  ASSUME NEW S, NEW q \in Seq(S), q # <<>>, Distinct(q)
  PROVE  Distinct(Tail(q)) /\ Head(q) \notin Range(Tail(q))
<1>1. ASSUME NEW i \in DOMAIN Tail(q), NEW j \in DOMAIN Tail(q), Tail(q)[i] = Tail(q)[j]
      PROVE  i = j
  <2>1. /\ i \in Nat /\ j \in Nat /\ i + 1 \in DOMAIN q /\ j + 1 \in DOMAIN q
        /\ q[i + 1] = q[j + 1]
    BY <1>1, TailAt
  <2>2. i + 1 = j + 1
    BY <2>1 DEF Distinct
  <2>3. QED
    BY <2>1, <2>2
<1>2. ASSUME NEW i \in DOMAIN Tail(q) PROVE Tail(q)[i] # Head(q)
  <2>1. i \in Nat \ {0} /\ i + 1 \in DOMAIN q /\ 1 \in DOMAIN q /\ Tail(q)[i] = q[i + 1] /\ Head(q) = q[1]
    BY TailAt
  <2>2. i + 1 # 1
    BY <2>1
  <2>3. QED
    BY <2>1, <2>2 DEF Distinct
<1>3. QED
  BY <1>1, <1>2 DEF Distinct, Range

-----------------------------------------------------------------------------
(* No more packets have reached a server.                                  *)
NoneMore == \A s \in Servers, m \in Packets : Reached(s, m)' => Reached(s, m)

(* Steps after which this is so.                                           *)
LEMMA HandedStays ==
  ASSUME OnceHanded, UNCHANGED <<made, packet, left>>,
         \A r \in Readers : reader'[r] = "cast" => reader[r] = "cast",
         \A s \in Servers, m \in Packets : Reached(s, m)' => Reached(s, m),
         \A r \in Readers : reader[r] = "cast" =>
           packet[r] \in Packets /\ Range(left[r]) \subseteq Servers
  PROVE  OnceHanded'
BY DEF OnceHanded

(* What a reader is at work on.                                            *)
LEMMA CastTypes ==
  ASSUME RelayType
  PROVE  \A r \in Readers : reader[r] = "cast" =>
           /\ packet[r] \in Packets /\ left[r] \in Seq(Servers) /\ left[r] # <<>>
           /\ Range(left[r]) \subseteq Servers
<1>1. \A q \in Seq(Servers) : Range(q) \subseteq Servers
  BY DEF Range
<1>2. QED
  BY <1>1 DEF RelayType, TypeOK, Busy

(* Steps that queue nothing, write nothing and hand nothing over.          *)
LEMMA OnceQuiet ==
  ASSUME RelayType, OnceInv, UNCHANGED <<made, packet, left, queue, wrote>>,
         \A r \in Readers : reader'[r] = "cast" => reader[r] = "cast",
         \A w \in Writers, m \in Packets : Holds(w, m)' => Holds(w, m)
  PROVE  OnceInv'
<1>1. \A s \in Servers, m \in Packets : Reached(s, m)' => Reached(s, m)
  BY DEF Reached
<1>2. OnceHanded'
  BY <1>1, CastTypes, HandedStays DEF OnceInv
<1>3. OnceThere'
  BY DEF OnceInv, OnceThere, Distinct
<1>4. QED
  BY <1>2, <1>3 DEF OnceInv

(* ParsePacket: the packet is new.                                         *)
LEMMA ParseOnce ==
  ASSUME RelayType, OnceInv, NEW r \in Readers, ParsePacket(r)
  PROVE  OnceInv'
<1>1. PICK n : n = made + 1
  OBVIOUS
<1>2. n \in Packets /\ made \in Nat
  BY <1>1, RelayAssumption DEF ParsePacket, RelayType, TypeOK, Packets, RelayAssumption
<1>3. /\ packet'[r] = n /\ left'[r] = ToBroadCast[r] /\ reader'[r] = "cast" /\ made' = n
      /\ \A t \in Readers \ {r} : /\ packet'[t] = packet[t] /\ left'[t] = left[t]
                                  /\ reader'[t] = reader[t]
      /\ UNCHANGED <<queue, writer, item, wrote>>
  BY <1>1 DEF ParsePacket, RelayType, TypeOK, SetReader, writerVars, history
<1>4. /\ \A w \in Writers, m \in Packets : Holds(w, m)' <=> Holds(w, m)
      /\ \A s \in Servers, m \in Packets : Reached(s, m)' <=> Reached(s, m)
  BY <1>3 DEF Holds, Reached
<1>5. OnceThere'
  BY <1>3, <1>4 DEF OnceInv, OnceThere, Distinct
<1>6. /\ \A m \in Packets : m <= made => m <= n /\ m # n
      /\ ~ (n <= made) /\ n <= n
  BY <1>1, <1>2 DEF Packets
<1>7. Range(ToBroadCast[r]) \subseteq Servers /\ Distinct(ToBroadCast[r])
  BY RelayAssumption, BroadCastAssumption DEF RelayAssumption, BroadCastAssumption, Range, Distinct
<1>8. ASSUME NEW t \in Readers, reader'[t] = "cast"
      PROVE  /\ packet'[t] <= made'
             /\ Distinct(left'[t])
             /\ \A s \in Range(left'[t]) : ~Reached(s, packet[t])'
  <2>1. CASE t = r
    <3>1. \A s \in Servers : ~Reached(s, n)
      BY <1>2, <1>6 DEF OnceInv, OnceHanded
    <3>2. \A s \in Servers : ~Reached(s, packet[t])'
      BY <1>3, <3>1, <2>1 DEF Reached, Holds
    <3>3. QED
      BY <1>3, <1>6, <1>7, <2>1, <3>2
  <2>2. CASE t # r
    <3>1. /\ reader[t] = "cast" /\ packet'[t] = packet[t] /\ left'[t] = left[t]
          /\ packet[t] \in Packets /\ Range(left[t]) \subseteq Servers
      BY <1>3, <1>8, <2>2, CastTypes
    <3>2. /\ packet[t] <= made /\ Distinct(left[t])
          /\ \A s \in Range(left[t]) : ~Reached(s, packet[t])
      BY <3>1 DEF OnceInv, OnceHanded
    <3>3. \A s \in Range(left[t]) : ~Reached(s, packet[t])'
      BY <1>3, <3>1, <3>2 DEF Reached, Holds
    <3>4. QED
      BY <1>3, <1>6, <3>1, <3>2, <3>3
  <2>3. QED
    BY <2>1, <2>2
<1>9. ASSUME NEW t \in Readers, NEW u \in Readers, reader'[t] = "cast", reader'[u] = "cast",
             packet'[t] = packet'[u]
      PROVE  t = u
  <2>1. \A v \in Readers \ {r} : reader'[v] = "cast" => packet'[v] # n
    BY <1>3, <1>6, CastTypes DEF OnceInv, OnceHanded
  <2>2. QED
    BY <1>3, <1>9, <2>1 DEF OnceInv, OnceHanded
<1>10. \A s \in Servers, m \in Packets : Reached(s, m)' => m <= made'
  BY <1>3, <1>4, <1>6 DEF OnceInv, OnceHanded
<1>11. OnceHanded'
  BY <1>8, <1>9, <1>10 DEF OnceHanded
<1>12. QED
  BY <1>5, <1>11 DEF OnceInv

(* BroadCast: a packet gets to a server where it was not.                  *)
LEMMA BroadCastOnce ==
  ASSUME RelayType, OnceInv, NEW r \in Readers, BroadCast(r)
  PROVE  OnceInv'
<1>1. /\ reader[r] = "cast" /\ packet[r] \in Packets /\ left[r] \in Seq(Servers) /\ left[r] # <<>>
  BY CastTypes DEF BroadCast
<1>2. /\ Head(left[r]) \in Servers /\ Head(left[r]) \in Range(left[r])
      /\ Range(Tail(left[r])) \subseteq Range(left[r])
  BY <1>1, RangeTail
<1>3. PICK s \in Servers : s = Head(left[r])
  BY <1>2
<1>4. PICK m \in Packets : m = packet[r]
  BY <1>1
<1>5. Distinct(Tail(left[r])) /\ s \notin Range(Tail(left[r])) /\ ~Reached(s, m) /\ m <= made
  BY <1>1, <1>2, <1>3, <1>4, DistinctTail DEF OnceInv, OnceHanded
<1>6. /\ queue \in [Servers -> Seq(Packets)] /\ queue[s] \in Seq(Packets)
      /\ queue'[s] = Append(queue[s], m) /\ \A t \in Servers \ {s} : queue'[t] = queue[t]
      /\ left'[r] = Tail(left[r]) /\ \A t \in Readers \ {r} : left'[t] = left[t]
      /\ \A t \in Readers : reader'[t] = "cast" => reader[t] = "cast" /\ packet'[t] = packet[t]
      /\ UNCHANGED <<made, writer, item, wrote>>
  <2>1. /\ queue' = [queue EXCEPT ![s] = Append(queue[s], m)]
        /\ left' = [left EXCEPT ![r] = Tail(left[r])]
        /\ UNCHANGED <<made, writer, item, wrote>>
        /\ \/ UNCHANGED <<reader, packet>>
           \/ /\ packet' = [packet EXCEPT ![r] = Nil]
              /\ \E a \in {"read", "parse"} : reader' = [reader EXCEPT ![r] = a]
    BY <1>3, <1>4 DEF BroadCast, Put, SetReader, AfterCast, packetVars, writerVars
  <2>2. /\ queue \in [Servers -> Seq(Packets)] /\ left \in [Readers -> Seq(Servers)]
        /\ packet \in [Readers -> Packets \cup {Nil}]
        /\ reader \in [Readers -> {"off", "read", "parse", "cast", "end"}]
    BY DEF RelayType, TypeOK
  <2>3. \A t \in Readers : reader'[t] = "cast" => reader[t] = "cast" /\ packet'[t] = packet[t]
    BY <2>1, <2>2
  <2>4. QED
    BY <2>1, <2>2, <2>3
<1>7. Range(queue'[s]) = Range(queue[s]) \cup {m}
  BY <1>6, RangeAppend
<1>8. /\ \A w \in Writers, n \in Packets : Holds(w, n)' <=> Holds(w, n)
      /\ \A t \in Servers, n \in Packets : Reached(t, n)' => Reached(t, n) \/ (t = s /\ n = m)
  BY <1>6, <1>7 DEF Holds, Reached
<1>9. /\ m \notin Range(queue[s])
      /\ \A w \in Writers : Serves[w] = s => ~Holds(w, m) /\ m \notin Range(wrote[w])
  BY <1>5 DEF Reached
<1>10. OnceThere'
  <2>1. ASSUME NEW t \in Servers PROVE Distinct(queue'[t])
    <3>1. Distinct(queue[t])
      BY DEF OnceInv, OnceThere
    <3>2. Distinct(queue[s]) => Distinct(Append(queue[s], m))
      BY <1>6, <1>9, DistinctAppend
    <3>3. QED
      BY <1>6, <3>1, <3>2
  <2>2. ASSUME NEW w \in Writers, NEW n \in Packets, n \in Range(queue'[Serves[w]])
        PROVE  ~Holds(w, n)' /\ n \notin Range(wrote'[w])
    <3>1. Serves[w] \in Servers
      BY RelayAssumption DEF RelayAssumption
    <3>2. CASE n \in Range(queue[Serves[w]])
      BY <1>6, <1>8, <3>2 DEF OnceInv, OnceThere
    <3>3. CASE n \notin Range(queue[Serves[w]])
      <4>1. Serves[w] = s
        BY <1>6, <2>2, <3>1, <3>3
      <4>2. n = m
        BY <1>7, <2>2, <3>3, <4>1
      <4>3. ~Holds(w, m) /\ m \notin Range(wrote[w])
        BY <1>9, <4>1
      <4>4. QED
        BY <1>6, <1>8, <4>2, <4>3
    <3>4. QED
      BY <3>2, <3>3
  <2>3. QED
    BY <1>6, <1>8, <2>1, <2>2 DEF OnceInv, OnceThere, Distinct
<1>11. OnceHanded'
  <2>1. ASSUME NEW t \in Readers, reader'[t] = "cast"
        PROVE  /\ packet'[t] <= made'
               /\ Distinct(left'[t])
               /\ \A u \in Range(left'[t]) : ~Reached(u, packet[t])'
    <3>1. /\ reader[t] = "cast" /\ packet'[t] = packet[t] /\ packet[t] \in Packets
          /\ Range(left[t]) \subseteq Servers
      BY <1>6, <2>1, CastTypes
    <3>2. CASE t = r
      BY <1>1, <1>2, <1>4, <1>5, <1>6, <1>8, <3>1, <3>2 DEF OnceInv, OnceHanded
    <3>3. CASE t # r
      <4>1. packet[t] # m /\ left'[t] = left[t]
        BY <1>1, <1>4, <1>6, <3>1, <3>3 DEF OnceInv, OnceHanded
      <4>2. QED
        BY <1>6, <1>8, <3>1, <4>1 DEF OnceInv, OnceHanded
    <3>4. QED
      BY <3>2, <3>3
  <2>2. \A t, u \in Readers :
          reader'[t] = "cast" /\ reader'[u] = "cast" /\ packet'[t] = packet'[u] => t = u
    BY <1>6 DEF OnceInv, OnceHanded
  <2>3. \A t \in Servers, n \in Packets : Reached(t, n)' => n <= made'
    BY <1>5, <1>6, <1>8 DEF OnceInv, OnceHanded
  <2>4. QED
    BY <2>1, <2>2, <2>3 DEF OnceHanded
<1>12. QED
  BY <1>10, <1>11 DEF OnceInv

(* A writer takes the first of the queue.                                  *)
LEMMA FetchOnce ==
  ASSUME RelayType, OnceInv, NEW w \in Writers, Fetch(w)
  PROVE  OnceInv' /\ NoneMore
<1>1. PICK s \in Servers : s = Serves[w]
  BY RelayAssumption DEF RelayAssumption
<1>2. queue[s] \in Seq(Packets) /\ queue[s] # <<>>
  BY <1>1 DEF Fetch, RelayType, TypeOK
<1>3. PICK m \in Packets : m = Head(queue[s])
  BY <1>2, RangeTail
<1>4. /\ Range(queue[s]) = {m} \cup Range(Tail(queue[s]))
      /\ Distinct(Tail(queue[s])) /\ m \notin Range(Tail(queue[s]))
  BY <1>2, <1>3, RangeTail, DistinctTail DEF OnceInv, OnceThere
<1>5. /\ queue'[s] = Tail(queue[s]) /\ \A t \in Servers \ {s} : queue'[t] = queue[t]
      /\ item'[w] = m /\ writer'[w] = "write" /\ writer[w] = "get"
      /\ \A v \in Writers \ {w} : item'[v] = item[v] /\ writer'[v] = writer[v]
      /\ UNCHANGED <<made, reader, packet, left, wrote>>
  BY <1>1, <1>3 DEF Fetch, RelayType, TypeOK, SetWriter, packetVars, readerVars, history
<1>6. /\ \A n : Holds(w, n)' <=> n = m
      /\ \A n : ~Holds(w, n)
      /\ \A v \in Writers \ {w} : \A n : Holds(v, n)' <=> Holds(v, n)
  BY <1>5 DEF Holds
<1>7. \A t \in Servers : Range(queue'[t]) \subseteq Range(queue[t])
  BY <1>4, <1>5
<1>8. \A t \in Servers, n \in Packets : Reached(t, n)' => Reached(t, n)
  <2> SUFFICES ASSUME NEW t \in Servers, NEW n \in Packets, Reached(t, n)' PROVE Reached(t, n)
    OBVIOUS
  <2>1. CASE n \in Range(queue'[t])
    BY <1>7, <2>1 DEF Reached
  <2>2. CASE \E v \in Writers : Serves[v] = t /\ (Holds(v, n)' \/ n \in Range(wrote'[v]))
    <3>1. PICK v \in Writers : Serves[v] = t /\ (Holds(v, n)' \/ n \in Range(wrote'[v]))
      BY <2>2
    <3>2. CASE v = w
      BY <1>1, <1>4, <1>5, <1>6, <3>1, <3>2 DEF Reached
    <3>3. CASE v # w
      BY <1>5, <1>6, <3>1, <3>3 DEF Reached
    <3>4. QED
      BY <3>2, <3>3
  <2>3. QED
    BY <2>1, <2>2 DEF Reached
<1>9. OnceHanded'
  BY <1>5, <1>8, CastTypes, HandedStays DEF OnceInv
<1>10. /\ \A v \in Writers, n \in Packets : Serves[v] = s /\ n \in Range(queue[s]) =>
             ~Holds(v, n) /\ n \notin Range(wrote[v])
  BY DEF OnceInv, OnceThere
<1>11. OnceThere'
  <2>1. ASSUME NEW t \in Servers PROVE Distinct(queue'[t])
    <3>1. Distinct(queue[t])
      BY DEF OnceInv, OnceThere
    <3>2. QED
      BY <1>4, <1>5, <3>1
  <2>2. \A v \in Writers : Distinct(wrote'[v])
    BY <1>5 DEF OnceInv, OnceThere
  <2>3. ASSUME NEW v \in Writers, NEW n \in Packets, n \in Range(queue'[Serves[v]])
        PROVE  ~Holds(v, n)' /\ n \notin Range(wrote'[v])
    <3>1. n \in Range(queue[Serves[v]])
      BY <1>7, <2>3, RelayAssumption DEF RelayAssumption
    <3>2. ~Holds(v, n) /\ n \notin Range(wrote[v])
      BY <3>1 DEF OnceInv, OnceThere
    <3>3. v = w => n # m
      BY <1>1, <1>4, <1>5, <2>3
    <3>4. QED
      BY <1>5, <1>6, <3>2, <3>3
  <2>4. ASSUME NEW u \in Writers, NEW v \in Writers, NEW n \in Packets,
               Serves[u] = Serves[v], Holds(u, n)'
        PROVE  (Holds(v, n)' => u = v) /\ n \notin Range(wrote'[v])
    <3>1. CASE u = w
      BY <1>1, <1>4, <1>5, <1>6, <1>10, <2>4, <3>1
    <3>2. CASE u # w
      <4>1. Holds(u, n)
        BY <1>6, <2>4, <3>2
      <4>2. (Holds(v, n) => u = v) /\ n \notin Range(wrote[v])
        BY <2>4, <4>1 DEF OnceInv, OnceThere
      <4>3. CASE v = w
        <5>1. n # m
          BY <1>1, <1>4, <1>10, <2>4, <4>1, <4>3
        <5>2. QED
          BY <1>5, <1>6, <4>2, <4>3, <5>1
      <4>4. CASE v # w
        BY <1>5, <1>6, <4>2, <4>4
      <4>5. QED
        BY <4>3, <4>4
    <3>3. QED
      BY <3>1, <3>2
  <2>5. \A u, v \in Writers, n \in Packets :
          Serves[u] = Serves[v] /\ n \in Range(wrote'[u]) /\ n \in Range(wrote'[v]) => u = v
    BY <1>5 DEF OnceInv, OnceThere
  <2>6. QED
    BY <2>1, <2>2, <2>3, <2>4, <2>5 DEF OnceThere
<1>12. QED
  BY <1>8, <1>9, <1>11 DEF OnceInv, NoneMore

(* A writer writes what it holds.                                          *)
LEMMA WriteOnce ==
  ASSUME RelayType, OnceInv, NEW w \in Writers, WriteWorks(w)
  PROVE  OnceInv' /\ NoneMore
<1>1. PICK m \in Packets : m = item[w]
  BY DEF WriteWorks, RelayType, Busy
<1>2. /\ Holds(w, m) /\ wrote[w] \in Seq(Packets)
      /\ wrote'[w] = Append(wrote[w], m) /\ \A v \in Writers \ {w} : wrote'[v] = wrote[v]
      /\ writer'[w] = "release" /\ \A v \in Writers \ {w} : writer'[v] = writer[v]
      /\ UNCHANGED <<made, reader, packet, left, queue, item>>
  BY <1>1 DEF WriteWorks, Then, Holds, RelayType, TypeOK, SetWriter, packetVars, readerVars
<1>3. /\ \A n : ~Holds(w, n)'
      /\ \A v \in Writers \ {w} : \A n : Holds(v, n)' <=> Holds(v, n)
  BY <1>2 DEF Holds
<1>4. Range(wrote'[w]) = Range(wrote[w]) \cup {m}
  BY <1>2, RangeAppend
<1>5. /\ m \notin Range(queue[Serves[w]])
      /\ \A v \in Writers : Serves[v] = Serves[w] =>
           (Holds(v, m) => v = w) /\ m \notin Range(wrote[v])
  BY <1>2 DEF OnceInv, OnceThere
<1>6. \A t \in Servers, n \in Packets : Reached(t, n)' => Reached(t, n)
  BY <1>2, <1>3, <1>4 DEF Reached
<1>7. OnceHanded'
  BY <1>2, <1>6, CastTypes, HandedStays DEF OnceInv
<1>8. OnceThere'
  <2>1. \A t \in Servers : Distinct(queue'[t])
    BY <1>2 DEF OnceInv, OnceThere
  <2>2. ASSUME NEW v \in Writers PROVE Distinct(wrote'[v])
    <3>1. Distinct(wrote[v])
      BY DEF OnceInv, OnceThere
    <3>2. m \notin Range(wrote[w])
      BY <1>5
    <3>3. Distinct(wrote[w]) => Distinct(Append(wrote[w], m))
      BY <1>2, <3>2, DistinctAppend
    <3>4. QED
      BY <1>2, <3>1, <3>3
  <2>3. ASSUME NEW v \in Writers, NEW n \in Packets, n \in Range(queue'[Serves[v]])
        PROVE  ~Holds(v, n)' /\ n \notin Range(wrote'[v])
    <3>1. ~Holds(v, n) /\ n \notin Range(wrote[v])
      BY <1>2, <2>3 DEF OnceInv, OnceThere
    <3>2. QED
      BY <1>2, <1>3, <1>4, <1>5, <2>3, <3>1
  <2>4. ASSUME NEW u \in Writers, NEW v \in Writers, NEW n \in Packets,
               Serves[u] = Serves[v], Holds(u, n)'
        PROVE  (Holds(v, n)' => u = v) /\ n \notin Range(wrote'[v])
    <3>1. u # w /\ Holds(u, n)
      BY <1>3, <2>4
    <3>2. (Holds(v, n) => u = v) /\ n \notin Range(wrote[v])
      BY <2>4, <3>1 DEF OnceInv, OnceThere
    <3>3. v = w => n # m
      BY <1>5, <2>4, <3>1
    <3>4. CASE v = w
      BY <1>3, <1>4, <3>2, <3>3, <3>4
    <3>5. CASE v # w
      BY <1>2, <1>3, <3>2, <3>5
    <3>6. QED
      BY <3>4, <3>5
  <2>5. ASSUME NEW u \in Writers, NEW v \in Writers, NEW n \in Packets,
               Serves[u] = Serves[v], n \in Range(wrote'[u]), n \in Range(wrote'[v])
        PROVE  u = v
    <3>1. n \in Range(wrote[u]) /\ n \in Range(wrote[v]) => u = v
      BY <2>5 DEF OnceInv, OnceThere
    <3>2. QED
      BY <1>2, <1>4, <1>5, <2>5, <3>1
  <2>6. QED
    BY <2>1, <2>2, <2>3, <2>4, <2>5 DEF OnceThere
<1>9. QED
  BY <1>6, <1>7, <1>8 DEF OnceInv, NoneMore

(* A writer puts back what it holds.                                       *)
LEMMA PutBackOnce ==
  ASSUME RelayType, OnceInv, NEW w \in Writers, PutItBack(w)
  PROVE  OnceInv' /\ NoneMore
<1>1. PICK s \in Servers : s = Serves[w]
  BY RelayAssumption DEF RelayAssumption
<1>2. PICK m \in Packets : m = item[w]
  BY DEF PutItBack, RelayType, Busy
<1>3. /\ Holds(w, m) /\ queue[s] \in Seq(Packets)
      /\ queue'[s] = Append(queue[s], m) /\ \A t \in Servers \ {s} : queue'[t] = queue[t]
      /\ writer'[w] \in {"end", "get"}
      /\ \A v \in Writers \ {w} : item'[v] = item[v] /\ writer'[v] = writer[v]
      /\ UNCHANGED <<made, reader, packet, left, wrote>>
  BY <1>1, <1>2 DEF PutItBack, Put, Holds, RelayType, TypeOK, SetWriter, packetVars, readerVars
<1>4. /\ \A n : ~Holds(w, n)'
      /\ \A v \in Writers \ {w} : \A n : Holds(v, n)' <=> Holds(v, n)
  BY <1>3 DEF Holds
<1>5. Range(queue'[s]) = Range(queue[s]) \cup {m}
  BY <1>3, RangeAppend
<1>6. /\ m \notin Range(queue[s])
      /\ \A v \in Writers : Serves[v] = s => (Holds(v, m) => v = w) /\ m \notin Range(wrote[v])
  BY <1>1, <1>3 DEF OnceInv, OnceThere
<1>7. \A t \in Servers, n \in Packets : Reached(t, n)' => Reached(t, n)
  <2> SUFFICES ASSUME NEW t \in Servers, NEW n \in Packets, Reached(t, n)' PROVE Reached(t, n)
    OBVIOUS
  <2>1. CASE n \in Range(queue'[t])
    <3>1. n \in Range(queue[t]) \/ (t = s /\ n = m)
      BY <1>3, <1>5, <2>1
    <3>2. QED
      BY <1>1, <1>3, <3>1 DEF Reached
  <2>2. CASE \E v \in Writers : Serves[v] = t /\ (Holds(v, n)' \/ n \in Range(wrote'[v]))
    BY <1>3, <1>4, <2>2 DEF Reached
  <2>3. QED
    BY <2>1, <2>2 DEF Reached
<1>8. OnceHanded'
  BY <1>3, <1>7, CastTypes, HandedStays DEF OnceInv
<1>9. OnceThere'
  <2>1. ASSUME NEW t \in Servers PROVE Distinct(queue'[t])
    <3>1. Distinct(queue[t])
      BY DEF OnceInv, OnceThere
    <3>2. Distinct(queue[s]) => Distinct(Append(queue[s], m))
      BY <1>3, <1>6, DistinctAppend
    <3>3. QED
      BY <1>3, <3>1, <3>2
  <2>2. \A v \in Writers : Distinct(wrote'[v])
    BY <1>3 DEF OnceInv, OnceThere
  <2>3. ASSUME NEW v \in Writers, NEW n \in Packets, n \in Range(queue'[Serves[v]])
        PROVE  ~Holds(v, n)' /\ n \notin Range(wrote'[v])
    <3>1. Serves[v] \in Servers
      BY RelayAssumption DEF RelayAssumption
    <3>2. CASE n \in Range(queue[Serves[v]])
      <4>1. ~Holds(v, n) /\ n \notin Range(wrote[v])
        BY <3>2 DEF OnceInv, OnceThere
      <4>2. QED
        BY <1>3, <1>4, <4>1
    <3>3. CASE n \notin Range(queue[Serves[v]])
      <4>1. Serves[v] = s /\ n = m
        BY <1>3, <1>5, <2>3, <3>1, <3>3
      <4>2. QED
        BY <1>3, <1>4, <1>6, <4>1
    <3>4. QED
      BY <3>2, <3>3
  <2>4. ASSUME NEW u \in Writers, NEW v \in Writers, NEW n \in Packets,
               Serves[u] = Serves[v], Holds(u, n)'
        PROVE  (Holds(v, n)' => u = v) /\ n \notin Range(wrote'[v])
    <3>1. u # w /\ Holds(u, n)
      BY <1>4, <2>4
    <3>2. (Holds(v, n) => u = v) /\ n \notin Range(wrote[v])
      BY <2>4, <3>1 DEF OnceInv, OnceThere
    <3>3. QED
      BY <1>3, <1>4, <3>2
  <2>5. \A u, v \in Writers, n \in Packets :
          Serves[u] = Serves[v] /\ n \in Range(wrote'[u]) /\ n \in Range(wrote'[v]) => u = v
    BY <1>3 DEF OnceInv, OnceThere
  <2>6. QED
    BY <2>1, <2>2, <2>3, <2>4, <2>5 DEF OnceThere
<1>10. QED
  BY <1>7, <1>8, <1>9 DEF OnceInv, NoneMore

LEMMA InitOnce == Init => OnceInv
<1> SUFFICES ASSUME Init PROVE OnceInv
  OBVIOUS
<1>1. Range(<<>>) = {} /\ Distinct(<<>>)
  BY DEF Range, Distinct
<1>2. /\ \A s \in Servers : queue[s] = <<>>
      /\ \A w \in Writers : wrote[w] = <<>> /\ writer[w] \in {"off", "get"}
      /\ \A r \in Readers : reader[r] = "off"
  BY DEF Init
<1>3. \A w \in Writers, m \in Packets : ~Holds(w, m)
  BY <1>2 DEF Holds
<1>4. \A s \in Servers, m \in Packets : ~Reached(s, m)
  BY <1>1, <1>2, <1>3 DEF Reached
<1>5. OnceThere
  BY <1>1, <1>2, <1>3, RelayAssumption DEF OnceThere, RelayAssumption
<1>6. OnceHanded
  BY <1>2, <1>4 DEF OnceHanded
<1>7. QED
  BY <1>5, <1>6 DEF OnceInv

LEMMA NextOnce ==
  ASSUME RelayType, OnceInv, [Next]_vars
  PROVE  OnceInv'
<1> USE DEF packetVars, readerVars, writerVars, history, SetReader, SetWriter
<1>1. ASSUME NEW r \in Readers, ReaderStep(r) PROVE OnceInv'
  <2>1. CASE Spawn(r)
    <3>1. \A w \in Writers : writer'[w] = writer[w] \/ writer'[w] = "test"
      BY <2>1 DEF Spawn, RelayType, TypeOK
    <3>2. \A w \in Writers, m \in Packets : Holds(w, m)' => Holds(w, m)
      BY <2>1, <3>1 DEF Spawn, Holds
    <3>3. QED
      BY <2>1, <3>2, OnceQuiet DEF Spawn, RelayType, TypeOK
  <2>2. CASE ReadError(r) \/ Read(r) \/ ParseNothing(r) \/ BeatAckFails(r)
    <3>1. /\ UNCHANGED <<made, packet, left, queue, wrote, writer, item>>
          /\ \A t \in Readers : reader'[t] = "cast" => reader[t] = "cast"
      BY <2>2 DEF ReadError, Read, ParseNothing, BeatAckFails, RelayType, TypeOK
    <3>2. QED
      BY <3>1, OnceQuiet DEF Holds
  <2>3. CASE ParsePacket(r)
    BY <2>3, ParseOnce
  <2>4. CASE BroadCast(r)
    BY <2>4, BroadCastOnce
  <2>5. QED
    BY <1>1, <2>1, <2>2, <2>3, <2>4 DEF ReaderStep
<1>2. ASSUME NEW w \in Writers, WriterStep(w) PROVE OnceInv'
  <2>1. CASE Fetch(w)
    BY <2>1, FetchOnce
  <2>2. CASE WriteWorks(w)
    BY <2>2, WriteOnce
  <2>3. CASE PutItBack(w)
    BY <2>3, PutBackOnce
  <2>4. CASE \/ TestClosed(w) \/ FetchNothing(w) \/ SkipOld(w) \/ WriteFails(w)
             \/ NobodyReached(w) \/ ReleaseOnece(w)
    <3>1. /\ UNCHANGED <<made, reader, packet, left, queue, wrote>>
          /\ \A v \in Writers \ {w} : writer'[v] = writer[v] /\ item'[v] = item[v]
          /\ writer'[w] \in {"write", "putback"} => writer[w] = "write" /\ item'[w] = item[w]
      BY <2>4 DEF TestClosed, FetchNothing, SkipOld, WriteFails, NobodyReached, ReleaseOnece, After, Then,
                  RelayType, TypeOK
    <3>2. \A v \in Writers, m \in Packets : Holds(v, m)' => Holds(v, m)
      BY <3>1 DEF Holds
    <3>3. QED
      BY <3>1, <3>2, OnceQuiet
  <2>5. QED
    BY <1>2, <2>1, <2>2, <2>3, <2>4 DEF WriterStep
<1>3. CASE (\E m \in Packets : Expire(m)) \/ UNCHANGED vars
  BY <1>3, OnceQuiet DEF Expire, vars, Holds
<1>4. QED
  BY <1>1, <1>2, <1>3 DEF Next

THEOREM OnceInvariant == Spec => []OnceInv
<1>1. RelayType /\ OnceInv /\ [Next]_vars => OnceInv'
  BY NextOnce
<1>2. QED
  BY <1>1, InitOnce, RelayInvariant, PTL DEF Spec

(* A server writes a packet to one connection, and once, also when it was  *)
(* put back by another (AddDataForWrite, writeDataEachConRoutine,          *)
(* writeDataSharePool).                                                    *)
THEOREM PacketsAreWrittenOnce == Spec => []WrittenOnce
<1>1. RelayType /\ OnceInv => WrittenOnce
  <2> SUFFICES ASSUME RelayType, OnceInv, NEW v \in Writers, NEW w \in Writers, Serves[v] = Serves[w],
                      NEW i \in DOMAIN wrote[v], NEW j \in DOMAIN wrote[w],
                      wrote[v][i] = wrote[w][j]
               PROVE  v = w /\ i = j
    BY DEF WrittenOnce
  <2>1. wrote[v] \in Seq(Packets) /\ wrote[w] \in Seq(Packets)
    BY DEF RelayType, TypeOK
  <2>2. PICK m \in Packets : m = wrote[v][i]
    BY <2>1
  <2>3. m \in Range(wrote[v]) /\ m \in Range(wrote[w])
    BY <2>2 DEF Range
  <2>4. v = w
    BY <2>3 DEF OnceInv, OnceThere
  <2>5. QED
    BY <2>4 DEF OnceInv, OnceThere, Distinct
<1>2. QED
  BY <1>1, OnceInvariant, RelayInvariant, PTL

-----------------------------------------------------------------------------
(* Two elements of a sequence after one went in at its end.                *)
LEMMA AppendPairs ==
  ASSUME NEW S, NEW q \in Seq(S), NEW e \in S,
         NEW i \in DOMAIN Append(q, e), NEW j \in DOMAIN Append(q, e), i < j
  PROVE  /\ i \in DOMAIN q /\ Append(q, e)[i] = q[i]
         /\ \/ j \in DOMAIN q /\ Append(q, e)[j] = q[j]
            \/ Append(q, e)[j] = e
BY AppendAt

(* Two elements of a sequence after its first came out.                    *)
LEMMA TailPairs ==
  ASSUME NEW S, NEW q \in Seq(S), q # <<>>,
         NEW i \in DOMAIN Tail(q), NEW j \in DOMAIN Tail(q), i < j
  PROVE  /\ i + 1 \in DOMAIN q /\ j + 1 \in DOMAIN q /\ i + 1 < j + 1
         /\ Tail(q)[i] = q[i + 1] /\ Tail(q)[j] = q[j + 1]
<1>1. i \in Nat /\ j \in Nat
  BY TailAt
<1>2. i + 1 \in DOMAIN q /\ j + 1 \in DOMAIN q
  BY TailAt
<1>3. QED
  BY <1>1, <1>2, TailAt

(* What was in order stays so as more is handed over and put back.         *)
LEMMA FollowsStays ==
  ASSUME putBack \subseteq putBack',
         NEW s, NEW x, NEW y, Follows(s, x, y),
         \/ sent'[s] = sent[s]
         \/ \E S : \E m \in S : sent[s] \in Seq(S) /\ sent'[s] = Append(sent[s], m)
  PROVE  Follows(s, x, y)'
<1>1. CASE sent'[s] = sent[s]
  BY <1>1 DEF Follows
<1>2. ASSUME NEW S, NEW m \in S, sent[s] \in Seq(S), sent'[s] = Append(sent[s], m)
      PROVE  Follows(s, x, y)'
  <2>1. \A k \in DOMAIN sent[s] : k \in DOMAIN sent'[s] /\ sent'[s][k] = sent[s][k]
    BY <1>2, AppendAt
  <2>2. QED
    BY <2>1 DEF Follows
<1>3. QED
  BY <1>1, <1>2

(* A packet that is handed over follows all that were before.              *)
LEMMA LastFollows ==
  ASSUME NEW s, NEW S, NEW m \in S, sent[s] \in Seq(S), sent'[s] = Append(sent[s], m),
         NEW x \in Range(sent[s])
  PROVE  Follows(s, x, m)'
<1>1. PICK k \in DOMAIN sent[s] : sent[s][k] = x
  BY DEF Range
<1>2. PICK l : l = Len(sent[s]) + 1
  OBVIOUS
<1>3. /\ k \in DOMAIN sent'[s] /\ l \in DOMAIN sent'[s] /\ k < l
      /\ sent'[s][k] = x /\ sent'[s][l] = m
  BY <1>1, <1>2, AppendAt
<1>4. QED
  BY <1>3 DEF Follows

(* Steps that queue nothing, write nothing and hand nothing over.          *)
LEMMA OrderQuiet ==
  ASSUME OrderInv, UNCHANGED <<queue, wrote, sent, putBack>>,
         \A w \in Writers, m \in Packets : Holds(w, m)' => Holds(w, m)
  PROVE  OrderInv'
<1>1. \A s, x, y : Follows(s, x, y)' <=> Follows(s, x, y)
  BY DEF Follows
<1>2. HandedOver'
  BY DEF OrderInv, HandedOver, Reached
<1>3. WrittenInOrder' /\ HeldAfterWritten'
  BY <1>1 DEF OrderInv, WrittenInOrder, HeldAfterWritten
<1>4. QueuedAfterTaken' /\ QueuedInOrder'
  BY <1>1 DEF OrderInv, QueuedAfterTaken, QueuedInOrder
<1>5. QED
  BY <1>2, <1>3, <1>4 DEF OrderInv

(* BroadCast: the packet is the last that was handed over, and the last of *)
(* the queue.                                                              *)
LEMMA BroadCastInOrder ==
  ASSUME RelayType, OrderInv, NEW r \in Readers, BroadCast(r)
  PROVE  OrderInv'
<1>1. /\ packet[r] \in Packets /\ Head(left[r]) \in Servers
  BY CastTypes, RangeTail DEF BroadCast
<1>2. PICK s \in Servers : s = Head(left[r])
  BY <1>1
<1>3. PICK m \in Packets : m = packet[r]
  BY <1>1
<1>4. /\ queue[s] \in Seq(Packets) /\ sent[s] \in Seq(Packets)
      /\ queue'[s] = Append(queue[s], m) /\ \A t \in Servers \ {s} : queue'[t] = queue[t]
      /\ sent'[s] = Append(sent[s], m) /\ \A t \in Servers \ {s} : sent'[t] = sent[t]
      /\ UNCHANGED <<writer, item, wrote, putBack>>
  BY <1>2, <1>3 DEF BroadCast, Put, writerVars, RelayType, TypeOK
<1>5. \A t \in Servers : \A x, y : Follows(t, x, y) => Follows(t, x, y)'
  BY <1>4, FollowsStays
<1>6. \A x \in Range(sent[s]) : Follows(s, x, m)'
  BY <1>4, LastFollows
<1>7. /\ Range(queue'[s]) = Range(queue[s]) \cup {m}
      /\ Range(sent'[s]) = Range(sent[s]) \cup {m}
  BY <1>4, RangeAppend
<1>8. \A w \in Writers : \A n : Holds(w, n)' <=> Holds(w, n)
  BY <1>4 DEF Holds
<1>9. Serves \in [Writers -> Servers]
  BY RelayAssumption DEF RelayAssumption
<1>10. HandedOver'
  <2>1. \A t \in Servers, n \in Packets : Reached(t, n)' => Reached(t, n) \/ (t = s /\ n = m)
    BY <1>4, <1>7, <1>8 DEF Reached
  <2>2. QED
    BY <1>4, <1>7, <2>1 DEF OrderInv, HandedOver
<1>11. WrittenInOrder' /\ HeldAfterWritten'
  BY <1>4, <1>5, <1>8, <1>9 DEF OrderInv, WrittenInOrder, HeldAfterWritten
<1>12. QueuedAfterTaken'
  <2> SUFFICES ASSUME NEW w \in Writers, NEW x \in Packets, x \in Range(wrote'[w]) \/ Holds(w, x)',
                      NEW y \in Range(queue'[Serves[w]])
               PROVE  Follows(Serves[w], x, y)'
    BY DEF QueuedAfterTaken
  <2>1. x \in Range(wrote[w]) \/ Holds(w, x)
    BY <1>4, <1>8
  <2>2. CASE y \in Range(queue[Serves[w]])
    BY <1>5, <1>9, <2>1, <2>2 DEF OrderInv, QueuedAfterTaken
  <2>3. CASE y \notin Range(queue[Serves[w]])
    <3>1. Serves[w] = s /\ y = m
      BY <1>4, <1>7, <1>9, <2>3
    <3>2. x \in Range(sent[s])
      BY <2>1, <3>1 DEF OrderInv, HandedOver, Reached
    <3>3. QED
      BY <1>6, <3>1, <3>2
  <2>4. QED
    BY <2>2, <2>3
<1>13. QueuedInOrder'
  <2> SUFFICES ASSUME NEW t \in Servers, NEW i \in DOMAIN queue'[t], NEW j \in DOMAIN queue'[t], i < j
               PROVE  Follows(t, queue[t][i], queue[t][j])'
    BY DEF QueuedInOrder
  <2>1. CASE t # s
    BY <1>4, <1>5, <2>1 DEF OrderInv, QueuedInOrder
  <2>2. CASE t = s
    <3>1. /\ i \in DOMAIN queue[s] /\ queue'[s][i] = queue[s][i]
          /\ (j \in DOMAIN queue[s] /\ queue'[s][j] = queue[s][j]) \/ queue'[s][j] = m
      BY <1>4, <2>2, AppendPairs
    <3>2. CASE j \in DOMAIN queue[s] /\ queue'[s][j] = queue[s][j]
      BY <1>5, <2>2, <3>1, <3>2 DEF OrderInv, QueuedInOrder
    <3>3. CASE queue'[s][j] = m
      <4>1. queue[s][i] \in Packets /\ queue[s][i] \in Range(queue[s])
        BY <1>4, <3>1 DEF Range
      <4>2. queue[s][i] \in Range(sent[s])
        BY <4>1 DEF OrderInv, HandedOver, Reached
      <4>3. QED
        BY <1>6, <2>2, <3>1, <3>3, <4>2
    <3>4. QED
      BY <3>1, <3>2, <3>3
  <2>3. QED
    BY <2>1, <2>2
<1>14. QED
  BY <1>10, <1>11, <1>12, <1>13 DEF OrderInv

(* Fetch: the first of the queue is in the hands of a writer.              *)
LEMMA FetchInOrder ==
  ASSUME RelayType, OnceInv, OrderInv, NEW w \in Writers, Fetch(w)
  PROVE  OrderInv'
<1>1. PICK s \in Servers : s = Serves[w]
  BY RelayAssumption DEF RelayAssumption
<1>2. queue[s] \in Seq(Packets) /\ queue[s] # <<>>
  BY <1>1 DEF Fetch, RelayType, TypeOK
<1>3. PICK m \in Packets : m = Head(queue[s])
  BY <1>2, RangeTail
<1>4. /\ queue'[s] = Tail(queue[s]) /\ \A t \in Servers \ {s} : queue'[t] = queue[t]
      /\ item'[w] = m /\ writer'[w] = "write"
      /\ \A v \in Writers \ {w} : item'[v] = item[v] /\ writer'[v] = writer[v]
      /\ UNCHANGED <<wrote, sent, putBack>>
  BY <1>1, <1>3 DEF Fetch, RelayType, TypeOK, SetWriter, history
<1>5. /\ \A n : Holds(w, n)' <=> n = m
      /\ \A v \in Writers \ {w} : \A n : Holds(v, n)' <=> Holds(v, n)
  BY <1>4 DEF Holds
<1>6. \A t, x, y : Follows(t, x, y)' <=> Follows(t, x, y)
  BY <1>4 DEF Follows
<1>7. /\ m \in Range(queue[s])
      /\ \A t \in Servers : Range(queue'[t]) \subseteq Range(queue[t])
  BY <1>2, <1>3, <1>4, RangeTail
<1>8. HandedOver'
  BY <1>4, FetchOnce DEF OrderInv, HandedOver, NoneMore
<1>9. WrittenInOrder'
  BY <1>4, <1>6 DEF OrderInv, WrittenInOrder
<1>10. HeldAfterWritten'
  <2> SUFFICES ASSUME NEW v \in Writers, NEW y \in Packets, Holds(v, y)',
                      NEW x \in Range(wrote'[v])
               PROVE  Follows(Serves[v], x, y)
    BY <1>6 DEF HeldAfterWritten
  <2>1. x \in Range(wrote[v]) /\ x \in Packets
    BY <1>4 DEF RelayType, TypeOK, Range
  <2>2. CASE v = w
    BY <1>1, <1>5, <1>7, <2>1, <2>2 DEF OrderInv, QueuedAfterTaken
  <2>3. CASE v # w
    BY <1>5, <2>1, <2>3 DEF OrderInv, HeldAfterWritten
  <2>4. QED
    BY <2>2, <2>3
<1>11. QueuedAfterTaken'
  <2> SUFFICES ASSUME NEW v \in Writers, NEW x \in Packets, x \in Range(wrote'[v]) \/ Holds(v, x)',
                      NEW y \in Range(queue'[Serves[v]])
               PROVE  Follows(Serves[v], x, y)
    BY <1>6 DEF QueuedAfterTaken
  <2>1. y \in Range(queue[Serves[v]])
    BY <1>7, RelayAssumption DEF RelayAssumption
  <2>2. CASE x \in Range(wrote[v]) \/ Holds(v, x)
    BY <2>1, <2>2 DEF OrderInv, QueuedAfterTaken
  <2>3. CASE ~(x \in Range(wrote[v]) \/ Holds(v, x))
    <3>1. v = w /\ x = m
      BY <1>4, <1>5, <2>3
    <3>2. y \in Range(Tail(queue[s]))
      BY <1>1, <1>4, <3>1
    <3>3. PICK i \in DOMAIN Tail(queue[s]) : Tail(queue[s])[i] = y
      BY <3>2 DEF Range
    <3>4. /\ 1 \in DOMAIN queue[s] /\ i + 1 \in DOMAIN queue[s] /\ 1 < i + 1
          /\ queue[s][1] = m /\ queue[s][i + 1] = y
      BY <1>2, <1>3, <3>3, TailAt
    <3>5. QED
      BY <1>1, <3>1, <3>4 DEF OrderInv, QueuedInOrder
  <2>4. QED
    BY <2>2, <2>3
<1>12. QueuedInOrder'
  <2> SUFFICES ASSUME NEW t \in Servers, NEW i \in DOMAIN queue'[t], NEW j \in DOMAIN queue'[t], i < j
               PROVE  Follows(t, queue'[t][i], queue'[t][j])
    BY <1>6 DEF QueuedInOrder
  <2>1. CASE t # s
    BY <1>4, <2>1 DEF OrderInv, QueuedInOrder
  <2>2. CASE t = s
    <3>1. /\ i + 1 \in DOMAIN queue[s] /\ j + 1 \in DOMAIN queue[s] /\ i + 1 < j + 1
          /\ queue'[s][i] = queue[s][i + 1] /\ queue'[s][j] = queue[s][j + 1]
      <4>1. PICK q \in Seq(Packets) : q = queue[s]
        BY <1>2
      <4>2. q # <<>> /\ i \in DOMAIN Tail(q) /\ j \in DOMAIN Tail(q)
        BY <1>2, <1>4, <2>2, <4>1
      <4>3. /\ i + 1 \in DOMAIN q /\ j + 1 \in DOMAIN q /\ i + 1 < j + 1
            /\ Tail(q)[i] = q[i + 1] /\ Tail(q)[j] = q[j + 1]
        BY <4>2, TailPairs
      <4>4. QED
        BY <1>4, <4>1, <4>3
    <3>2. QED
      BY <2>2, <3>1 DEF OrderInv, QueuedInOrder
  <2>3. QED
    BY <2>1, <2>2
<1>13. QED
  BY <1>8, <1>9, <1>10, <1>11, <1>12 DEF OrderInv

(* WriteWorks: what a writer held comes after all that it wrote.           *)
LEMMA WriteInOrder ==
  ASSUME RelayType, OnceInv, OrderInv, NEW w \in Writers, WriteWorks(w)
  PROVE  OrderInv'
<1>1. PICK m \in Packets : m = item[w]
  BY DEF WriteWorks, RelayType, Busy
<1>2. /\ Holds(w, m) /\ wrote[w] \in Seq(Packets)
      /\ wrote'[w] = Append(wrote[w], m) /\ \A v \in Writers \ {w} : wrote'[v] = wrote[v]
      /\ writer'[w] = "release" /\ \A v \in Writers \ {w} : writer'[v] = writer[v]
      /\ UNCHANGED <<queue, item, sent, putBack>>
  BY <1>1 DEF WriteWorks, Then, Holds, RelayType, TypeOK, SetWriter
<1>3. /\ \A n : ~Holds(w, n)'
      /\ \A v \in Writers \ {w} : \A n : Holds(v, n)' <=> Holds(v, n)
  BY <1>2 DEF Holds
<1>4. \A t, x, y : Follows(t, x, y)' <=> Follows(t, x, y)
  BY <1>2 DEF Follows
<1>5. Range(wrote'[w]) = Range(wrote[w]) \cup {m}
  BY <1>2, RangeAppend
<1>6. HandedOver'
  BY <1>2, WriteOnce DEF OrderInv, HandedOver, NoneMore
<1>7. WrittenInOrder'
  <2> SUFFICES ASSUME NEW v \in Writers, NEW i \in DOMAIN wrote'[v], NEW j \in DOMAIN wrote'[v], i < j
               PROVE  Follows(Serves[v], wrote'[v][i], wrote'[v][j])
    BY <1>4 DEF WrittenInOrder
  <2>1. CASE v # w
    BY <1>2, <2>1 DEF OrderInv, WrittenInOrder
  <2>2. CASE v = w
    <3>1. /\ i \in DOMAIN wrote[w] /\ wrote'[w][i] = wrote[w][i]
          /\ (j \in DOMAIN wrote[w] /\ wrote'[w][j] = wrote[w][j]) \/ wrote'[w][j] = m
      BY <1>2, <2>2, AppendPairs
    <3>2. CASE j \in DOMAIN wrote[w] /\ wrote'[w][j] = wrote[w][j]
      BY <2>2, <3>1, <3>2 DEF OrderInv, WrittenInOrder
    <3>3. CASE wrote'[w][j] = m
      <4>1. wrote[w][i] \in Range(wrote[w])
        BY <3>1 DEF Range
      <4>2. QED
        BY <1>2, <2>2, <3>1, <3>3, <4>1 DEF OrderInv, HeldAfterWritten
    <3>4. QED
      BY <3>1, <3>2, <3>3
  <2>3. QED
    BY <2>1, <2>2
<1>8. HeldAfterWritten'
  BY <1>2, <1>3, <1>4 DEF OrderInv, HeldAfterWritten
<1>9. QueuedAfterTaken'
  <2> SUFFICES ASSUME NEW v \in Writers, NEW x \in Packets, x \in Range(wrote'[v]) \/ Holds(v, x)',
                      NEW y \in Range(queue[Serves[v]])
               PROVE  Follows(Serves[v], x, y)
    BY <1>2, <1>4 DEF QueuedAfterTaken
  <2>1. x \in Range(wrote[v]) \/ Holds(v, x)
    <3>1. CASE v = w
      BY <1>2, <1>3, <1>5, <3>1
    <3>2. CASE v # w
      BY <1>2, <1>3, <3>2
    <3>3. QED
      BY <3>1, <3>2
  <2>2. QED
    BY <2>1 DEF OrderInv, QueuedAfterTaken
<1>10. QueuedInOrder'
  BY <1>2, <1>4 DEF OrderInv, QueuedInOrder
<1>11. QED
  BY <1>6, <1>7, <1>8, <1>9, <1>10 DEF OrderInv

(* PutItBack: the packet goes to the end, out of its order.                *)
LEMMA PutBackInOrder ==
  ASSUME RelayType, OnceInv, OrderInv, NEW w \in Writers, PutItBack(w)
  PROVE  OrderInv'
<1>1. PICK s \in Servers : s = Serves[w]
  BY RelayAssumption DEF RelayAssumption
<1>2. PICK m \in Packets : m = item[w]
  BY DEF PutItBack, RelayType, Busy
<1>3. /\ queue[s] \in Seq(Packets) /\ putBack' = putBack \cup {m}
      /\ queue'[s] = Append(queue[s], m) /\ \A t \in Servers \ {s} : queue'[t] = queue[t]
      /\ writer'[w] \in {"end", "get"}
      /\ \A v \in Writers \ {w} : item'[v] = item[v] /\ writer'[v] = writer[v]
      /\ UNCHANGED <<wrote, sent>>
  BY <1>1, <1>2 DEF PutItBack, Put, RelayType, TypeOK, SetWriter
<1>4. \A v \in Writers, n \in Packets : Holds(v, n)' => Holds(v, n)
  BY <1>3 DEF Holds
<1>5. \A t, x, y : Follows(t, x, y) \/ y = m => Follows(t, x, y)'
  BY <1>3 DEF Follows
<1>6. Range(queue'[s]) = Range(queue[s]) \cup {m}
  BY <1>3, RangeAppend
<1>7. Serves \in [Writers -> Servers]
  BY RelayAssumption DEF RelayAssumption
<1>8. HandedOver'
  BY <1>3, PutBackOnce DEF OrderInv, HandedOver, NoneMore
<1>9. WrittenInOrder' /\ HeldAfterWritten'
  BY <1>3, <1>4, <1>5 DEF OrderInv, WrittenInOrder, HeldAfterWritten
<1>10. QueuedAfterTaken'
  <2> SUFFICES ASSUME NEW v \in Writers, NEW x \in Packets, x \in Range(wrote'[v]) \/ Holds(v, x)',
                      NEW y \in Range(queue'[Serves[v]]), y # m
               PROVE  Follows(Serves[v], x, y)
    BY <1>5 DEF QueuedAfterTaken
  <2>1. y \in Range(queue[Serves[v]])
    <3>1. CASE Serves[v] = s
      BY <1>6, <3>1
    <3>2. CASE Serves[v] # s
      BY <1>3, <1>7, <3>2
    <3>3. QED
      BY <3>1, <3>2
  <2>2. QED
    BY <1>3, <1>4, <2>1 DEF OrderInv, QueuedAfterTaken
<1>11. QueuedInOrder'
  <2> SUFFICES ASSUME NEW t \in Servers, NEW i \in DOMAIN queue'[t], NEW j \in DOMAIN queue'[t], i < j
               PROVE  Follows(t, queue'[t][i], queue'[t][j]) \/ queue'[t][j] = m
    BY <1>5 DEF QueuedInOrder
  <2>1. CASE t # s
    BY <1>3, <2>1 DEF OrderInv, QueuedInOrder
  <2>2. CASE t = s
    <3>1. /\ i \in DOMAIN queue[s] /\ queue'[s][i] = queue[s][i]
          /\ (j \in DOMAIN queue[s] /\ queue'[s][j] = queue[s][j]) \/ queue'[s][j] = m
      BY <1>3, <2>2, AppendPairs
    <3>2. QED
      BY <2>2, <3>1 DEF OrderInv, QueuedInOrder
  <2>3. QED
    BY <2>1, <2>2
<1>12. QED
  BY <1>8, <1>9, <1>10, <1>11 DEF OrderInv

LEMMA InitOrder == Init => OrderInv
<1> SUFFICES ASSUME Init PROVE OrderInv
  OBVIOUS
<1>1. Range(<<>>) = {} /\ DOMAIN <<>> = {}
  BY DEF Range
<1>2. /\ \A s \in Servers : queue[s] = <<>>
      /\ \A w \in Writers : wrote[w] = <<>> /\ writer[w] \in {"off", "get"}
  BY DEF Init
<1>3. \A w \in Writers, m \in Packets : ~Holds(w, m)
  BY <1>2 DEF Holds
<1>4. HandedOver
  BY <1>1, <1>2, <1>3 DEF HandedOver, Reached
<1>5. WrittenInOrder /\ HeldAfterWritten
  BY <1>1, <1>2, <1>3 DEF WrittenInOrder, HeldAfterWritten
<1>6. QueuedAfterTaken /\ QueuedInOrder
  BY <1>1, <1>2, <1>3 DEF QueuedAfterTaken, QueuedInOrder
<1>7. QED
  BY <1>4, <1>5, <1>6 DEF OrderInv

LEMMA NextInOrder ==
  ASSUME RelayType, OnceInv, OrderInv, [Next]_vars
  PROVE  OrderInv'
<1> USE DEF packetVars, readerVars, writerVars, history, SetReader, SetWriter
<1>1. ASSUME NEW r \in Readers, ReaderStep(r) PROVE OrderInv'
  <2>1. CASE Spawn(r)
    <3>1. \A w \in Writers : writer'[w] = writer[w] \/ writer'[w] = "test"
      BY <2>1 DEF Spawn, RelayType, TypeOK
    <3>2. \A w \in Writers, m \in Packets : Holds(w, m)' => Holds(w, m)
      BY <2>1, <3>1 DEF Spawn, Holds
    <3>3. QED
      BY <2>1, <3>2, OrderQuiet DEF Spawn
  <2>2. CASE ReadError(r) \/ Read(r) \/ ParsePacket(r) \/ ParseNothing(r) \/ BeatAckFails(r)
    <3>1. UNCHANGED <<queue, wrote, sent, putBack, writer, item>>
      BY <2>2 DEF ReadError, Read, ParsePacket, ParseNothing, BeatAckFails
    <3>2. QED
      BY <3>1, OrderQuiet DEF Holds
  <2>3. CASE BroadCast(r)
    BY <2>3, BroadCastInOrder
  <2>4. QED
    BY <1>1, <2>1, <2>2, <2>3 DEF ReaderStep
<1>2. ASSUME NEW w \in Writers, WriterStep(w) PROVE OrderInv'
  <2>1. CASE Fetch(w)
    BY <2>1, FetchInOrder
  <2>2. CASE WriteWorks(w)
    BY <2>2, WriteInOrder
  <2>3. CASE PutItBack(w)
    BY <2>3, PutBackInOrder
  <2>4. CASE \/ TestClosed(w) \/ FetchNothing(w) \/ SkipOld(w) \/ WriteFails(w)
             \/ NobodyReached(w) \/ ReleaseOnece(w)
    <3>1. /\ UNCHANGED <<queue, wrote, sent, putBack>>
          /\ \A v \in Writers \ {w} : writer'[v] = writer[v] /\ item'[v] = item[v]
          /\ writer'[w] \in {"write", "putback"} => writer[w] = "write" /\ item'[w] = item[w]
      BY <2>4 DEF TestClosed, FetchNothing, SkipOld, WriteFails, NobodyReached, ReleaseOnece, After, Then,
                  RelayType, TypeOK
    <3>2. \A v \in Writers, m \in Packets : Holds(v, m)' => Holds(v, m)
      BY <3>1 DEF Holds
    <3>3. QED
      BY <3>1, <3>2, OrderQuiet
  <2>5. QED
    BY <1>2, <2>1, <2>2, <2>3, <2>4 DEF WriterStep
<1>3. CASE (\E m \in Packets : Expire(m)) \/ UNCHANGED vars
  BY <1>3, OrderQuiet DEF Expire, vars, Holds
<1>4. QED
  BY <1>1, <1>2, <1>3 DEF Next

(* A connection of GATEWAY is written what GATEWAY was handed in the order *)
(* it was handed, however many connections share the queue, except for     *)
(* what another had put back (AddDataForWrite, writeDataEachConRoutine).   *)
THEOREM ConnectionsAreWrittenInOrder == Spec => []InOrder
<1>1. RelayType /\ OnceInv /\ OrderInv /\ [Next]_vars => OrderInv'
  BY NextInOrder
<1>2. OrderInv => InOrder
  BY DEF OrderInv, WrittenInOrder, Follows, InOrder, Writers
<1>3. QED
  BY <1>1, <1>2, InitOrder, OnceInvariant, RelayInvariant, PTL DEF Spec
=============================================================================
