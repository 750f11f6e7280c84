------------------------- MODULE HandlerPoolProofs --------------------------
(***************************************************************************)
(* Theorems about HandlerPool, for any number of connections, serials,     *)
(* writers and slots.                                                      *)
(***************************************************************************)
EXTENDS HandlerPool, FiniteSetTheorems, SequenceTheorems, TLAPS

(* A connection stands in ChanQueue once, and only before a goroutine      *)
(* takes it.                                                               *)
QueueInv ==
  /\ \A i \in 1 .. Len(chanQueue) : stage[chanQueue[i]] = "queued"
  /\ \A i, j \in 1 .. Len(chanQueue) : chanQueue[i] = chanQueue[j] => i = j

(* The connections in the hands of a slot's goroutines can be counted.     *)
FiniteInv == \A k \in Ids : IsFiniteSet(Has(k))

CountInv == FiniteInv /\ PressureServed

(* Whoever is in the map, was found there or was loaded from it is a       *)
(* monitor of the serial.                                                  *)
IsMonitor(c, s) == stage[c] = "monitor" /\ SerialOf[c] = s

OwnInv ==
  /\ \A s \in Serials : monitorCons[s] # Nil => IsMonitor(monitorCons[s], s)
  /\ \A c \in Cons : found[c] # Nil => IsMonitor(found[c], SerialOf[c])
  /\ \A w \in Writers : seen[w] # Nil => IsMonitor(seen[w], serial[w])

(* A connection is open until it is entered, and what was thrown out does  *)
(* not come back.                                                          *)
FreshInv ==
  /\ \A c \in Cons : stage[c] \in {"new", "queued", "ack", "store"} => open[c]
  /\ \A c \in Cons :
       stage[c] \in {"closeself", "closeother"} => monitorCons[SerialOf[c]] # found[c]

(* Unless somebody else came in between, whoever is about to delete by     *)
(* serial deletes the monitor it knows of.                                 *)
DeleteInv ==
  /\ \A c \in Cons : stage[c] = "delete" /\ SerialOf[c] \notin crossed =>
       monitorCons[SerialOf[c]] \in {Nil, found[c]}
  /\ \A w \in Writers : writer[w] = "close" /\ serial[w] \notin crossed =>
       monitorCons[serial[w]] \in {Nil, seen[w]}
  /\ \A w \in Writers : writer[w] = "delete" /\ serial[w] \notin crossed =>
       monitorCons[serial[w]] = Nil \/ ~open[monitorCons[serial[w]]]

MonitorInv == OwnInv /\ FreshInv /\ ClosedIsLeaving /\ DeleteInv /\ MonitorGetsCopies

PoolInv == TypeOK /\ QueueInv /\ CountInv /\ MonitorInv

-----------------------------------------------------------------------------
(* What the type invariant says of one connection and of one writer.       *)
LEMMA PoolTypes ==
  ASSUME TypeOK
  PROVE  /\ \A c \in Cons : SerialOf[c] \in Serials /\ by[c] \in Ids
         /\ \A s \in Serials : monitorCons[s] \in Cons \cup {Nil}
         /\ \A w \in Writers : serial[w] \in Serials
         /\ Nil \notin Cons
BY PoolAssumption DEF TypeOK, PoolAssumption

(* Putting a new connection into ChanQueue.                                *)
LEMMA AcceptQueue ==
  ASSUME TypeOK, QueueInv, NEW c \in Cons, Accept(c)
  PROVE  chanQueue' \in Seq(Cons) /\ Len(chanQueue') <= QueueCap /\ QueueInv'
<1>1. chanQueue \in Seq(Cons) /\ chanQueue' = Append(chanQueue, c)
  BY DEF Accept, TypeOK
<1>2. /\ Len(chanQueue') = Len(chanQueue) + 1
      /\ \A i \in 1 .. Len(chanQueue) : chanQueue'[i] = chanQueue[i]
      /\ chanQueue'[Len(chanQueue) + 1] = c
  BY <1>1
<1>3. Len(chanQueue') <= QueueCap
  BY <1>1, <1>2, PoolAssumption DEF Accept, PoolAssumption
<1>4. \A i \in 1 .. Len(chanQueue) : chanQueue[i] \in Cons /\ chanQueue[i] # c
  BY <1>1 DEF QueueInv, Accept
<1>5. stage' = [stage EXCEPT ![c] = "queued"] /\ stage \in [Cons -> Stages]
  BY DEF Accept, SetStage, TypeOK
<1>6. \A i \in 1 .. Len(chanQueue') : stage'[chanQueue'[i]] = "queued"
  BY <1>1, <1>2, <1>4, <1>5 DEF QueueInv
<1>7. \A i, j \in 1 .. Len(chanQueue') : chanQueue'[i] = chanQueue'[j] => i = j
  BY <1>1, <1>2, <1>4 DEF QueueInv
<1>8. QED
  BY <1>1, <1>3, <1>6, <1>7 DEF QueueInv

(* Taking the next one out of it.                                          *)
LEMMA ReceiveQueue ==
  ASSUME TypeOK, QueueInv, NEW k \in Ids, Receive(k)
  PROVE  /\ chanQueue' \in Seq(Cons) /\ Len(chanQueue') <= QueueCap /\ QueueInv'
         /\ Head(chanQueue) \in Cons /\ stage[Head(chanQueue)] = "queued"
<1> DEFINE c == Head(chanQueue)
<1>1. chanQueue \in Seq(Cons) /\ chanQueue # <<>> /\ chanQueue' = Tail(chanQueue)
  BY DEF Receive, TypeOK
<1>2. /\ chanQueue' \in Seq(Cons)
      /\ Len(chanQueue) \in Nat \ {0}
      /\ Len(chanQueue') = Len(chanQueue) - 1
      /\ \A i \in 1 .. Len(chanQueue') : chanQueue'[i] = chanQueue[i + 1]
      /\ c = chanQueue[1] /\ c \in Cons
  BY <1>1
<1>3. \A i \in 1 .. Len(chanQueue') :
        i + 1 \in 1 .. Len(chanQueue) /\ chanQueue'[i] \in Cons /\ chanQueue'[i] # c
  BY <1>1, <1>2 DEF QueueInv
<1>4. stage' = [stage EXCEPT ![c] = "ack"] /\ stage \in [Cons -> Stages]
  BY DEF Receive, SetStage, TypeOK
<1>5. \A i \in 1 .. Len(chanQueue') : stage'[chanQueue'[i]] = "queued"
  BY <1>2, <1>3, <1>4 DEF QueueInv
<1>6. \A i, j \in 1 .. Len(chanQueue') : chanQueue'[i] = chanQueue'[j] => i = j
  BY <1>2, <1>3 DEF QueueInv
<1>7. stage[c] = "queued"
  BY <1>2 DEF QueueInv
<1>8. Len(chanQueue') <= QueueCap
  BY <1>2, PoolAssumption DEF TypeOK, PoolAssumption
<1>9. QED
  BY <1>2, <1>5, <1>6, <1>7, <1>8 DEF QueueInv

(* A step that leaves ChanQueue alone and moves no queued connection.      *)
LEMMA OtherQueue ==
  ASSUME TypeOK, QueueInv, UNCHANGED chanQueue,
         \A d \in Cons : stage[d] = "queued" => stage'[d] = "queued"
  PROVE  chanQueue' \in Seq(Cons) /\ Len(chanQueue') <= QueueCap /\ QueueInv'
<1>1. \A i \in 1 .. Len(chanQueue) : chanQueue[i] \in Cons
  BY DEF TypeOK
<1>2. QED
  BY <1>1 DEF QueueInv, TypeOK

-----------------------------------------------------------------------------
(* The initial states.                                                     *)
LEMMA InitPool == Init => TypeOK /\ QueueInv
<1> SUFFICES ASSUME Init PROVE TypeOK /\ QueueInv
  OBVIOUS
<1>1. chanQueue = <<>> /\ Len(chanQueue) = 0 /\ chanQueue \in Seq(Cons)
  BY DEF Init
<1>2. serial \in [Writers -> Serials]
  BY PoolAssumption DEF Init, PoolAssumption
<1>3. /\ look \in [Ids -> Nat] /\ wait \in [Ids -> Nat]
      /\ index \in 0 .. Slots
      /\ Len(chanQueue) <= QueueCap
  BY <1>1, PoolAssumption DEF Init, PoolAssumption, Ids
<1>4. by \in [Cons -> Ids]
  BY DEF Init, Ids
<1>5. QED
  BY <1>1, <1>2, <1>3, <1>4 DEF Init, TypeOK, QueueInv, Stages

(* The steps of the listener keep types and queue.                         *)
LEMMA ListenerTypes ==
  ASSUME TypeOK, QueueInv, ListenerStep
  PROVE  TypeOK' /\ QueueInv'
<1> USE DEF writerVars, conVars, poolVars, listenVars
<1>1. UNCHANGED <<chanQueue, conVars, dead, monitorCons, writerVars, crossed, wait>>
  BY DEF ListenerStep, Count, Grow, Sample
<1>2. chanQueue' \in Seq(Cons) /\ Len(chanQueue') <= QueueCap /\ QueueInv'
  BY <1>1, OtherQueue
<1>3. /\ listener' \in {"accept", "count", "grow", "sample"}
      /\ num' \in Nat /\ index' \in 0 .. Slots
      /\ status' \in [SlotIds -> BOOLEAN]
      /\ look' \in [Ids -> Nat]
  <2>1. CASE Count
    <3>1. \A n \in Nat : n \div Burst \in Nat
      BY PoolAssumption DEF PoolAssumption
    <3>2. num' \in Nat /\ listener' = "grow" /\ UNCHANGED <<index, status, look>>
      BY <2>1, <3>1 DEF Count, TypeOK
    <3>3. QED
      BY <3>2 DEF TypeOK
  <2>2. CASE Grow
    <3>1. Last \in 0 .. Slots
      BY PoolAssumption DEF Last, TypeOK, PoolAssumption
    <3>2. \E new \in SUBSET SlotIds :
            /\ status' = [k \in SlotIds |-> IF k \in new THEN TRUE ELSE status[k]]
            /\ look' = [k \in Ids |-> IF k \in new THEN look[k] + 1 ELSE look[k]]
      <4>1. index .. Last - 1 \subseteq SlotIds
        BY <3>1, PoolAssumption DEF SlotIds, TypeOK, PoolAssumption
      <4>2. QED
        BY <2>2, <4>1, Zenon DEF Grow
    <3>3. status' \in [SlotIds -> BOOLEAN]
      BY <3>2, Zenon DEF TypeOK
    <3>4. look' \in [Ids -> Nat]
      BY <3>2 DEF TypeOK
    <3>5. num' \in Nat /\ index' = Last /\ listener' = "sample"
      BY <2>2 DEF Grow, TypeOK
    <3>6. QED
      BY <3>1, <3>3, <3>4, <3>5
  <2>3. CASE Sample
    <3>1. status' \in [SlotIds -> BOOLEAN]
      BY <2>3, Zenon DEF Sample, TypeOK
    <3>2. index' \in 0 .. Slots
      <4>1. index \in 0 .. Slots /\ num \in Nat /\ Slots \in Nat
        BY PoolAssumption DEF TypeOK, PoolAssumption
      <4>2. index' = index \/ (index > num + 1 /\ index' = num + 1)
        BY <2>3 DEF Sample
      <4>3. QED
        BY <4>1, <4>2
    <3>3. num' = 0 /\ listener' = "accept" /\ UNCHANGED look
      BY <2>3 DEF Sample
    <3>4. QED
      BY <3>1, <3>2, <3>3 DEF TypeOK
  <2>4. QED
    BY <2>1, <2>2, <2>3 DEF ListenerStep
<1>4. QED
  BY <1>1, <1>2, <1>3 DEF TypeOK

(* So does accepting a connection, looking at a slot and taking from the   *)
(* queue.                                                                  *)
LEMMA AcceptTypes ==
  ASSUME TypeOK, QueueInv, NEW c \in Cons, Accept(c)
  PROVE  TypeOK' /\ QueueInv'
<1>1. chanQueue' \in Seq(Cons) /\ Len(chanQueue') <= QueueCap /\ QueueInv'
  BY AcceptQueue
<1>2. QED
  BY <1>1 DEF TypeOK, Accept, SetStage, Stages, poolVars, writerVars

LEMMA LookTypes ==
  ASSUME TypeOK, QueueInv, NEW k \in Ids, Look(k)
  PROVE  TypeOK' /\ QueueInv'
<1>1. /\ UNCHANGED <<listenVars, chanQueue, status, conVars, dead, monitorCons, writerVars, crossed>>
      /\ look[k] > 0
      /\ look' = [look EXCEPT ![k] = @ - 1]
      /\ wait' = [wait EXCEPT ![k] = IF Leaves(k) THEN @ ELSE @ + 1]
  BY DEF Look
<1>2. chanQueue' \in Seq(Cons) /\ Len(chanQueue') <= QueueCap /\ QueueInv'
  BY <1>1, OtherQueue DEF conVars
<1>3. look' \in [Ids -> Nat] /\ wait' \in [Ids -> Nat]
  BY <1>1 DEF TypeOK
<1>4. QED
  BY <1>1, <1>2, <1>3 DEF TypeOK, listenVars, conVars, writerVars

LEMMA ReceiveTypes ==
  ASSUME TypeOK, QueueInv, NEW k \in Ids, Receive(k)
  PROVE  TypeOK' /\ QueueInv'
<1> DEFINE c == Head(chanQueue)
<1>1. /\ chanQueue' \in Seq(Cons) /\ Len(chanQueue') <= QueueCap /\ QueueInv'
      /\ c \in Cons /\ stage[c] = "queued"
  BY ReceiveQueue
<1>2. /\ UNCHANGED <<listenVars, status, look, open, found, dead, monitorCons, writerVars, crossed>>
      /\ wait[k] > 0
      /\ wait' = [wait EXCEPT ![k] = @ - 1]
      /\ by' = [by EXCEPT ![c] = k]
      /\ stage' = [stage EXCEPT ![c] = "ack"]
  BY DEF Receive, SetStage
<1> HIDE DEF c
<1>3. wait' \in [Ids -> Nat] /\ by' \in [Cons -> Ids]
  <2>1. wait \in [Ids -> Nat] /\ by \in [Cons -> Ids]
    BY DEF TypeOK
  <2>2. wait' = [wait EXCEPT ![k] = @ - 1] /\ wait[k] > 0
    BY <1>2
  <2>3. by' = [by EXCEPT ![c] = k]
    BY <1>2
  <2>4. wait' \in [Ids -> Nat]
    BY <2>1, <2>2
  <2>5. QED
    BY <2>1, <2>3, <2>4
<1>4. stage' \in [Cons -> Stages]
      /\ \A d \in Cons : stage'[d] \in {"delete", "closeself", "closeother"} => found'[d] \in Cons
  BY <1>1, <1>2 DEF TypeOK, Stages
<1>5. QED
  BY <1>1, <1>2, <1>3, <1>4 DEF TypeOK, listenVars, writerVars

(* The steps of a goroutine with its connection.                           *)
LEMMA HandlerTypes ==
  ASSUME TypeOK, QueueInv, NEW c \in Cons, HandlerStep(c)
  PROVE  TypeOK' /\ QueueInv'
<1> USE DEF SetStage, writerVars, listenVars, poolVars, conVars
<1>1. UNCHANGED <<listenVars, chanQueue, status, wait, dead, writerVars>>
  BY DEF HandlerStep, Acknowledge, StoreMonitor, FindMonitor, DeleteMonitor, CloseSelf, CloseOther
<1>2. \A d \in Cons : stage[d] = "queued" => stage'[d] = "queued"
  BY DEF HandlerStep, Acknowledge, StoreMonitor, FindMonitor, DeleteMonitor, CloseSelf, CloseOther, TypeOK
<1>3. chanQueue' \in Seq(Cons) /\ Len(chanQueue') <= QueueCap /\ QueueInv'
  BY <1>1, <1>2, OtherQueue
<1>4. look' \in [Ids -> Nat] /\ by' \in [Cons -> Ids]
  <2>1. look \in [Ids -> Nat] /\ by \in [Cons -> Ids] /\ -1 \in Ids
    BY DEF TypeOK, Ids
  <2>2. UNCHANGED <<look, by>> \/ GoRound(c)
    BY DEF HandlerStep, Acknowledge, StoreMonitor, FindMonitor, DeleteMonitor, CloseSelf, CloseOther
  <2>3. QED
    BY <2>1, <2>2 DEF GoRound
<1>5. open' \in [Cons -> BOOLEAN]
  <2>1. open' = open \/ \E d \in Cons : open' = [open EXCEPT ![d] = FALSE]
    BY DEF HandlerStep, Acknowledge, StoreMonitor, FindMonitor, DeleteMonitor, CloseSelf,
           CloseOther, Other, TypeOK
  <2>2. QED
    BY <2>1 DEF TypeOK
<1>6. monitorCons' \in [Serials -> Cons \cup {Nil}] /\ crossed' \subseteq Serials
  <2>1. /\ monitorCons' = monitorCons
           \/ \E v \in Cons \cup {Nil} : monitorCons' = [monitorCons EXCEPT ![SerialOf[c]] = v]
        /\ crossed' = crossed \/ crossed' = crossed \cup {SerialOf[c]}
    BY DEF HandlerStep, Acknowledge, StoreMonitor, FindMonitor, DeleteMonitor, Without, CloseSelf,
           CloseOther
  <2>2. /\ monitorCons \in [Serials -> Cons \cup {Nil}]
        /\ crossed \subseteq Serials
        /\ SerialOf[c] \in Serials
    BY PoolTypes DEF TypeOK
  <2>3. QED
    BY <2>1, <2>2
<1>7. /\ stage' \in [Cons -> Stages]
      /\ found' \in [Cons -> Cons \cup {Nil}]
      /\ \A d \in Cons : stage'[d] \in {"delete", "closeself", "closeother"} => found'[d] \in Cons
  <2>1. CASE Acknowledge(c) \/ StoreMonitor(c)
    BY <2>1 DEF Acknowledge, StoreMonitor, TypeOK, Stages
  <2>2. CASE FindMonitor(c)
    BY <2>2, PoolTypes DEF FindMonitor, TypeOK, Stages
  <2>3. CASE DeleteMonitor(c) \/ CloseSelf(c)
    BY <2>3 DEF DeleteMonitor, CloseSelf, TypeOK, Stages
  <2>4. CASE CloseOther(c)
    BY <2>4 DEF CloseOther, TypeOK, Stages
  <2>5. QED
    BY <2>1, <2>2, <2>3, <2>4 DEF HandlerStep
<1>8. QED
  BY <1>1, <1>3, <1>4, <1>5, <1>6, <1>7 DEF TypeOK

(* The steps of a writer with a monitor, and monitors that go away.        *)
LEMMA WriterTypes ==
  ASSUME TypeOK, QueueInv, NEW w \in Writers,
         WriterStep(w) \/ \E s \in Serials : LoadMonitor(w, s)
  PROVE  TypeOK' /\ QueueInv'
<1> USE DEF SetWriter, writerVars, listenVars, poolVars, conVars
<1>1. UNCHANGED <<listenVars, chanQueue, poolVars, stage, by, found, dead, crossed>>
  BY DEF WriterStep, WriteMonitor, LoadAgain, CloseMonitor, RemoveMonitor, LoadMonitor
<1>2. chanQueue' \in Seq(Cons) /\ Len(chanQueue') <= QueueCap /\ QueueInv'
  BY <1>1, OtherQueue
<1>3. /\ open' \in [Cons -> BOOLEAN]
      /\ monitorCons' \in [Serials -> Cons \cup {Nil}]
      /\ serial' \in [Writers -> Serials]
  <2>1. /\ open' = open \/ open' = [open EXCEPT ![seen[w]] = FALSE]
        /\ monitorCons' = monitorCons \/ monitorCons' = [monitorCons EXCEPT ![serial[w]] = Nil]
        /\ serial' = serial \/ \E s \in Serials : serial' = [serial EXCEPT ![w] = s]
    BY DEF WriterStep, WriteMonitor, LoadAgain, CloseMonitor, RemoveMonitor, Without, LoadMonitor
  <2>2. open' \in [Cons -> BOOLEAN]
    BY <2>1 DEF TypeOK
  <2>3. /\ monitorCons \in [Serials -> Cons \cup {Nil}]
        /\ serial \in [Writers -> Serials]
    BY DEF TypeOK
  <2>4. QED
    BY <2>1, <2>2, <2>3
<1>4. /\ writer' \in [Writers -> {"idle", "write", "load", "close", "delete"}]
      /\ seen' \in [Writers -> Cons \cup {Nil}]
      /\ \A v \in Writers : writer'[v] \in {"write", "close"} => seen'[v] \in Cons
  <2>1. CASE WriteMonitor(w) \/ CloseMonitor(w) \/ RemoveMonitor(w)
    BY <2>1 DEF WriteMonitor, CloseMonitor, RemoveMonitor, TypeOK
  <2>2. CASE LoadAgain(w)
    BY <2>2, PoolTypes DEF LoadAgain, TypeOK
  <2>3. CASE \E s \in Serials : LoadMonitor(w, s)
    BY <2>3, PoolTypes DEF LoadMonitor, TypeOK
  <2>4. QED
    BY <2>1, <2>2, <2>3 DEF WriterStep
<1>5. QED
  BY <1>1, <1>2, <1>3, <1>4 DEF TypeOK

LEMMA BreakTypes ==
  ASSUME TypeOK, QueueInv, NEW c \in Cons, Break(c)
  PROVE  TypeOK' /\ QueueInv'
<1>1. UNCHANGED <<listenVars, chanQueue, poolVars, conVars, monitorCons, writerVars, crossed>>
      /\ dead' \in [Cons -> BOOLEAN]
  BY DEF Break, TypeOK
<1>2. QED
  BY <1>1, OtherQueue DEF TypeOK, writerVars, listenVars, poolVars, conVars

(* The types of the pool and its queue, whatever is done.                  *)
THEOREM TypesInvariant == Spec => [](TypeOK /\ QueueInv)
<1>1. TypeOK /\ QueueInv /\ [Next]_vars => TypeOK' /\ QueueInv'
  <2> SUFFICES ASSUME TypeOK, QueueInv, [Next]_vars PROVE TypeOK' /\ QueueInv'
    OBVIOUS
  <2>1. CASE UNCHANGED vars
    BY <2>1 DEF vars, TypeOK, QueueInv, writerVars, listenVars, poolVars, conVars
  <2>2. CASE Next
    BY <2>2, ListenerTypes, AcceptTypes, LookTypes, ReceiveTypes, HandlerTypes, WriterTypes, BreakTypes
    DEF Next
  <2>3. QED
    BY <2>1, <2>2
<1>2. QED
  BY InitPool, <1>1, PTL DEF Spec

(* The state of the listener, its goroutines and the monitors is always    *)
(* well typed; the index into ChanRoutineStatus stays in its range         *)
(* (new/server_tcp.go:542-557).                                            *)
THEOREM PoolTypeCorrect == Spec => []TypeOK
BY TypesInvariant, PTL

-----------------------------------------------------------------------------
(* Goroutines of a slot, counted.                                          *)
LEMMA RoutineTypes ==
  ASSUME TypeOK, FiniteInv, NEW k \in Ids
  PROVE  look[k] \in Nat /\ wait[k] \in Nat /\ Cardinality(Has(k)) \in Nat
BY FS_CardinalityType DEF TypeOK, FiniteInv

(* The listener's claim follows from a step that keeps the slots and does  *)
(* not take a goroutine away.                                              *)
LEMMA SameSlots ==
  ASSUME TypeOK, PressureServed, UNCHANGED <<index, status>>,
         \A k \in Ids : Routines(k)' = Routines(k)
  PROVE  PressureServed'
<1>1. \A k \in 0 .. index - 1 : k \in Ids
  BY PoolAssumption DEF TypeOK, Ids, SlotIds, PoolAssumption
<1>2. -1 \in Ids
  BY DEF Ids
<1>3. QED
  BY <1>1, <1>2, Zenon DEF PressureServed

(* Steps that move no goroutine: what it has stays in its hands.           *)
LEMMA SameRoutines ==
  ASSUME TypeOK, CountInv, UNCHANGED <<look, wait, by, index, status>>,
         \A c \in Cons : stage'[c] \in Handling <=> stage[c] \in Handling
  PROVE  CountInv'
<1>1. \A k \in Ids : Has(k)' = Has(k)
  BY DEF Has
<1>2. FiniteInv'
  BY <1>1 DEF CountInv, FiniteInv
<1>3. \A k \in Ids : Routines(k)' = Routines(k)
  BY <1>1 DEF Routines
<1>4. QED
  BY <1>2, <1>3, SameSlots DEF CountInv

(* A goroutine goes round: its connection is no longer in its hands.       *)
LEMMA GoesRound ==
  ASSUME TypeOK, CountInv, NEW c \in Cons, GoRound(c), UNCHANGED <<wait, index, status>>,
         stage[c] \in Handling, stage'[c] \notin Handling,
         \A d \in Cons \ {c} : stage'[d] = stage[d]
  PROVE  CountInv'
<1>0. PICK h \in Ids : h = by[c]
  BY DEF TypeOK
<1>1. /\ by' = [by EXCEPT ![c] = -1] /\ by \in [Cons -> Ids]
      /\ look' = [look EXCEPT ![h] = @ + 1] /\ look \in [Ids -> Nat]
  BY <1>0 DEF GoRound, TypeOK
<1>2. /\ Has(h)' = Has(h) \ {c}
      /\ c \in Has(h)
      /\ \A k \in Ids \ {h} : Has(k)' = Has(k)
  BY <1>0, <1>1 DEF Has
<1>3. /\ IsFiniteSet(Has(h)')
      /\ Cardinality(Has(h)') = Cardinality(Has(h)) - 1
  BY <1>2, FS_RemoveElement DEF CountInv, FiniteInv
<1>4. FiniteInv'
  BY <1>2, <1>3 DEF CountInv, FiniteInv
<1>5. \A k \in Ids : Routines(k)' = Routines(k)
  <2> SUFFICES ASSUME NEW k \in Ids PROVE Routines(k)' = Routines(k)
    OBVIOUS
  <2>1. look[k] \in Nat /\ wait[k] \in Nat /\ Cardinality(Has(k)) \in Nat
    BY RoutineTypes DEF CountInv
  <2>2. CASE k = h
    <3>1. look'[k] = look[k] + 1 /\ wait'[k] = wait[k]
      BY <1>1, <2>2
    <3>2. Cardinality(Has(k)') = Cardinality(Has(k)) - 1
      BY <1>3, <2>2
    <3>3. QED
      BY <2>1, <3>1, <3>2 DEF Routines
  <2>3. CASE k # h
    <3>1. look'[k] = look[k] /\ wait'[k] = wait[k] /\ Has(k)' = Has(k)
      BY <1>1, <1>2, <2>3
    <3>2. QED
      BY <3>1 DEF Routines
  <2>4. QED
    BY <2>2, <2>3
<1>6. QED
  BY <1>4, <1>5, SameSlots DEF CountInv

(* A goroutine that looks goes on to wait, unless it leaves; only those of *)
(* slots that were switched off do.                                        *)
LEMMA LookCounts ==
  ASSUME TypeOK, CountInv, NEW k \in Ids, Look(k)
  PROVE  CountInv'
<1>1. /\ UNCHANGED <<stage, by, index, status>>
      /\ look[k] > 0
      /\ look' = [look EXCEPT ![k] = @ - 1]
      /\ wait' = [wait EXCEPT ![k] = IF Leaves(k) THEN @ ELSE @ + 1]
      /\ look \in [Ids -> Nat] /\ wait \in [Ids -> Nat]
  BY DEF Look, TypeOK, listenVars, conVars
<1>2. \A j \in Ids : Has(j)' = Has(j)
  BY <1>1 DEF Has
<1>3. \A j \in Ids : (j = k => ~Leaves(k)) => Routines(j)' = Routines(j)
  <2> SUFFICES ASSUME NEW j \in Ids, j = k => ~Leaves(k) PROVE Routines(j)' = Routines(j)
    OBVIOUS
  <2>1. look[j] \in Nat /\ wait[j] \in Nat /\ Cardinality(Has(j)) \in Nat
    BY RoutineTypes DEF CountInv
  <2>2. look'[j] + wait'[j] = look[j] + wait[j]
    BY <1>1, <2>1
  <2>3. Cardinality(Has(j)') = Cardinality(Has(j))
    BY <1>2
  <2>4. QED
    BY <1>1, <2>1, <2>2, <2>3 DEF Routines
<1>4. FiniteInv'
  BY <1>2 DEF CountInv, FiniteInv
<1>5. Leaves(k) => k # -1 /\ k \notin 0 .. index - 1
  BY DEF Leaves, CountInv, PressureServed
<1>6. \A j \in 0 .. index - 1 : j \in Ids
  BY PoolAssumption DEF TypeOK, Ids, SlotIds, PoolAssumption
<1>7. -1 \in Ids
  BY DEF Ids
<1>8. \A j \in (0 .. index - 1) \cup {-1} : Routines(j)' = Routines(j)
  BY <1>3, <1>5, <1>6, <1>7
<1>9. PressureServed'
  BY <1>1, <1>8, Zenon DEF CountInv, PressureServed
<1>10. QED
  BY <1>4, <1>9 DEF CountInv

(* A goroutine that waits gets a connection into its hands.                *)
LEMMA ReceiveCounts ==
  ASSUME TypeOK, QueueInv, CountInv, NEW k \in Ids, Receive(k)
  PROVE  CountInv'
<1> DEFINE c == Head(chanQueue)
<1>1. c \in Cons /\ stage[c] = "queued"
  BY ReceiveQueue
<1>2. /\ UNCHANGED <<index, status, look>>
      /\ wait[k] > 0
      /\ wait' = [wait EXCEPT ![k] = @ - 1]
      /\ by' = [by EXCEPT ![c] = k]
      /\ stage' = [stage EXCEPT ![c] = "ack"]
  BY DEF Receive, SetStage, listenVars
<1> HIDE DEF c
<1>3. by \in [Cons -> Ids] /\ wait \in [Ids -> Nat] /\ stage \in [Cons -> Stages]
  BY DEF TypeOK
<1>4. /\ Has(k)' = Has(k) \cup {c}
      /\ c \notin Has(k)
      /\ \A j \in Ids \ {k} : Has(j)' = Has(j)
  BY <1>1, <1>2, <1>3 DEF Has, Handling
<1>5. /\ IsFiniteSet(Has(k)')
      /\ Cardinality(Has(k)') = Cardinality(Has(k)) + 1
  BY <1>4, FS_AddElement DEF CountInv, FiniteInv
<1>6. FiniteInv'
  BY <1>4, <1>5 DEF CountInv, FiniteInv
<1>7. \A j \in Ids : Routines(j)' = Routines(j)
  <2> SUFFICES ASSUME NEW j \in Ids PROVE Routines(j)' = Routines(j)
    OBVIOUS
  <2>1. look[j] \in Nat /\ wait[j] \in Nat /\ Cardinality(Has(j)) \in Nat
    BY RoutineTypes DEF CountInv
  <2>2. CASE j = k
    <3>1. look'[j] = look[j] /\ wait'[j] = wait[j] - 1
      BY <1>2, <1>3, <2>2
    <3>2. Cardinality(Has(j)') = Cardinality(Has(j)) + 1
      BY <1>5, <2>2
    <3>3. QED
      BY <2>1, <3>1, <3>2 DEF Routines
  <2>3. CASE j # k
    <3>1. look'[j] = look[j] /\ wait'[j] = wait[j] /\ Has(j)' = Has(j)
      BY <1>2, <1>3, <1>4, <2>3
    <3>2. QED
      BY <3>1 DEF Routines
  <2>4. QED
    BY <2>2, <2>3
<1>8. QED
  BY <1>2, <1>6, <1>7, SameSlots DEF CountInv

(* The listener: new slots get a goroutine, and what is switched off is    *)
(* above the new index.                                                    *)
LEMMA GrowCounts ==
  ASSUME TypeOK, CountInv, Grow
  PROVE  CountInv'
<1> DEFINE new == index .. Last - 1
<1>1. /\ status' = [k \in SlotIds |-> IF k \in new THEN TRUE ELSE status[k]]
      /\ look' = [k \in Ids |-> IF k \in new THEN look[k] + 1 ELSE look[k]]
      /\ index' = Last
      /\ UNCHANGED <<wait, stage, by>>
  BY DEF Grow, conVars
<1>2. /\ index \in Nat /\ Slots \in Nat /\ num \in Nat /\ index <= Slots
      /\ Last \in index .. Slots
  BY PoolAssumption DEF TypeOK, PoolAssumption, Last
<1>3. /\ \A k \in 0 .. index' - 1 : k \in SlotIds /\ k \in Ids
      /\ \A k \in 0 .. index' - 1 : k \in new \/ k \in 0 .. index - 1
      /\ \A k \in 0 .. index - 1 : k \notin new
      /\ -1 \in Ids /\ -1 \notin new
  BY <1>1, <1>2 DEF SlotIds, Ids
<1>4. \A k \in Ids : Has(k)' = Has(k)
  BY <1>1 DEF Has
<1>5. FiniteInv'
  BY <1>4 DEF CountInv, FiniteInv
<1> HIDE DEF new
<1>6. \A k \in Ids : k \in new => Routines(k)' > 0
  <2> SUFFICES ASSUME NEW k \in Ids, k \in new PROVE Routines(k)' > 0
    OBVIOUS
  <2>1. look[k] \in Nat /\ wait[k] \in Nat /\ Cardinality(Has(k)) \in Nat
    BY RoutineTypes DEF CountInv
  <2>2. look'[k] = look[k] + 1 /\ wait'[k] = wait[k]
    BY <1>1
  <2>3. Cardinality(Has(k)') = Cardinality(Has(k))
    BY <1>4
  <2>4. QED
    BY <2>1, <2>2, <2>3 DEF Routines
<1>7. \A k \in Ids : k \notin new => Routines(k)' = Routines(k)
  <2> SUFFICES ASSUME NEW k \in Ids, k \notin new PROVE Routines(k)' = Routines(k)
    OBVIOUS
  <2>1. look'[k] = look[k] /\ wait'[k] = wait[k] /\ Has(k)' = Has(k)
    BY <1>1, <1>4
  <2>2. QED
    BY <2>1 DEF Routines
<1>8. \A k \in 0 .. index' - 1 : status'[k]
  <2> SUFFICES ASSUME NEW k \in 0 .. index' - 1 PROVE status'[k]
    OBVIOUS
  <2>1. k \in SlotIds /\ (k \in new \/ (k \notin new /\ k \in 0 .. index - 1))
    BY <1>3
  <2>2. k \in 0 .. index - 1 => status[k]
    BY DEF CountInv, PressureServed
  <2>3. QED
    BY <1>1, <2>1, <2>2, Zenon
<1>9. \A k \in 0 .. index' - 1 : Routines(k)' > 0
  <2> SUFFICES ASSUME NEW k \in 0 .. index' - 1 PROVE Routines(k)' > 0
    OBVIOUS
  <2>1. k \in Ids /\ (k \in new \/ (k \notin new /\ k \in 0 .. index - 1))
    BY <1>3
  <2>2. k \in 0 .. index - 1 => Routines(k) > 0
    BY DEF CountInv, PressureServed
  <2>3. QED
    BY <1>6, <1>7, <2>1, <2>2
<1>10. Routines(-1)' = Fixed
  BY <1>3, <1>7 DEF CountInv, PressureServed
<1>11. PressureServed'
  BY <1>8, <1>9, <1>10, Zenon DEF PressureServed
<1>12. QED
  BY <1>5, <1>11 DEF CountInv

LEMMA SampleCounts ==
  ASSUME TypeOK, CountInv, Sample
  PROVE  CountInv'
<1>1. UNCHANGED <<look, wait, stage, by>>
  BY DEF Sample, conVars
<1>2. \A k \in Ids : Has(k)' = Has(k) /\ Routines(k)' = Routines(k)
  BY <1>1 DEF Has, Routines
<1>3. FiniteInv'
  BY <1>2 DEF CountInv, FiniteInv
<1>4. CASE UNCHANGED <<status, index>>
  BY <1>2, <1>3, <1>4, SameSlots DEF CountInv
<1>5. CASE /\ index > num + 1
           /\ status' = [k \in SlotIds |-> IF k \in Surplus THEN FALSE ELSE status[k]]
           /\ index' = num + 1
  <2>1. index \in Nat /\ num \in Nat /\ Slots \in Nat /\ index <= Slots
    BY PoolAssumption DEF TypeOK, PoolAssumption
  <2>2. /\ \A k \in 0 .. index' - 1 :
             k \in SlotIds /\ k \in Ids /\ k \notin Surplus /\ k \in 0 .. index - 1
        /\ -1 \in Ids
    BY <1>5, <2>1 DEF Surplus, SlotIds, Ids
  <2>3. \A k \in 0 .. index - 1 : status[k] /\ Routines(k) > 0
    BY DEF CountInv, PressureServed
  <2>4. \A k \in 0 .. index' - 1 : status'[k]
    BY <1>5, <2>2, <2>3, Zenon
  <2>5. \A k \in 0 .. index' - 1 : Routines(k)' > 0
    BY <1>2, <2>2, <2>3
  <2>6. Routines(-1)' = Fixed
    BY <1>2, <2>2 DEF CountInv, PressureServed
  <2>7. PressureServed'
    BY <2>4, <2>5, <2>6, Zenon DEF PressureServed
  <2>8. QED
    BY <1>3, <2>7 DEF CountInv
<1>6. QED
  BY <1>4, <1>5 DEF Sample

(* A goroutine's steps with its connection.                                *)
LEMMA HandlerCounts ==
  ASSUME TypeOK, CountInv, NEW c \in Cons, HandlerStep(c)
  PROVE  CountInv'
<1> USE DEF SetStage, listenVars, poolVars
<1>1. stage \in [Cons -> Stages]
  BY DEF TypeOK
<1>2. CASE stage'[c] \notin Handling
  <2>1. GoRound(c) /\ UNCHANGED <<wait, index, status>> /\ stage[c] \in Handling
    BY <1>1, <1>2
    DEF HandlerStep, Acknowledge, StoreMonitor, FindMonitor, DeleteMonitor, CloseSelf, CloseOther, Handling
  <2>2. \A d \in Cons \ {c} : stage'[d] = stage[d]
    BY <1>1
    DEF HandlerStep, Acknowledge, StoreMonitor, FindMonitor, DeleteMonitor, CloseSelf, CloseOther
  <2>3. QED
    BY <1>2, <2>1, <2>2, GoesRound
<1>3. CASE stage'[c] \in Handling
  <2>1. UNCHANGED <<look, wait, by, index, status>>
    BY <1>1, <1>3
    DEF HandlerStep, Acknowledge, StoreMonitor, FindMonitor, DeleteMonitor, CloseSelf, CloseOther, Handling
  <2>2. \A d \in Cons : stage'[d] \in Handling <=> stage[d] \in Handling
    BY <1>1, <1>3
    DEF HandlerStep, Acknowledge, StoreMonitor, FindMonitor, DeleteMonitor, CloseSelf, CloseOther, Handling
  <2>3. QED
    BY <2>1, <2>2, SameRoutines
<1>4. QED
  BY <1>2, <1>3

(* Every step keeps the count.                                             *)
LEMMA NextCounts ==
  ASSUME TypeOK, QueueInv, CountInv, [Next]_vars
  PROVE  CountInv'
<1> USE DEF listenVars, poolVars, conVars, writerVars
<1>1. CASE Count
  BY <1>1, SameRoutines DEF Count
<1>2. CASE \E c \in Cons : Accept(c)
  <2>1. PICK c \in Cons : Accept(c)
    BY <1>2
  <2>2. UNCHANGED <<look, wait, by, index, status>>
    BY <2>1 DEF Accept
  <2>3. \A d \in Cons : stage'[d] \in Handling <=> stage[d] \in Handling
    BY <2>1 DEF Accept, SetStage, TypeOK, Handling
  <2>4. QED
    BY <2>2, <2>3, SameRoutines
<1>3. CASE \E c \in Cons : Break(c)
  BY <1>3, SameRoutines DEF Break
<1>4. CASE \E w \in Writers : WriterStep(w) \/ \E s \in Serials : LoadMonitor(w, s)
  <2>1. UNCHANGED <<look, wait, by, index, status, stage>>
    BY <1>4 DEF WriterStep, WriteMonitor, LoadAgain, CloseMonitor, RemoveMonitor, LoadMonitor
  <2>2. QED
    BY <2>1, SameRoutines
<1>5. CASE UNCHANGED vars
  <2>1. UNCHANGED <<look, wait, by, index, status, stage>>
    BY <1>5 DEF vars
  <2>2. QED
    BY <2>1, SameRoutines
<1>6. QED
  BY <1>1, <1>2, <1>3, <1>4, <1>5, GrowCounts, SampleCounts, LookCounts, ReceiveCounts, HandlerCounts
  DEF Next, ListenerStep

LEMMA InitCounts == Init => CountInv
<1> SUFFICES ASSUME Init PROVE CountInv
  OBVIOUS
<1>1. \A k \in Ids : Has(k) = {}
  BY DEF Init, Has, Handling
<1>2. /\ FiniteInv
      /\ \A k \in Ids : Cardinality(Has(k)) = 0
  BY <1>1, FS_EmptySet DEF FiniteInv
<1>3. -1 \in Ids /\ look[-1] = Fixed /\ wait[-1] = 0 /\ index = 0
  BY DEF Init, Ids
<1>4. Routines(-1) = Fixed
  BY <1>2, <1>3, PoolAssumption DEF Routines, PoolAssumption
<1>5. QED
  BY <1>2, <1>3, <1>4 DEF CountInv, PressureServed

(* As many goroutines take connections as the listener believes to have    *)
(* started, whatever slots are switched off and on again before their      *)
(* goroutines look at them (new/server_tcp.go:505-515, 530-568).           *)
THEOREM ListenerCountsRight == Spec => []PressureServed
<1>1. CountInv => PressureServed
  BY DEF CountInv
<1>2. TypeOK /\ QueueInv /\ CountInv /\ [Next]_vars => CountInv'
  BY NextCounts
<1>3. QED
  BY InitCounts, <1>1, <1>2, TypesInvariant, PTL DEF Spec

-----------------------------------------------------------------------------
(* The stages before a connection is entered anywhere.                     *)
Entering == {"new", "queued", "ack", "store"}

(* What the type invariant says of the variables of the monitors.          *)
LEMMA MonitorTypes ==
  ASSUME TypeOK
  PROVE  /\ stage \in [Cons -> Stages]
         /\ found \in [Cons -> Cons \cup {Nil}]
         /\ monitorCons \in [Serials -> Cons \cup {Nil}]
         /\ serial \in [Writers -> Serials] /\ seen \in [Writers -> Cons \cup {Nil}]
         /\ SerialOf \in [Cons -> Serials]
         /\ \A c \in Cons : stage[c] \in {"delete", "closeself", "closeother"} => found[c] \in Cons
         /\ \A w \in Writers : writer[w] \in {"write", "close"} => seen[w] \in Cons
         /\ Nil \notin Cons
BY PoolAssumption DEF TypeOK, PoolAssumption

(* A connection is closed.                                                 *)
LEMMA Closed ==
  ASSUME TypeOK, NEW x \in Cons, open' = [open EXCEPT ![x] = FALSE]
  PROVE  \A d \in Cons : open'[d] <=> (d # x /\ open[d])
<1>1. open \in [Cons -> BOOLEAN]
  BY DEF TypeOK
<1>2. QED
  BY <1>1

(* A writer goes on.                                                       *)
LEMMA WriterGoes ==
  ASSUME TypeOK, NEW w \in Writers, NEW s, SetWriter(w, s)
  PROVE  writer'[w] = s /\ \A v \in Writers \ {w} : writer'[v] = writer[v]
BY DEF TypeOK, SetWriter

(* Steps that neither enter a monitor nor close or delete one.             *)
LEMMA QuietSteps ==
  ASSUME TypeOK, MonitorInv, UNCHANGED <<found, monitorCons, writerVars, crossed>>,
         \A d \in Cons :
           \/ stage'[d] = stage[d] /\ open'[d] = open[d]
           \/ stage[d] \in Entering /\ stage'[d] \in Entering /\ open'[d] = open[d]
           \/ stage[d] \in Entering /\ stage'[d] \in {"device", "refused"}
           \/ stage[d] = "closeself" /\ stage'[d] = "closeother"
  PROVE  MonitorInv'
<1> USE DEF writerVars, Entering
<1>0. \A d \in Cons :
        /\ stage[d] = "monitor" <=> stage'[d] = "monitor"
        /\ stage[d] = "monitor" => open'[d] = open[d]
        /\ stage[d] = "delete" <=> stage'[d] = "delete"
        /\ stage[d] \in {"closeself", "closeother"} <=> stage'[d] \in {"closeself", "closeother"}
        /\ stage'[d] \in Entering => stage[d] \in Entering /\ open'[d] = open[d]
  OBVIOUS
<1>1. OwnInv'
  BY <1>0, MonitorTypes DEF MonitorInv, OwnInv, IsMonitor
<1>2. FreshInv'
  BY <1>0 DEF MonitorInv, FreshInv
<1>3. \A s \in Serials :
        monitorCons[s] # Nil => monitorCons[s] \in Cons /\ open'[monitorCons[s]] = open[monitorCons[s]]
  BY <1>0, MonitorTypes DEF MonitorInv, OwnInv, IsMonitor
<1>4. ClosedIsLeaving'
  BY <1>3 DEF MonitorInv, ClosedIsLeaving
<1>5. DeleteInv'
  BY <1>0, <1>3, MonitorTypes DEF MonitorInv, DeleteInv
<1>6. MonitorGetsCopies'
  BY <1>0 DEF MonitorInv, MonitorGetsCopies
<1>7. QED
  BY <1>1, <1>2, <1>4, <1>5, <1>6 DEF MonitorInv

(* A monitor is entered.  Whoever is about to delete the serial's entry is *)
(* remembered in crossed.                                                  *)
LEMMA StoreKeeps ==
  ASSUME TypeOK, MonitorInv, NEW c \in Cons, StoreMonitor(c)
  PROVE  MonitorInv'
<1> DEFINE s == SerialOf[c]
<1>0. /\ stage[c] = "store" /\ monitorCons[s] = Nil /\ s \in Serials
      /\ monitorCons' = [monitorCons EXCEPT ![s] = c]
      /\ crossed' = IF Deleting(s) THEN crossed \cup {s} ELSE crossed
      /\ stage' = [stage EXCEPT ![c] = "monitor"]
      /\ UNCHANGED <<open, found, writer, serial, seen>>
  BY MonitorTypes DEF StoreMonitor, SetStage, writerVars
<1>1. /\ monitorCons'[s] = c
      /\ \A r \in Serials \ {s} : monitorCons'[r] = monitorCons[r]
      /\ stage'[c] = "monitor" /\ open'[c]
      /\ \A d \in Cons \ {c} : stage'[d] = stage[d]
  BY <1>0, MonitorTypes DEF MonitorInv, FreshInv
<1> HIDE DEF s
<1>2. \A d \in Cons : stage[d] = "monitor" => d # c /\ stage'[d] = "monitor"
  BY <1>0, <1>1
<1>3. OwnInv'
  BY <1>0, <1>1, <1>2, MonitorTypes DEF MonitorInv, OwnInv, IsMonitor, s
<1>4. \A d \in Cons : found[d] # c
  BY <1>0, MonitorTypes DEF MonitorInv, OwnInv, IsMonitor
<1>5. FreshInv'
  BY <1>0, <1>1, <1>4, MonitorTypes DEF MonitorInv, FreshInv
<1>6. ClosedIsLeaving'
  BY <1>0, <1>1, MonitorTypes DEF MonitorInv, ClosedIsLeaving
<1>7. DeleteInv'
  <2>1. /\ \A d \in Cons : SerialOf[d] = s /\ stage'[d] = "delete" => s \in crossed'
        /\ \A w \in Writers : serial[w] = s /\ writer[w] \in {"close", "delete"} => s \in crossed'
        /\ \A r \in Serials : r \notin crossed' => r \notin crossed
    BY <1>0, <1>1 DEF Deleting
  <2>2. QED
    BY <1>0, <1>1, <2>1, MonitorTypes DEF MonitorInv, DeleteInv
<1>8. MonitorGetsCopies'
  <2> SUFFICES ASSUME NEW m \in Cons, stage'[m] = "monitor", open'[m], SerialOf[m] \notin crossed'
               PROVE  \/ monitorCons'[SerialOf[m]] = m
                      \/ \E d \in Cons : found'[d] = m /\ stage'[d] \in {"closeself", "closeother"}
    BY DEF MonitorGetsCopies
  <2>1. CASE m = c
    BY <1>1, <2>1 DEF s
  <2>2. CASE m # c
    <3>1. stage[m] = "monitor" /\ open[m] /\ SerialOf[m] \notin crossed
      BY <1>0, <1>1, <2>2
    <3>2. \/ monitorCons[SerialOf[m]] = m
          \/ \E d \in Cons : found[d] = m /\ stage[d] \in {"closeself", "closeother"}
      BY <3>1 DEF MonitorInv, MonitorGetsCopies
    <3>3. CASE monitorCons[SerialOf[m]] = m
      BY <1>0, <1>1, <3>3, MonitorTypes
    <3>4. CASE \E d \in Cons : found[d] = m /\ stage[d] \in {"closeself", "closeother"}
      BY <1>0, <1>1, <3>4
    <3>5. QED
      BY <3>2, <3>3, <3>4
  <2>3. QED
    BY <2>1, <2>2
<1>9. QED
  BY <1>3, <1>5, <1>6, <1>7, <1>8 DEF MonitorInv

(* A newcomer finds another monitor.                                       *)
LEMMA FindKeeps ==
  ASSUME TypeOK, MonitorInv, NEW c \in Cons, FindMonitor(c)
  PROVE  MonitorInv'
<1>1. /\ stage[c] = "store"
      /\ stage' = [stage EXCEPT ![c] = "delete"]
      /\ found' = [found EXCEPT ![c] = monitorCons[SerialOf[c]]]
      /\ UNCHANGED <<open, monitorCons, writer, serial, seen, crossed>>
  BY DEF FindMonitor, SetStage, writerVars
<1>2. /\ stage'[c] = "delete" /\ found'[c] = monitorCons[SerialOf[c]]
      /\ \A d \in Cons \ {c} : stage'[d] = stage[d] /\ found'[d] = found[d]
  BY <1>1, MonitorTypes
<1>3. OwnInv'
  BY <1>1, <1>2, MonitorTypes DEF MonitorInv, OwnInv, IsMonitor
<1>4. FreshInv' /\ ClosedIsLeaving' /\ DeleteInv'
  BY <1>1, <1>2 DEF MonitorInv, FreshInv, ClosedIsLeaving, DeleteInv
<1>5. MonitorGetsCopies'
  BY <1>1, <1>2 DEF MonitorInv, MonitorGetsCopies
<1>6. QED
  BY <1>3, <1>4, <1>5 DEF MonitorInv

(* It deletes the entry, and is about to close itself and the other.       *)
LEMMA DeleteKeeps ==
  ASSUME TypeOK, MonitorInv, NEW c \in Cons, DeleteMonitor(c)
  PROVE  MonitorInv'
<1> DEFINE s == SerialOf[c]
<1>1. /\ stage[c] = "delete" /\ s \in Serials
      /\ stage' = [stage EXCEPT ![c] = "closeself"]
      /\ monitorCons' = [monitorCons EXCEPT ![s] = Nil]
      /\ UNCHANGED <<open, found, writer, serial, seen, crossed>>
  BY MonitorTypes DEF DeleteMonitor, Without, SetStage, writerVars
<1>2. /\ stage'[c] = "closeself" /\ monitorCons'[s] = Nil /\ found[c] \in Cons
      /\ \A d \in Cons \ {c} : stage'[d] = stage[d]
      /\ \A r \in Serials : monitorCons'[r] \in {Nil, monitorCons[r]}
      /\ \A r \in Serials \ {s} : monitorCons'[r] = monitorCons[r]
  BY <1>1, MonitorTypes
<1> HIDE DEF s
<1>3. OwnInv'
  BY <1>1, <1>2, MonitorTypes DEF MonitorInv, OwnInv, IsMonitor
<1>4. FreshInv'
  BY <1>1, <1>2, MonitorTypes DEF MonitorInv, FreshInv, s
<1>5. ClosedIsLeaving'
  BY <1>1, <1>2 DEF MonitorInv, ClosedIsLeaving
<1>6. DeleteInv'
  BY <1>1, <1>2, MonitorTypes DEF MonitorInv, DeleteInv
<1>7. MonitorGetsCopies'
  <2> SUFFICES ASSUME NEW m \in Cons, stage'[m] = "monitor", open'[m], SerialOf[m] \notin crossed'
               PROVE  \/ monitorCons'[SerialOf[m]] = m
                      \/ \E d \in Cons : found'[d] = m /\ stage'[d] \in {"closeself", "closeother"}
    BY DEF MonitorGetsCopies
  <2>1. stage[m] = "monitor" /\ open[m] /\ SerialOf[m] \notin crossed
    BY <1>1, <1>2
  <2>2. \/ monitorCons[SerialOf[m]] = m
        \/ \E d \in Cons : found[d] = m /\ stage[d] \in {"closeself", "closeother"}
    BY <2>1 DEF MonitorInv, MonitorGetsCopies
  <2>3. CASE \E d \in Cons : found[d] = m /\ stage[d] \in {"closeself", "closeother"}
    BY <1>1, <1>2, <2>3
  <2>4. CASE monitorCons[SerialOf[m]] = m /\ SerialOf[m] # s
    BY <1>2, <2>4, MonitorTypes
  <2>5. CASE monitorCons[SerialOf[m]] = m /\ SerialOf[m] = s
    <3>1. found[c] = m
      BY <1>1, <2>1, <2>5, MonitorTypes DEF MonitorInv, DeleteInv, s
    <3>2. QED
      BY <1>1, <1>2, <3>1
  <2>6. QED
    BY <2>2, <2>3, <2>4, <2>5
<1>8. QED
  BY <1>3, <1>4, <1>5, <1>6, <1>7 DEF MonitorInv

(* It closes the other, which is not in the map any more.                  *)
LEMMA CloseOtherKeeps ==
  ASSUME TypeOK, MonitorInv, NEW c \in Cons, CloseOther(c)
  PROVE  MonitorInv'
<1> DEFINE x == found[c]
<1>1. /\ stage[c] = "closeother" /\ x \in Cons /\ IsMonitor(x, SerialOf[c])
      /\ stage' = [stage EXCEPT ![c] = "thrownout"]
      /\ open' = [open EXCEPT ![x] = FALSE]
      /\ found' = [found EXCEPT ![c] = Nil]
      /\ UNCHANGED <<monitorCons, writer, serial, seen, crossed>>
  BY MonitorTypes DEF CloseOther, Other, SetStage, writerVars, MonitorInv, OwnInv
<1>2. /\ stage'[c] = "thrownout" /\ found'[c] = Nil
      /\ \A d \in Cons \ {c} : stage'[d] = stage[d] /\ found'[d] = found[d]
  BY <1>1, MonitorTypes
<1>3. \A s \in Serials : monitorCons[s] # x
  BY <1>1, MonitorTypes DEF MonitorInv, FreshInv, OwnInv, IsMonitor
<1> HIDE DEF x
<1>4. \A d \in Cons : open'[d] <=> (d # x /\ open[d])
  BY <1>1, Closed
<1>5. OwnInv'
  BY <1>1, <1>2, MonitorTypes DEF MonitorInv, OwnInv, IsMonitor
<1>6. FreshInv'
  BY <1>1, <1>2, <1>4 DEF MonitorInv, FreshInv, IsMonitor
<1>7. ClosedIsLeaving'
  BY <1>1, <1>3, <1>4, MonitorTypes DEF MonitorInv, ClosedIsLeaving
<1>8. DeleteInv'
  BY <1>1, <1>2, <1>3, <1>4, MonitorTypes DEF MonitorInv, DeleteInv
<1>9. MonitorGetsCopies'
  BY <1>1, <1>2, <1>4 DEF MonitorInv, MonitorGetsCopies, x
<1>10. QED
  BY <1>5, <1>6, <1>7, <1>8, <1>9 DEF MonitorInv

(* A writer loads a monitor, once or again, or writes to it.               *)
LEMMA LoadKeeps ==
  ASSUME TypeOK, MonitorInv, NEW w \in Writers,
         (\E s \in Serials : LoadMonitor(w, s)) \/ WriteMonitor(w) \/ LoadAgain(w)
  PROVE  MonitorInv'
<1>1. /\ UNCHANGED <<stage, open, found, monitorCons, crossed>>
      /\ \A v \in Writers \ {w} :
           writer'[v] = writer[v] /\ serial'[v] = serial[v] /\ seen'[v] = seen[v]
  BY WriterGoes, MonitorTypes DEF LoadMonitor, WriteMonitor, LoadAgain, conVars
<1>2. writer[w] # "delete"
  BY DEF LoadMonitor, WriteMonitor, LoadAgain
<1>3. /\ writer'[w] \in {"close", "delete"} => LoadAgain(w)
      /\ \/ seen'[w] = monitorCons[serial'[w]]
         \/ (seen'[w] \in {Nil, seen[w]} /\ serial'[w] = serial[w])
  BY WriterGoes, MonitorTypes DEF LoadMonitor, WriteMonitor, LoadAgain
<1>4. OwnInv'
  <2>1. \A v \in Writers : serial'[v] \in Serials
    BY MonitorTypes DEF LoadMonitor, WriteMonitor, LoadAgain
  <2>2. QED
    BY <1>1, <1>3, <2>1, MonitorTypes DEF MonitorInv, OwnInv, IsMonitor
<1>5. FreshInv' /\ MonitorGetsCopies'
  BY <1>1 DEF MonitorInv, FreshInv, MonitorGetsCopies
<1>6. ClosedIsLeaving'
  BY <1>1, <1>2 DEF MonitorInv, ClosedIsLeaving
<1>7. LoadAgain(w) =>
        /\ serial' = serial
        /\ writer'[w] = "close" => monitorCons[serial[w]] = seen'[w]
        /\ writer'[w] = "delete" => monitorCons[serial[w]] = Nil
  BY WriterGoes, MonitorTypes DEF LoadAgain
<1>8. DeleteInv'
  BY <1>1, <1>3, <1>7 DEF MonitorInv, DeleteInv
<1>9. QED
  BY <1>4, <1>5, <1>6, <1>8 DEF MonitorInv

(* It closes the monitor it loaded last.                                   *)
LEMMA CloseMonitorKeeps ==
  ASSUME TypeOK, MonitorInv, NEW w \in Writers, CloseMonitor(w)
  PROVE  MonitorInv'
<1> DEFINE x == seen[w]
<1>1. /\ writer[w] = "close" /\ x \in Cons /\ IsMonitor(x, serial[w])
      /\ open' = [open EXCEPT ![x] = FALSE]
      /\ UNCHANGED <<stage, found, monitorCons, serial, seen, crossed>>
  BY MonitorTypes DEF CloseMonitor, MonitorInv, OwnInv
<1> HIDE DEF x
<1>2. /\ writer'[w] = "delete"
      /\ \A v \in Writers \ {w} : writer'[v] = writer[v]
  BY WriterGoes DEF CloseMonitor
<1>3. \A d \in Cons : open'[d] <=> (d # x /\ open[d])
  BY <1>1, Closed
<1>4. OwnInv' /\ FreshInv'
  BY <1>1, <1>3 DEF MonitorInv, OwnInv, FreshInv, IsMonitor
<1>5. \A s \in Serials : monitorCons[s] = x => s = serial[w]
  BY <1>1, MonitorTypes DEF MonitorInv, OwnInv, IsMonitor
<1>6. ClosedIsLeaving'
  BY <1>1, <1>2, <1>3, <1>5, MonitorTypes DEF MonitorInv, ClosedIsLeaving
<1>7. DeleteInv'
  <2>1. serial[w] \notin crossed => monitorCons[serial[w]] \in {Nil, x}
    BY <1>1 DEF MonitorInv, DeleteInv, x
  <2>2. QED
    BY <1>1, <1>2, <1>3, <2>1, MonitorTypes DEF MonitorInv, DeleteInv
<1>8. MonitorGetsCopies'
  BY <1>1, <1>3 DEF MonitorInv, MonitorGetsCopies
<1>9. QED
  BY <1>4, <1>6, <1>7, <1>8 DEF MonitorInv

(* It deletes by serial.                                                   *)
LEMMA RemoveKeeps ==
  ASSUME TypeOK, MonitorInv, NEW w \in Writers, RemoveMonitor(w)
  PROVE  MonitorInv'
<1> DEFINE s == serial[w]
<1>1. /\ writer[w] = "delete" /\ s \in Serials
      /\ monitorCons' = [monitorCons EXCEPT ![s] = Nil]
      /\ seen' = [seen EXCEPT ![w] = Nil]
      /\ UNCHANGED <<stage, open, found, serial, crossed>>
  BY MonitorTypes DEF RemoveMonitor, Without, conVars
<1>2. /\ writer'[w] = "idle" /\ seen'[w] = Nil /\ monitorCons'[s] = Nil
      /\ \A v \in Writers \ {w} : writer'[v] = writer[v] /\ seen'[v] = seen[v]
      /\ \A r \in Serials \ {s} : monitorCons'[r] = monitorCons[r]
  BY <1>1, WriterGoes, MonitorTypes DEF RemoveMonitor
<1> HIDE DEF s
<1>3. OwnInv'
  BY <1>1, <1>2, MonitorTypes DEF MonitorInv, OwnInv, IsMonitor
<1>4. FreshInv'
  BY <1>1, <1>2, MonitorTypes DEF MonitorInv, FreshInv
<1>5. ClosedIsLeaving'
  BY <1>1, <1>2 DEF MonitorInv, ClosedIsLeaving, s
<1>6. DeleteInv'
  BY <1>1, <1>2, MonitorTypes DEF MonitorInv, DeleteInv
<1>7. MonitorGetsCopies'
  BY <1>1, <1>2, MonitorTypes DEF MonitorInv, MonitorGetsCopies, DeleteInv, s
<1>8. QED
  BY <1>3, <1>4, <1>5, <1>6, <1>7 DEF MonitorInv

(* Every step keeps the invariant of the monitors.                         *)
LEMMA NextKeepsMonitors ==
  ASSUME TypeOK, QueueInv, MonitorInv, [Next]_vars
  PROVE  MonitorInv'
<1> USE DEF listenVars, poolVars, conVars, writerVars, Entering
<1>1. CASE ListenerStep \/ (\E k \in Ids : Look(k)) \/ (\E c \in Cons : Break(c)) \/ UNCHANGED vars
  <2>1. UNCHANGED <<stage, open, found, monitorCons, writerVars, crossed>>
    BY <1>1 DEF ListenerStep, Count, Grow, Sample, Look, Break, vars
  <2>2. QED
    BY <2>1, QuietSteps
<1>2. CASE \E k \in Ids : Receive(k)
  <2>1. PICK k \in Ids : Receive(k)
    BY <1>2
  <2>2. Head(chanQueue) \in Cons /\ stage[Head(chanQueue)] = "queued"
    BY <2>1, ReceiveQueue
  <2>3. /\ UNCHANGED <<open, found, monitorCons, writerVars, crossed>>
        /\ stage' = [stage EXCEPT ![Head(chanQueue)] = "ack"]
    BY <2>1 DEF Receive, SetStage
  <2>4. \A d \in Cons :
          \/ stage'[d] = stage[d]
          \/ stage[d] \in Entering /\ stage'[d] \in Entering
    BY <2>2, <2>3, MonitorTypes
  <2>5. QED
    BY <2>3, <2>4, QuietSteps
<1>3. CASE \E c \in Cons : Accept(c) \/ Acknowledge(c) \/ CloseSelf(c)
  <2>1. PICK c \in Cons : Accept(c) \/ Acknowledge(c) \/ CloseSelf(c)
    BY <1>3
  <2>2. UNCHANGED <<found, monitorCons, writerVars, crossed>>
    BY <2>1 DEF Accept, Acknowledge, CloseSelf
  <2>3. \/ stage[c] = "new" /\ stage'[c] = "queued" /\ open' = open
        \/ stage[c] = "ack" /\ stage'[c] = "store" /\ open' = open
        \/ stage[c] = "ack" /\ stage'[c] \in {"device", "refused"}
        \/ stage[c] = "closeself" /\ stage'[c] = "closeother"
    <3>1. CASE Accept(c)
      BY <3>1, MonitorTypes DEF Accept, SetStage
    <3>2. CASE Acknowledge(c)
      BY <3>2, MonitorTypes DEF Acknowledge, SetStage
    <3>3. CASE CloseSelf(c)
      BY <3>3, MonitorTypes DEF CloseSelf, SetStage
    <3>4. QED
      BY <2>1, <3>1, <3>2, <3>3
  <2>4. \A d \in Cons \ {c} : stage'[d] = stage[d] /\ open'[d] = open[d]
    <3>1. open' = open \/ open' = [open EXCEPT ![c] = FALSE]
      BY <2>1 DEF Accept, Acknowledge, CloseSelf
    <3>2. \A d \in Cons \ {c} : open'[d] = open[d]
      BY <3>1 DEF TypeOK
    <3>3. \A d \in Cons \ {c} : stage'[d] = stage[d]
      BY <2>1, MonitorTypes DEF Accept, Acknowledge, CloseSelf, SetStage
    <3>4. QED
      BY <3>2, <3>3
  <2>5. \A d \in Cons :
          \/ stage'[d] = stage[d] /\ open'[d] = open[d]
          \/ stage[d] \in Entering /\ stage'[d] \in Entering /\ open'[d] = open[d]
          \/ stage[d] \in Entering /\ stage'[d] \in {"device", "refused"}
          \/ stage[d] = "closeself" /\ stage'[d] = "closeother"
    BY <2>3, <2>4
  <2>6. QED
    BY <2>2, <2>5, QuietSteps
<1>4. QED
  BY <1>1, <1>2, <1>3, StoreKeeps, FindKeeps, DeleteKeeps, CloseOtherKeeps, LoadKeeps,
     CloseMonitorKeeps, RemoveKeeps
  DEF Next, HandlerStep, WriterStep

LEMMA InitMonitors == Init => MonitorInv
<1> SUFFICES ASSUME Init PROVE MonitorInv
  OBVIOUS
<1>1. /\ \A s \in Serials : monitorCons[s] = Nil
      /\ \A c \in Cons : found[c] = Nil /\ stage[c] = "new" /\ open[c]
      /\ \A w \in Writers : seen[w] = Nil /\ writer[w] = "idle"
  BY DEF Init
<1>2. QED
  BY <1>1
  DEF MonitorInv, OwnInv, FreshInv, ClosedIsLeaving, DeleteInv, MonitorGetsCopies

THEOREM MonitorInvariant == Spec => []MonitorInv
<1>1. TypeOK /\ QueueInv /\ MonitorInv /\ [Next]_vars => MonitorInv'
  BY NextKeepsMonitors
<1>2. QED
  BY InitMonitors, <1>1, TypesInvariant, PTL DEF Spec

(* An open monitor gets the copies of its serial, unless it is being       *)
(* thrown out or came while an older one was removed by serial             *)
(* (new/server_tcp.go:112-159).                                            *)
THEOREM OpenMonitorGetsCopies == Spec => []MonitorGetsCopies
<1>1. MonitorInv => MonitorGetsCopies
  BY DEF MonitorInv
<1>2. QED
  BY <1>1, MonitorInvariant, PTL

(* A closed monitor keeps no place in MonitorCons, whoever closes it and   *)
(* whoever else finds it there in the meantime (new/server_tcp.go:112-159).*)
THEOREM ClosedMonitorLeaves == Spec => []ClosedIsLeaving
<1>1. MonitorInv => ClosedIsLeaving
  BY DEF MonitorInv
<1>2. QED
  BY <1>1, MonitorInvariant, PTL
=============================================================================
