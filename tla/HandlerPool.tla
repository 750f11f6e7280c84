---------------------------- MODULE HandlerPool -----------------------------
(***************************************************************************)
(* The goroutines of new/server_tcp.go that receive new connections, and   *)
(* what they do with a monitor (a connection that is sent a copy of what a *)
(* serial is sent).                                                        *)
(*                                                                         *)
(* StartListen puts each connection into ChanQueue.  Five goroutines       *)
(* (handle_id -1) always take from it.  For each hundred that wait, the    *)
(* listener starts one more, in the next slot of ChanRoutineStatus, and    *)
(* every 30 seconds it switches off the slots it no longer needs.  A       *)
(* goroutine looks at its slot before it waits for a connection, so one    *)
(* that waits takes one more connection before it leaves; in the meantime  *)
(* the slot may have been given to another goroutine.                      *)
(*                                                                         *)
(* MonitorCons has one connection for each serial.  A second one throws    *)
(* out both.  Whoever writes to the serial writes to the monitor too, and  *)
(* removes it by serial when that fails.                                   *)
(*                                                                         *)
(* What happens to the connection of a device is the subject of TcpServer. *)
(* The listener sets flags that only the goroutines of one slot look at,   *)
(* so each of its loops is one step.                                       *)
(***************************************************************************)
EXTENDS Integers, Sequences, FiniteSets

CONSTANTS
  Cons,      \* connections, each used once
  Serials,   \* the serials of devices
  SerialOf,  \* the serial each connection comes with
  Writers,   \* the goroutines that write to devices
  Fixed,     \* 5 in the code
  Slots,     \* 100 in the code: the length of ChanRoutineStatus
  Burst,     \* 100 in the code
  QueueCap,  \* con_queue_pool_size
  Nil

ASSUME PoolAssumption ==
  /\ Serials # {} /\ SerialOf \in [Cons -> Serials]
  /\ Fixed \in Nat /\ Slots \in Nat
  /\ Burst \in Nat \ {0} /\ QueueCap \in Nat \ {0}
  /\ Nil \notin Cons

VARIABLES
  listener,   \* what StartListen does next
  num,        \* its local num
  index,      \* its local index
  chanQueue,  \* ChanQueue
  status,     \* ChanRoutineStatus
  look,       \* goroutines by handle_id that will look at their slot
  wait,       \* goroutines by handle_id blocked in <-t.ChanQueue
  stage,      \* what is done next with each connection
  by,         \* the handle_id of the goroutine that has it
  open,       \* WrapConn not closed
  dead,       \* the peer or the network is gone
  found,      \* v of addMontitor
  monitorCons,  \* MonitorCons
  writer,     \* what each writer does next about a monitor
  serial,     \* the serial it writes to
  seen,       \* the monitor it has loaded
  crossed     \* (history) see StoreMonitor

listenVars == <<listener, num, index>>
poolVars == <<status, look, wait>>
conVars == <<stage, by, open, found>>
writerVars == <<writer, serial, seen>>
vars == <<listenVars, chanQueue, poolVars, conVars, dead, monitorCons, writerVars, crossed>>

SlotIds == 0 .. Slots - 1
Ids == SlotIds \cup {-1}

SetStage(c, s) == stage' = [stage EXCEPT ![c] = s]
SetWriter(w, s) == writer' = [writer EXCEPT ![w] = s]

Init ==
  /\ listener = "accept" /\ num = 0 /\ index = 0
  /\ chanQueue = <<>>
  /\ status = [k \in SlotIds |-> FALSE]
  /\ look = [k \in Ids |-> IF k = -1 THEN Fixed ELSE 0]
  /\ wait = [k \in Ids |-> 0]
  /\ stage = [c \in Cons |-> "new"]
  /\ by = [c \in Cons |-> -1]
  /\ open = [c \in Cons |-> TRUE]
  /\ dead = [c \in Cons |-> FALSE]
  /\ found = [c \in Cons |-> Nil]
  /\ monitorCons = [s \in Serials |-> Nil]
  /\ writer = [w \in Writers |-> "idle"]
  /\ serial = [w \in Writers |-> CHOOSE s \in Serials : TRUE]
  /\ seen = [w \in Writers |-> Nil]
  /\ crossed = {}

-----------------------------------------------------------------------------
(* StartListen: Accept, and into the queue, which may have to wait.        *)
Accept(c) ==
  /\ listener = "accept"
  /\ stage[c] = "new"
  /\ Len(chanQueue) < QueueCap
  /\ chanQueue' = Append(chanQueue, c)
  /\ SetStage(c, "queued")
  /\ listener' = "count"
  /\ UNCHANGED <<num, index, poolVars, by, open, found, dead, monitorCons, writerVars, crossed>>

(* num = len(t.ChanQueue) / 100                                            *)
Count ==
  /\ listener = "count"
  /\ num' = Len(chanQueue) \div Burst
  /\ listener' = "grow"
  /\ UNCHANGED <<index, chanQueue, poolVars, conVars, dead, monitorCons, writerVars, crossed>>

(* Mutated form of Last: without index < 100.                              *)
Unbounded == index + num

(* The index at which for j := 0; j < num && index < 100; j++ ends.        *)
Last == IF index + num < Slots THEN index + num ELSE Slots

(* As many slots as there are bursts, from index on, with a goroutine each.*)
Grow ==
  LET new == index .. Last - 1 IN
  /\ listener = "grow"
  /\ status' = [k \in SlotIds |-> IF k \in new THEN TRUE ELSE status[k]]
  /\ look' = [k \in Ids |-> IF k \in new THEN look[k] + 1 ELSE look[k]]
  /\ index' = Last
  /\ listener' = "sample"
  /\ UNCHANGED <<num, chanQueue, wait, conVars, dead, monitorCons, writerVars, crossed>>

(* Mutated form of Surplus: one slot too many.                             *)
SurplusFromNum == num .. index - 1

(* The slots that are switched off: num+1 and above.                       *)
Surplus == num + 1 .. index - 1

(* The test of the clock: more than 30 seconds since the last time or not. *)
Sample ==
  /\ listener = "sample"
  /\ \/ /\ index > num + 1
        /\ status' = [k \in SlotIds |-> IF k \in Surplus THEN FALSE ELSE status[k]]
        /\ index' = num + 1
     \/ UNCHANGED <<status, index>>
  /\ listener' = "accept"
  /\ num' = 0
  /\ UNCHANGED <<chanQueue, look, wait, conVars, dead, monitorCons, writerVars, crossed>>

-----------------------------------------------------------------------------
(* newComeConHandle: the goroutine leaves, or waits for a connection.      *)
Leaves(k) == k >= 0 /\ ~status[k]

Look(k) ==
  /\ look[k] > 0
  /\ look' = [look EXCEPT ![k] = @ - 1]
  /\ wait' = [wait EXCEPT ![k] = IF Leaves(k) THEN @ ELSE @ + 1]
  /\ UNCHANGED <<listenVars, chanQueue, status, conVars, dead, monitorCons, writerVars, crossed>>

(* con := <-t.ChanQueue                                                    *)
Receive(k) ==
  LET c == Head(chanQueue) IN
  /\ wait[k] > 0 /\ chanQueue # <<>>
  /\ chanQueue' = Tail(chanQueue)
  /\ wait' = [wait EXCEPT ![k] = @ - 1]
  /\ by' = [by EXCEPT ![c] = k]
  /\ SetStage(c, "ack")
  /\ UNCHANGED <<listenVars, status, look, open, found, dead, monitorCons, writerVars, crossed>>

(* The goroutine of c goes round its loop.                                 *)
GoRound(c) ==
  /\ look' = [look EXCEPT ![by[c]] = @ + 1]
  /\ by' = [by EXCEPT ![c] = -1]

(* AckSerial and AckConnect, and what follows for a device.                *)
Acknowledge(c) ==
  /\ stage[c] = "ack"
  /\ \/ /\ SetStage(c, "refused") /\ GoRound(c)
        /\ open' = [open EXCEPT ![c] = FALSE]
     \/ SetStage(c, "device") /\ GoRound(c) /\ UNCHANGED open
     \/ SetStage(c, "store") /\ UNCHANGED <<look, by, open>>
  /\ UNCHANGED <<listenVars, chanQueue, status, wait, found, dead, monitorCons, writerVars, crossed>>

(* Somebody is about to delete the entry of s, whoever it is.              *)
Deleting(s) ==
  \/ \E c \in Cons : SerialOf[c] = s /\ stage[c] = "delete"
  \/ \E w \in Writers : serial[w] = s /\ writer[w] \in {"close", "delete"}

(* addMontitor, LoadOrStore on a free serial.                              *)
StoreMonitor(c) ==
  LET s == SerialOf[c] IN
  /\ stage[c] = "store"
  /\ monitorCons[s] = Nil
  /\ monitorCons' = [monitorCons EXCEPT ![s] = c]
  /\ crossed' = IF Deleting(s) THEN crossed \cup {s} ELSE crossed
  /\ SetStage(c, "monitor")
  /\ GoRound(c)
  /\ UNCHANGED <<listenVars, chanQueue, status, wait, open, found, dead, writerVars>>

(* addMontitor, LoadOrStore on a serial that has a monitor.                *)
FindMonitor(c) ==
  LET s == SerialOf[c] IN
  /\ stage[c] = "store"
  /\ monitorCons[s] # Nil
  /\ found' = [found EXCEPT ![c] = monitorCons[s]]
  /\ SetStage(c, "delete")
  /\ UNCHANGED <<listenVars, chanQueue, poolVars, by, open, dead, monitorCons, writerVars, crossed>>

(* Mutated form of Without: the entry stays.                               *)
WithEntry(s) == monitorCons

(* t.MonitorCons.Delete(serial)                                            *)
Without(s) == [monitorCons EXCEPT ![s] = Nil]

DeleteMonitor(c) ==
  /\ stage[c] = "delete"
  /\ monitorCons' = Without(SerialOf[c])
  /\ SetStage(c, "closeself")
  /\ UNCHANGED <<listenVars, chanQueue, poolVars, by, open, found, dead, writerVars, crossed>>

CloseSelf(c) ==
  /\ stage[c] = "closeself"
  /\ open' = [open EXCEPT ![c] = FALSE]
  /\ SetStage(c, "closeother")
  /\ UNCHANGED <<listenVars, chanQueue, poolVars, by, found, dead, monitorCons, writerVars, crossed>>

(* Mutated form of Other: the newcomer is closed again.                    *)
OtherIsSelf(c) == c

(* con, ok = v.( *WrapConn)                                                *)
Other(c) == found[c]

CloseOther(c) ==
  /\ stage[c] = "closeother"
  /\ open' = [open EXCEPT ![Other(c)] = FALSE]
  /\ found' = [found EXCEPT ![c] = Nil]
  /\ SetStage(c, "thrownout")
  /\ GoRound(c)
  /\ UNCHANGED <<listenVars, chanQueue, status, wait, dead, monitorCons, writerVars, crossed>>

-----------------------------------------------------------------------------
(* writeData and writeDatatoCon, after the device was written to: Load.    *)
LoadMonitor(w, s) ==
  /\ writer[w] = "idle"
  /\ monitorCons[s] # Nil
  /\ serial' = [serial EXCEPT ![w] = s]
  /\ seen' = [seen EXCEPT ![w] = monitorCons[s]]
  /\ SetWriter(w, "write")
  /\ UNCHANGED <<listenVars, chanQueue, poolVars, conVars, dead, monitorCons, crossed>>

(* The copy; a monitor that is gone may still take it.                     *)
WriteMonitor(w) ==
  LET c == seen[w] IN
  /\ writer[w] = "write"
  /\ \/ open[c] /\ SetWriter(w, "idle") /\ seen' = [seen EXCEPT ![w] = Nil]
     \/ (~open[c] \/ dead[c]) /\ SetWriter(w, "load") /\ UNCHANGED seen
  /\ UNCHANGED <<listenVars, chanQueue, poolVars, conVars, dead, monitorCons, serial, crossed>>

(* removeMontitor, Load: whoever is there now.                             *)
LoadAgain(w) ==
  /\ writer[w] = "load"
  /\ seen' = [seen EXCEPT ![w] = monitorCons[serial[w]]]
  /\ SetWriter(w, IF monitorCons[serial[w]] = Nil THEN "delete" ELSE "close")
  /\ UNCHANGED <<listenVars, chanQueue, poolVars, conVars, dead, monitorCons, serial, crossed>>

CloseMonitor(w) ==
  /\ writer[w] = "close"
  /\ open' = [open EXCEPT ![seen[w]] = FALSE]
  /\ SetWriter(w, "delete")
  /\ UNCHANGED <<listenVars, chanQueue, poolVars, stage, by, found, dead, monitorCons, serial, seen, crossed>>

(* removeMontitor, Delete.                                                 *)
RemoveMonitor(w) ==
  /\ writer[w] = "delete"
  /\ monitorCons' = Without(serial[w])
  /\ seen' = [seen EXCEPT ![w] = Nil]
  /\ SetWriter(w, "idle")
  /\ UNCHANGED <<listenVars, chanQueue, poolVars, conVars, dead, serial, crossed>>

(* The monitor, or the network to it, goes away.                           *)
Break(c) ==
  /\ stage[c] = "monitor" /\ ~dead[c]
  /\ dead' = [dead EXCEPT ![c] = TRUE]
  /\ UNCHANGED <<listenVars, chanQueue, poolVars, conVars, monitorCons, writerVars, crossed>>

-----------------------------------------------------------------------------
ListenerStep == Count \/ Grow \/ Sample

HandlerStep(c) ==
  \/ Acknowledge(c) \/ StoreMonitor(c) \/ FindMonitor(c)
  \/ DeleteMonitor(c) \/ CloseSelf(c) \/ CloseOther(c)

WriterStep(w) ==
  WriteMonitor(w) \/ LoadAgain(w) \/ CloseMonitor(w) \/ RemoveMonitor(w)

Next ==
  \/ ListenerStep
  \/ \E k \in Ids : Look(k) \/ Receive(k)
  \/ \E c \in Cons : Accept(c) \/ HandlerStep(c) \/ Break(c)
  \/ \E w \in Writers : WriterStep(w) \/ \E s \in Serials : LoadMonitor(w, s)

Spec == Init /\ [][Next]_vars

-----------------------------------------------------------------------------
Stages == {"new", "queued", "ack", "store", "delete", "closeself", "closeother",
           "refused", "device", "monitor", "thrownout"}
Handling == {"ack", "store", "delete", "closeself", "closeother"}

(* The goroutines of a slot.                                               *)
Has(k) == {c \in Cons : stage[c] \in Handling /\ by[c] = k}
Routines(k) == look[k] + wait[k] + Cardinality(Has(k))

(* Type invariant of the listener, its goroutines, and the monitors.       *)
TypeOK ==
  /\ listener \in {"accept", "count", "grow", "sample"}
  /\ num \in Nat /\ index \in 0 .. Slots
  /\ chanQueue \in Seq(Cons) /\ Len(chanQueue) <= QueueCap
  /\ status \in [SlotIds -> BOOLEAN]
  /\ look \in [Ids -> Nat] /\ wait \in [Ids -> Nat]
  /\ stage \in [Cons -> Stages]
  /\ by \in [Cons -> Ids]
  /\ open \in [Cons -> BOOLEAN] /\ dead \in [Cons -> BOOLEAN]
  /\ found \in [Cons -> Cons \cup {Nil}]
  /\ \A c \in Cons : stage[c] \in {"delete", "closeself", "closeother"} => found[c] \in Cons
  /\ monitorCons \in [Serials -> Cons \cup {Nil}]
  /\ writer \in [Writers -> {"idle", "write", "load", "close", "delete"}]
  /\ serial \in [Writers -> Serials]
  /\ seen \in [Writers -> Cons \cup {Nil}]
  /\ \A w \in Writers : writer[w] \in {"write", "close"} => seen[w] \in Cons
  /\ crossed \subseteq Serials

(* As many goroutines are at work as the listener believes: the five, and  *)
(* at least one for each slot below index, however the switching off of a  *)
(* slot and its next use meet with goroutines that have not looked yet.    *)
PressureServed ==
  /\ Routines(-1) = Fixed
  /\ \A k \in 0 .. index - 1 : status[k] /\ Routines(k) > 0

(* A monitor that was accepted and is open is the one that gets the        *)
(* copies, unless somebody is about to close it, and unless it was entered *)
(* while somebody who had seen another one was about to delete by serial.  *)
MonitorGetsCopies ==
  \A c \in Cons :
    (stage[c] = "monitor" /\ open[c] /\ SerialOf[c] \notin crossed) =>
      \/ monitorCons[SerialOf[c]] = c
      \/ \E d \in Cons : found[d] = c /\ stage[d] \in {"closeself", "closeother"}

(* A monitor that was closed does not stay in the map and take the place   *)
(* of the next: whoever closes it has deleted the entry, or will.          *)
ClosedIsLeaving ==
  \A s \in Serials :
    (monitorCons[s] # Nil /\ ~open[monitorCons[s]]) =>
      \E w \in Writers : serial[w] = s /\ writer[w] = "delete"
=============================================================================
