-------------------------- MODULE WebSocketServer ---------------------------
(***************************************************************************)
(* The life of the connections of new/server_websocket.go.  Each has a     *)
(* goroutine of net/http, which runs WebSockHandle: the first message is   *)
(* the serial, then the connection is entered in Map, a NetConMap without  *)
(* duplicates, and read until a read fails.                                *)
(*                                                                         *)
(* Other than with TCP, a newcomer with a serial that is taken stays: it   *)
(* closes the other one and stores itself in its place.  What is deleted   *)
(* at the end goes by serial alone, as there.                              *)
(*                                                                         *)
(* A message that does not fit into the buffer makes wread panic.          *)
(* net/http recovers, the deferred Close runs, and what stands behind the  *)
(* read loop is not reached.                                               *)
(*                                                                         *)
(* A key is a serial.  The messages themselves are left out; StatusReport  *)
(* adds what the observer does.                                            *)
(***************************************************************************)
CONSTANTS
  Cons,   \* connections, each used once
  Keys,   \* serials
  KeyOf,  \* the serial each connection comes with
  Nil

VARIABLES
  map,    \* Map: the connection under each key, or Nil
  stage,  \* what the goroutine of each connection does next
  open,   \* not closed here
  found,  \* inter of WebSockHandle
  met     \* (history) keys of which two connections were there at once

vars == <<map, stage, open, found, met>>

SetStage(c, s) == stage' = [stage EXCEPT ![c] = s]

Init ==
  /\ map = [k \in Keys |-> Nil]
  /\ stage = [c \in Cons |-> "new"]
  /\ open = [c \in Cons |-> TRUE]
  /\ found = [c \in Cons |-> Nil]
  /\ met = {}

(* The goroutine of the connection runs.                                   *)
Present(c) == stage[c] \notin {"new", "refused", "panicked", "gone"}

Rivals(c) == {d \in Cons \ {c} : KeyOf[d] = KeyOf[c]}

-----------------------------------------------------------------------------
(* net/http calls WebSockHandle.                                           *)
Connect(c) ==
  /\ stage[c] = "new"
  /\ SetStage(c, "serial")
  /\ met' = IF \E d \in Rivals(c) : Present(d) THEN met \cup {KeyOf[c]} ELSE met
  /\ UNCHANGED <<map, open, found>>

(* The first message: a serial, which is answered by WEB_ACCEPT whether    *)
(* the answer arrives or not; or none, one that is too short or too long,  *)
(* or one without TTG.                                                     *)
ReadSerial(c) ==
  /\ stage[c] = "serial"
  /\ \/ SetStage(c, "store") /\ UNCHANGED open
     \/ SetStage(c, "refused") /\ open' = [open EXCEPT ![c] = FALSE]
  /\ UNCHANGED <<map, found, met>>

(* Mutated form of Stored: the newcomer is not entered.                    *)
NotStored(k, c) == map

Stored(k, c) == [map EXCEPT ![k] = c]

(* LoadOrStore on a serial that is free.                                   *)
StoreNew(c) ==
  /\ stage[c] = "store"
  /\ map[KeyOf[c]] = Nil
  /\ map' = [map EXCEPT ![KeyOf[c]] = c]
  /\ SetStage(c, "observe")
  /\ UNCHANGED <<open, found, met>>

(* LoadOrStore on a serial that is taken.                                  *)
FindOther(c) ==
  /\ stage[c] = "store"
  /\ map[KeyOf[c]] # Nil
  /\ found' = [found EXCEPT ![c] = map[KeyOf[c]]]
  /\ SetStage(c, "closeother")
  /\ UNCHANGED <<map, open, met>>

(* mws.Close()                                                             *)
CloseOther(c) ==
  /\ stage[c] = "closeother"
  /\ open' = [open EXCEPT ![found[c]] = FALSE]
  /\ found' = [found EXCEPT ![c] = Nil]
  /\ SetStage(c, "replace")
  /\ UNCHANGED <<map, met>>

(* Store, in the place of whoever is there by now.                         *)
Replace(c) ==
  /\ stage[c] = "replace"
  /\ map' = Stored(KeyOf[c], c)
  /\ SetStage(c, "observe")
  /\ UNCHANGED <<open, found, met>>

(* HNewConnect and SNewConnect.                                            *)
ObserveNew(c) ==
  /\ stage[c] = "observe"
  /\ SetStage(c, "read")
  /\ UNCHANGED <<map, open, found, met>>

-----------------------------------------------------------------------------
(* wread returns an error: the connection was closed here, by the peer or  *)
(* by the network.                                                         *)
ReadError(c) ==
  /\ stage[c] = "read"
  /\ SetStage(c, "delete")
  /\ UNCHANGED <<map, open, found, met>>

(* A message of 1024 bytes or more: the goroutine is unwound.              *)
ReadTooLong(c) ==
  /\ stage[c] = "read"
  /\ open[c]
  /\ open' = [open EXCEPT ![c] = FALSE]
  /\ SetStage(c, "panicked")
  /\ UNCHANGED <<map, found, met>>

(* Mutated form of Emptied: the entry is kept.                             *)
EntryKept(k) == map

(* Map without the key, whoever is there.                                  *)
Emptied(k) == [map EXCEPT ![k] = Nil]

(* w.Map.Delete(serial, req_addr)                                          *)
Delete(c) ==
  /\ stage[c] = "delete"
  /\ map' = Emptied(KeyOf[c])
  /\ SetStage(c, "observeend")
  /\ UNCHANGED <<open, found, met>>

(* HDisConnect and SDisConnect, and the deferred Close.                    *)
ObserveEnd(c) ==
  /\ stage[c] = "observeend"
  /\ SetStage(c, "gone")
  /\ open' = [open EXCEPT ![c] = FALSE]
  /\ UNCHANGED <<map, found, met>>

HandleStep(c) ==
  \/ ReadSerial(c) \/ StoreNew(c) \/ FindOther(c) \/ CloseOther(c) \/ Replace(c)
  \/ ReadError(c) \/ ReadTooLong(c) \/ Delete(c)


Next ==
  \E c \in Cons : Connect(c) \/ HandleStep(c) \/ ObserveNew(c) \/ ObserveEnd(c)

Spec == Init /\ [][Next]_vars

-----------------------------------------------------------------------------
Stages == {"new", "serial", "store", "closeother", "replace", "observe", "read",
           "delete", "observeend", "refused", "panicked", "gone"}

(* Type invariant of the WebSocket connections' state.                     *)
TypeOK ==
  /\ map \in [Keys -> Cons \cup {Nil}]
  /\ stage \in [Cons -> Stages]
  /\ open \in [Cons -> BOOLEAN]
  /\ found \in [Cons -> Cons \cup {Nil}]
  /\ \A c \in Cons : stage[c] = "closeother" => found[c] # Nil
  /\ met \subseteq Keys

(* Whoever stands in Map has its Delete still to come, however often the   *)
(* serial was taken over; but for a connection whose goroutine panicked.   *)
NoLeftovers ==
  \A c \in Cons :
    map[KeyOf[c]] = c => stage[c] \in {"observe", "read", "delete", "panicked"}

(* As long as the connections of a serial came one after the other, the    *)
(* one that is served is in Map, also after one that panicked.             *)
ServedInTurn ==
  \A c \in Cons :
    stage[c] = "read" /\ open[c] /\ KeyOf[c] \notin met => map[KeyOf[c]] = c
=============================================================================
