---------------------------- MODULE QueueHandle ----------------------------
(***************************************************************************)
(* QueueHandle of new/fifo_queue.go: a linked list behind a mutex, plus a  *)
(* channel of capacity 1 (NotiFy) that wakes a reader.  AddData sends the  *)
(* token first and takes the mutex afterwards; PopData looks at the size,  *)
(* waits for the token only when it saw an empty list, and then removes    *)
(* the front if there is one.  Both start with LazyInit.                   *)
(*                                                                         *)
(* Every critical section is one step: no method but CanGc does anything   *)
(* while it holds the mutex that another goroutine can see.  CanGc is a    *)
(* step of FifoQueue, the only caller; it is the one holder that can keep  *)
(* the mutex across steps, hence the variable.                             *)
(*                                                                         *)
(* The module has the state and the steps; FifoQueue (one handle per       *)
(* serial) and SharedQueue (one handle for a pool of writers) say how a    *)
(* thread comes to a handle.                                               *)
(***************************************************************************)
EXTENDS Naturals, Sequences

CONSTANTS
  Producers,  \* goroutines that call AddData
  Consumers,  \* goroutines that call PopData
  Handles,    \* the QueueHandle objects
  MaxPuts,    \* bound: AddData calls of each producer
  Nil         \* Go's nil; also "nobody holds the mutex"

ASSUME HandleAssumption ==
  /\ Producers \cap Consumers = {}
  /\ Handles # {}
  /\ Nil \notin Consumers \cup Handles
  /\ MaxPuts \in [Producers -> Nat]

VARIABLES
  deque,   \* DeQueue: the items of each handle, front first
  notiFy,  \* NotiFy: tokens buffered in the channel of each handle
  status,  \* status: LazyInit has run
  idle,    \* LastActiveTime lies more than 3000 seconds back
  mutex,   \* the thread that keeps the mutex of each handle, or Nil
  pc,      \* what each goroutine does next
  cur,     \* the handle the goroutine works on
  puts,    \* AddData calls begun by each producer
  ret      \* the value of each consumer's last PopData

handleVars == <<deque, notiFy, status, idle, mutex>>
threadVars == <<pc, cur, puts, ret>>

Threads == Producers \cup Consumers

(* A DataWrapper: who wrote it and which of his it is.                     *)
Item == [from : Producers, n : Nat]

ItemOf(p) == [from |-> p, n |-> puts[p]]

(* make(chan int, 1)                                                       *)
ChanCap == 1

Goto(t, label) == pc' = [pc EXCEPT ![t] = label]

Unlocked(h) == mutex[h] = Nil

(* Consumers blocked in <-q.NotiFy.                                        *)
Parked(h) == {c \in Consumers : pc[c] = "parked" /\ cur[c] = h}

InitHandles ==
  /\ deque = [h \in Handles |-> <<>>]
  /\ notiFy = [h \in Handles |-> 0]
  /\ status = [h \in Handles |-> FALSE]
  /\ idle = [h \in Handles |-> TRUE]
  /\ mutex = [h \in Handles |-> Nil]
  /\ puts = [p \in Producers |-> 0]
  /\ ret = [c \in Consumers |-> Nil]

-----------------------------------------------------------------------------
(* LazyInit stores the time and, under the mutex, makes list and channel.  *)
LazyInit(t, next) ==
  /\ pc[t] = "lazy"
  /\ Unlocked(cur[t])
  /\ status' = [status EXCEPT ![cur[t]] = TRUE]
  /\ idle' = [idle EXCEPT ![cur[t]] = FALSE]
  /\ Goto(t, next)
  /\ UNCHANGED <<deque, notiFy, mutex, cur, puts, ret>>

(* Mutated form of TrySend: the send is counted although the channel is    *)
(* full.                                                                   *)
SendAnyway(tokens) == tokens + 1

(* select { case q.NotiFy <- 1: default: } with nobody receiving.          *)
TrySend(tokens) == IF tokens < ChanCap THEN tokens + 1 ELSE tokens

(* Mutated form of Notify: the token is sent only for the first item of an *)
(* empty list.                                                             *)
NotifyFirstOnly(p) ==
  /\ pc[p] = "notify"
  /\ IF deque[cur[p]] # <<>> THEN Goto(p, "push") /\ UNCHANGED notiFy
     ELSE \/ \E c \in Parked(cur[p]) :
               /\ pc' = [pc EXCEPT ![p] = "push", ![c] = "pop"]
               /\ UNCHANGED notiFy
          \/ /\ Parked(cur[p]) = {}
             /\ notiFy' = [notiFy EXCEPT ![cur[p]] = TrySend(@)]
             /\ Goto(p, "push")
  /\ UNCHANGED <<deque, status, idle, mutex, cur, puts, ret>>

(* AddData, the token.  A send on a Go channel goes straight to a blocked  *)
(* receiver when there is one.                                             *)
Notify(p) ==
  /\ pc[p] = "notify"
  /\ \/ \E c \in Parked(cur[p]) :
          /\ pc' = [pc EXCEPT ![p] = "push", ![c] = "pop"]
          /\ UNCHANGED notiFy
     \/ /\ Parked(cur[p]) = {}
        /\ notiFy' = [notiFy EXCEPT ![cur[p]] = TrySend(@)]
        /\ Goto(p, "push")
  /\ UNCHANGED <<deque, status, idle, mutex, cur, puts, ret>>

(* AddData, the list.  q.free is never set: see CanGc in FifoQueue.        *)
PushBack(p) ==
  /\ pc[p] = "push"
  /\ Unlocked(cur[p])
  /\ deque' = [deque EXCEPT ![cur[p]] = Append(@, ItemOf(p))]
  /\ Goto(p, "idle")
  /\ UNCHANGED <<notiFy, status, idle, mutex, cur, puts, ret>>

(* Mutated form of CheckSize: the reader waits for a token every time.     *)
CheckNothing(c) ==
  /\ pc[c] = "check"
  /\ Unlocked(cur[c])
  /\ Goto(c, "recv")
  /\ UNCHANGED <<handleVars, cur, puts, ret>>

(* PopData: if q.Size() <= 0                                               *)
CheckSize(c) ==
  /\ pc[c] = "check"
  /\ Unlocked(cur[c])
  /\ Goto(c, IF deque[cur[c]] = <<>> THEN "recv" ELSE "pop")
  /\ UNCHANGED <<handleVars, cur, puts, ret>>

(* PopData: <-q.NotiFy, which blocks when no token is buffered.            *)
Receive(c) ==
  /\ pc[c] = "recv"
  /\ \/ /\ notiFy[cur[c]] > 0
        /\ notiFy' = [notiFy EXCEPT ![cur[c]] = @ - 1]
        /\ Goto(c, "pop")
     \/ /\ notiFy[cur[c]] = 0
        /\ Goto(c, "parked")
        /\ UNCHANGED notiFy
  /\ UNCHANGED <<deque, status, idle, mutex, cur, puts, ret>>

(* Mutated form of FrontOf: the value of the back is returned.             *)
BackOf(s) == s[Len(s)]

(* q.DeQueue.Front()                                                       *)
FrontOf(s) == Head(s)

(* PopData: remove the front, or return nil when the list is empty.        *)
Pop(c) ==
  /\ pc[c] = "pop"
  /\ Unlocked(cur[c])
  /\ \/ /\ deque[cur[c]] # <<>>
        /\ ret' = [ret EXCEPT ![c] = FrontOf(deque[cur[c]])]
        /\ deque' = [deque EXCEPT ![cur[c]] = Tail(@)]
     \/ /\ deque[cur[c]] = <<>>
        /\ ret' = [ret EXCEPT ![c] = Nil]
        /\ UNCHANGED deque
  /\ Goto(c, "call")
  /\ UNCHANGED <<notiFy, status, idle, mutex, cur, puts>>

-----------------------------------------------------------------------------
HandleTypeOK ==
  /\ deque \in [Handles -> Seq(Item)]
  /\ notiFy \in [Handles -> 0 .. ChanCap]
  /\ status \in [Handles -> BOOLEAN]
  /\ idle \in [Handles -> BOOLEAN]
  /\ mutex \in [Handles -> Consumers \cup {Nil}]
  /\ puts \in [Producers -> Nat]
  /\ ret \in [Consumers -> Item \cup {Nil}]

(* The goroutines that read from h, without those that have left for good. *)
Readers(h) == {c \in Consumers : cur[c] = h /\ pc[c] # "gone"}

AllParked(h) == Readers(h) # {} /\ Readers(h) = Parked(h)

(* No two items of a list come from the same producer.                     *)
OneEach(s) == \A i, j \in 1 .. Len(s) : s[i].from = s[j].from => i = j
=============================================================================
