----------------------------- MODULE FifoQueue -----------------------------
(***************************************************************************)
(* FifoQueue of new/fifo_queue.go as the GATEWAY server uses it: one       *)
(* QueueHandle per serial in a sync.Map, Put by whoever forwards data to   *)
(* the serial, Get by the writer goroutine of each connection (Handles are *)
(* the serials).  Every SweepEvery-th Get first walks over all the handles *)
(* looking for those to recycle.                                           *)
(*                                                                         *)
(* A handle is never recycled.  CanGc holds the mutex and, for a handle    *)
(* that is initialised and old, evaluates q.Size(), which locks the same   *)
(* mutex: CanGc answers false or never answers.  SetFree, the Delete of    *)
(* the captured keys and the branch of Put that retries after a sleep are  *)
(* therefore unreachable and have no action here.                          *)
(***************************************************************************)
EXTENDS QueueHandle

CONSTANTS
  SerialOf,    \* the serial each consumer reads
  SweepEvery,  \* 1000 in the code
  MayAge       \* whether 3000 seconds without a call may pass

ASSUME FifoAssumption ==
  /\ SerialOf \in [Consumers -> Handles]
  /\ SweepEvery \in Nat \ {0}
  /\ MayAge \in BOOLEAN

VARIABLES
  keys,      \* keys of the sync.Map
  calltime,  \* calltime modulo SweepEvery
  toSweep,   \* what the Range of each sweeping consumer has left to visit
  visiting,  \* the handle in CanGc
  seenIdle,  \* b1 of CanGc
  deserted   \* history: the handles whose last awake reader left items behind

sweepVars == <<keys, calltime, toSweep, visiting, seenIdle>>
mapVars == <<sweepVars, deserted>>
vars == <<handleVars, threadVars, mapVars>>

Init ==
  /\ InitHandles
  /\ pc = [t \in Threads |-> IF t \in Producers THEN "idle" ELSE "call"]
  /\ cur = [t \in Threads |->
              IF t \in Consumers THEN SerialOf[t] ELSE CHOOSE h \in Handles : TRUE]
  /\ keys = {}
  /\ calltime = 0
  /\ toSweep = [c \in Consumers |-> {}]
  /\ visiting = [c \in Consumers |-> SerialOf[c]]
  /\ seenIdle = [c \in Consumers |-> FALSE]
  /\ deserted = {}

(* A reader that only a token can move on, or nothing.                     *)
Asleep(c) ==
  pc[c] \in {"parked", "gone"} \/ (pc[c] = "recv" /\ notiFy[cur[c]] = 0)

-----------------------------------------------------------------------------
(* Put: LoadOrStore of the key.  Loaded or just stored (and then found     *)
(* again by the Range, for no key is ever deleted), the next thing is      *)
(* AddData on the one handle of the serial.                                *)
Put(p, s) ==
  /\ pc[p] = "idle"
  /\ puts[p] < MaxPuts[p]
  /\ keys' = keys \cup {s}
  /\ cur' = [cur EXCEPT ![p] = s]
  /\ puts' = [puts EXCEPT ![p] = @ + 1]
  /\ Goto(p, "lazy")
  /\ UNCHANGED <<handleVars, ret, calltime, toSweep, visiting, seenIdle, deserted>>

(* Get: count the call ...                                                 *)
Get(c) ==
  /\ pc[c] = "call"
  /\ calltime' = (calltime + 1) % SweepEvery
  /\ Goto(c, "test")
  /\ UNCHANGED <<handleVars, cur, puts, ret, keys, toSweep, visiting, seenIdle, deserted>>

(* The writer's loop ends instead: its connection was closed, or its last  *)
(* write failed.  What a failed write puts back is a Put like any other.   *)
Leave(c) ==
  /\ pc[c] = "call"
  /\ Goto(c, "gone")
  /\ \/ /\ deque[cur[c]] # <<>>
        /\ \A d \in Readers(cur[c]) \ {c} : Asleep(d)
        /\ deserted' = deserted \cup {cur[c]}
     \/ /\ deque[cur[c]] = <<>> \/ \E d \in Readers(cur[c]) \ {c} : ~Asleep(d)
        /\ UNCHANGED deserted
  /\ UNCHANGED <<handleVars, cur, puts, ret, sweepVars>>

(* ... and look at the count again, which another Get may have moved on.   *)
TestCall(c) ==
  /\ pc[c] = "test"
  /\ \/ /\ calltime = 0
        /\ toSweep' = [toSweep EXCEPT ![c] = keys]
        /\ Goto(c, "sweep")
     \/ /\ calltime # 0
        /\ Goto(c, "load")
        /\ UNCHANGED toSweep
  /\ UNCHANGED <<handleVars, cur, puts, ret, keys, calltime, visiting, seenIdle, deserted>>

(* deque.Range: the next key, whose CanGc first looks at the clock.        *)
SweepNext(c) ==
  /\ pc[c] = "sweep"
  /\ \/ \E s \in toSweep[c] :
          /\ toSweep' = [toSweep EXCEPT ![c] = @ \ {s}]
          /\ visiting' = [visiting EXCEPT ![c] = s]
          /\ seenIdle' = [seenIdle EXCEPT ![c] = idle[s]]
          /\ Goto(c, "cangc")
     \/ /\ toSweep[c] = {}
        /\ Goto(c, "load")
        /\ UNCHANGED <<toSweep, visiting, seenIdle>>
  /\ UNCHANGED <<handleVars, cur, puts, ret, keys, calltime, deserted>>

(* CanGc: q.status && b1 && q.Size() <= 0 with the mutex held.  The call   *)
(* of Size waits for the mutex its caller holds.                           *)
CanGc(c) ==
  LET h == visiting[c] IN
  /\ pc[c] = "cangc"
  /\ Unlocked(h)
  /\ \/ /\ status[h] /\ seenIdle[c]
        /\ mutex' = [mutex EXCEPT ![h] = c]
        /\ Goto(c, "stuck")
     \/ /\ ~(status[h] /\ seenIdle[c])
        /\ Goto(c, "sweep")
        /\ UNCHANGED mutex
  /\ UNCHANGED <<deque, notiFy, status, idle, cur, puts, ret, mapVars>>

(* Get: Load of the key; without one, nil after 200 milliseconds.          *)
Load(c) ==
  /\ pc[c] = "load"
  /\ \/ SerialOf[c] \in keys /\ Goto(c, "lazy") /\ UNCHANGED ret
     \/ /\ SerialOf[c] \notin keys
        /\ ret' = [ret EXCEPT ![c] = Nil]
        /\ Goto(c, "call")
  /\ UNCHANGED <<handleVars, cur, puts, mapVars>>

(* 3000 seconds pass without an AddData or a PopData on the handle.        *)
Age(s) ==
  /\ MayAge
  /\ ~idle[s]
  /\ idle' = [idle EXCEPT ![s] = TRUE]
  /\ UNCHANGED <<deque, notiFy, status, mutex, threadVars, mapVars>>

(* A token wakes a sleeping reader, or waits for the next one.             *)
ProducerStep(p) ==
  \/ (LazyInit(p, "notify") \/ PushBack(p)) /\ UNCHANGED mapVars
  \/ Notify(p) /\ deserted' = deserted \ {cur[p]} /\ UNCHANGED sweepVars

ReadStep(c) ==
  /\ LazyInit(c, "check") \/ CheckSize(c) \/ Receive(c) \/ Pop(c)
  /\ UNCHANGED mapVars

(* The rest of a call of Get.                                              *)
GetStep(c) ==
  TestCall(c) \/ SweepNext(c) \/ CanGc(c) \/ Load(c) \/ ReadStep(c)

Next ==
  \/ \E p \in Producers : ProducerStep(p) \/ \E s \in Handles : Put(p, s)
  \/ \E c \in Consumers : Get(c) \/ Leave(c) \/ GetStep(c)
  \/ \E s \in Handles : Age(s)

Spec == Init /\ [][Next]_vars

(* Go runs every goroutine that can run, so a call of Put or Get goes on.  *)
(* Calling again is the caller's business (a writer first writes what it   *)
(* got, with no deadline, or leaves) and growing old is the clock's: no    *)
(* fairness for these.                                                     *)
FairSpec ==
  /\ Spec
  /\ \A p \in Producers : WF_vars(ProducerStep(p))
  /\ \A c \in Consumers : WF_vars(GetStep(c))

-----------------------------------------------------------------------------
ProducerLabels == {"idle", "lazy", "notify", "push"}
ConsumerLabels ==
  {"call", "test", "sweep", "cangc", "stuck", "load",
   "lazy", "check", "recv", "parked", "pop", "gone"}

(* Type invariant of fifo_queue.go's state.                                *)
TypeOK ==
  /\ HandleTypeOK
  /\ pc \in [Threads -> ProducerLabels \cup ConsumerLabels]
  /\ \A p \in Producers : pc[p] \in ProducerLabels
  /\ \A c \in Consumers : pc[c] \in ConsumerLabels
  /\ cur \in [Threads -> Handles]
  /\ \A c \in Consumers : cur[c] = SerialOf[c]
  /\ keys \subseteq Handles
  /\ calltime \in 0 .. SweepEvery - 1
  /\ toSweep \in [Consumers -> SUBSET Handles]
  /\ visiting \in [Consumers -> Handles]
  /\ seenIdle \in [Consumers -> BOOLEAN]
  /\ deserted \subseteq Handles

(* What a lost wake-up can cost.  The token of an item is sent before the  *)
(* item is in the list, so a reader can use it up, find nothing, and go    *)
(* back to sleep for good.  But then the list holds at most one item of    *)
(* each producer: a producer's next AddData finds the sleeping reader.     *)
(* That holds for readers that return to Get; one that leaves can take the *)
(* token of any number of items with it (deserted), until the next AddData.*)
StallBounded ==
  \A h \in Handles : AllParked(h) /\ h \notin deserted => OneEach(deque[h])

(* No writer is for ever busy with what it got: each call of con.Write     *)
(* returns, and the writer calls Get again or leaves.                      *)
WritesReturn == \A c \in Consumers : []<>(pc[c] # "call")

Awake(s) == \E c \in Readers(s) : ~Asleep(c)

(* Where writes return, a reader that is awake leaves no item behind: with *)
(* items in the list it goes round Get again and again and waits only once *)
(* it saw it empty.  Two things stop it: a sweep that froze on a handle    *)
(* (see SweepReturns), and that the last awake writer leaves between two   *)
(* calls of Get.  The latter lasts until the next AddData on the handle.   *)
AwakeDrains ==
  WritesReturn =>
    \A s \in Handles :
      (deque[s] # <<>> /\ Awake(s))
        ~> (deque[s] = <<>> \/ s \in deserted \/ \E h \in Handles : ~Unlocked(h))

(* Get's walk over the handles, there to let the system reclaim them,      *)
(* comes to an end.                                                        *)
SweepReturns ==
  \A c \in Consumers : (pc[c] \in {"sweep", "cangc"}) ~> (pc[c] = "load")

-----------------------------------------------------------------------------
(* The queue implements one FIFO per serial.  A producer's item counts as  *)
(* sent when PushBack has put it in the list.                              *)
pushed ==
  [p \in Producers |-> IF pc[p] = "idle" THEN puts[p] ELSE puts[p] - 1]

Fifo == INSTANCE SerialFifo
          WITH Serials <- Handles, queue <- deque, sent <- pushed, got <- ret

(* Per serial, items come out in the order in which they went in, each     *)
(* once, none invented, and a producer's items in the order of its calls.  *)
ImplementsFifo == Fifo!Spec
=============================================================================
