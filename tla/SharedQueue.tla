---------------------------- MODULE SharedQueue -----------------------------
(***************************************************************************)
(* FifoQueue of new/fifo_queue.go as the WEB and APP servers use it: one   *)
(* QueueHandle, f.single, for all serials, SingelPut by whoever forwards   *)
(* data, SingleGet by a fixed pool of writer goroutines                    *)
(* (writeDataSharePool).  The handle is made by the first call that finds  *)
(* none, without any lock: goroutines that find none at the same time make *)
(* one each, and the last one stored is the one that stays.                *)
(***************************************************************************)
EXTENDS QueueHandle, FiniteSets

CONSTANT
  EarlyPuts  \* whether data may arrive before the first writer made a handle

ASSUME SharedAssumption ==
  /\ EarlyPuts \in BOOLEAN
  /\ IsFiniteSet(Producers \cup Consumers)
  /\ IsFiniteSet(Handles)
  /\ Cardinality(Handles) >= Cardinality(Producers \cup Consumers)

VARIABLES
  single,  \* f.single: the handle in use, or Nil
  fresh    \* the handles not made yet

sharedVars == <<single, fresh>>
vars == <<handleVars, threadVars, sharedVars>>

Init ==
  /\ InitHandles
  /\ pc = [t \in Threads |-> IF t \in Producers THEN "idle" ELSE "call"]
  /\ cur = [t \in Threads |-> Nil]
  /\ single = Nil
  /\ fresh = Handles

-----------------------------------------------------------------------------
(* Mutated form of HandleMissing: every call makes a handle while there is *)
(* one to make.                                                            *)
AlwaysMissing == fresh # {}

(* f.single == nil                                                         *)
HandleMissing == single = Nil

TestSingle(t) == Goto(t, IF HandleMissing THEN "create" ELSE "fetch")

SingelPut(p) ==
  /\ pc[p] = "idle"
  /\ puts[p] < MaxPuts[p]
  /\ EarlyPuts \/ single # Nil
  /\ puts' = [puts EXCEPT ![p] = @ + 1]
  /\ TestSingle(p)
  /\ UNCHANGED <<handleVars, cur, ret, sharedVars>>

SingleGet(c) ==
  /\ pc[c] = "call"
  /\ TestSingle(c)
  /\ UNCHANGED <<handleVars, cur, puts, ret, sharedVars>>

(* f.single = &QueueHandle{}                                               *)
Create(t) ==
  /\ pc[t] = "create"
  /\ \E h \in fresh : single' = h /\ fresh' = fresh \ {h}
  /\ Goto(t, "fetch")
  /\ UNCHANGED <<handleVars, cur, puts, ret>>

(* The receiver of f.single.AddData and of f.single.PopData is read anew.  *)
Fetch(t) ==
  /\ pc[t] = "fetch"
  /\ cur' = [cur EXCEPT ![t] = single]
  /\ Goto(t, "lazy")
  /\ UNCHANGED <<handleVars, puts, ret, sharedVars>>

ProducerStep(p) ==
  \/ Create(p) \/ Fetch(p)
  \/ (LazyInit(p, "notify") \/ Notify(p) \/ PushBack(p)) /\ UNCHANGED sharedVars

ConsumerStep(c) ==
  \/ SingleGet(c) \/ Create(c) \/ Fetch(c)
  \/ (LazyInit(c, "check") \/ CheckSize(c) \/ Receive(c) \/ Pop(c)) /\ UNCHANGED sharedVars

Next ==
  \/ \E p \in Producers : SingelPut(p) \/ ProducerStep(p)
  \/ \E c \in Consumers : ConsumerStep(c)

Spec == Init /\ [][Next]_vars

-----------------------------------------------------------------------------
(* Type invariant of the shared queue's state.                             *)
TypeOK ==
  /\ HandleTypeOK
  /\ pc \in [Threads -> {"idle", "call", "create", "fetch", "lazy", "notify", "push",
                         "check", "recv", "parked", "pop"}]
  /\ cur \in [Threads -> Handles \cup {Nil}]
  /\ single \in Handles \cup {Nil}
  /\ fresh \subseteq Handles

(* c has a handle and is not on the way to another.                        *)
Working(c) == cur[c] # Nil /\ pc[c] \notin {"call", "create", "fetch"}

(* If data comes only after the first writer made a handle, then however   *)
(* the writers race for it, at least one of them works on the one that is  *)
(* in use once they all work: data written to it is not written in vain.   *)
PoolSurvives ==
  single # Nil /\ (\A c \in Consumers : Working(c)) =>
    \E c \in Consumers : cur[c] = single

(* StallBounded, for the handle in use: when all its readers sleep, at     *)
(* most one item of each producer waits in it.  It does not hold for a     *)
(* handle that was replaced: a reader that has taken the token and one of  *)
(* several items may go on with the new handle, and leave the others to    *)
(* readers that sleep.                                                     *)
InUseStallBounded ==
  single # Nil /\ AllParked(single) => OneEach(deque[single])
=============================================================================
