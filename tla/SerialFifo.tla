---------------------------- MODULE SerialFifo ------------------------------
(***************************************************************************)
(* What FifoQueue of new/fifo_queue.go promises its callers: per serial a  *)
(* first-in first-out queue into which each producer puts its items in the *)
(* order of its calls, each exactly once, and from which each item is      *)
(* taken by exactly one consumer of the serial.  Taking may also fail (the *)
(* code returns nil) whatever the queue holds; the callers then loop.      *)
(***************************************************************************)
EXTENDS Naturals, Sequences

CONSTANTS Producers, Consumers, Serials, SerialOf, Nil

VARIABLES
  queue,  \* the items of each serial, oldest first
  sent,   \* how many items each producer has put
  got     \* what each consumer took last

vars == <<queue, sent, got>>

Init ==
  /\ queue = [s \in Serials |-> <<>>]
  /\ sent = [p \in Producers |-> 0]
  /\ got = [c \in Consumers |-> Nil]

Put(p, s) ==
  /\ sent' = [sent EXCEPT ![p] = @ + 1]
  /\ queue' = [queue EXCEPT ![s] = Append(@, [from |-> p, n |-> sent[p] + 1])]
  /\ UNCHANGED got

Take(c) ==
  /\ queue[SerialOf[c]] # <<>>
  /\ got' = [got EXCEPT ![c] = Head(queue[SerialOf[c]])]
  /\ queue' = [queue EXCEPT ![SerialOf[c]] = Tail(@)]
  /\ UNCHANGED sent

Miss(c) ==
  /\ got' = [got EXCEPT ![c] = Nil]
  /\ UNCHANGED <<queue, sent>>

Next ==
  \/ \E p \in Producers, s \in Serials : Put(p, s)
  \/ \E c \in Consumers : Take(c) \/ Miss(c)

Spec == Init /\ [][Next]_vars
=============================================================================
