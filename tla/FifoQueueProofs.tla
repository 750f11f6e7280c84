-------------------------- MODULE FifoQueueProofs ---------------------------
(***************************************************************************)
(* Theorems about FifoQueue, for any number of producers, consumers and    *)
(* serials.                                                                *)
(***************************************************************************)
EXTENDS FifoQueue, SequenceTheorems, TLAPS

(* A goroutine either puts or gets.                                        *)
LEMMA ThreadsFacts ==
  /\ Threads = Producers \cup Consumers
  /\ \A p \in Producers : p \notin Consumers
  /\ Nil \notin Consumers
BY HandleAssumption DEF Threads, HandleAssumption

(* The state of fifo_queue.go is always well typed; in particular the      *)
(* channel never holds more than one token (new/fifo_queue.go:34).         *)
THEOREM TypeCorrect == Spec => []TypeOK
<1>1. Init => TypeOK
  BY HandleAssumption, FifoAssumption
  DEF Init, InitHandles, TypeOK, HandleTypeOK, HandleAssumption, FifoAssumption,
      Threads, ChanCap, ProducerLabels, ConsumerLabels
<1>2. TypeOK /\ [Next]_vars => TypeOK'
  <2> SUFFICES ASSUME TypeOK, [Next]_vars PROVE TypeOK'
    OBVIOUS
  <2> USE ThreadsFacts DEF TypeOK, HandleTypeOK, ProducerLabels, ConsumerLabels, ChanCap, Goto
  <2>1. ASSUME NEW p \in Producers, NEW s \in Handles, Put(p, s) PROVE TypeOK'
    BY <2>1 DEF Put, handleVars
  <2>2. ASSUME NEW p \in Producers, LazyInit(p, "notify"), UNCHANGED mapVars PROVE TypeOK'
    BY <2>2 DEF LazyInit, mapVars, sweepVars
  <2>3. ASSUME NEW p \in Producers, Notify(p), deserted' = deserted \ {cur[p]},
               UNCHANGED sweepVars
        PROVE  TypeOK'
    <3>1. CASE \E c \in Parked(cur[p]) :
                 pc' = [pc EXCEPT ![p] = "push", ![c] = "pop"] /\ UNCHANGED notiFy
      BY <2>3, <3>1 DEF Notify, Parked, mapVars, sweepVars
    <3>2. CASE notiFy' = [notiFy EXCEPT ![cur[p]] = TrySend(@)] /\ Goto(p, "push")
      <4>1. TrySend(notiFy[cur[p]]) \in 0 .. ChanCap
        BY <2>3 DEF TrySend
      <4>2. notiFy' \in [Handles -> 0 .. ChanCap]
        BY <3>2, <4>1
      <4>3. QED
        BY <2>3, <3>2, <4>2 DEF Notify, mapVars, sweepVars
    <3>3. QED
      BY <2>3, <3>1, <3>2 DEF Notify
  <2>4. ASSUME NEW p \in Producers, PushBack(p), UNCHANGED mapVars PROVE TypeOK'
    <3>1. cur[p] \in Handles /\ ItemOf(p) \in Item
      BY DEF ItemOf, Item
    <3>2. Append(deque[cur[p]], ItemOf(p)) \in Seq(Item)
      BY <3>1
    <3>3. deque' \in [Handles -> Seq(Item)]
      BY <2>4, <3>1, <3>2 DEF PushBack
    <3>4. QED
      BY <2>4, <3>3 DEF PushBack, mapVars, sweepVars
  <2>5. ASSUME NEW c \in Consumers, Get(c) PROVE TypeOK'
    <3>1. (calltime + 1) % SweepEvery \in 0 .. SweepEvery - 1
      BY FifoAssumption DEF FifoAssumption
    <3>2. QED
      BY <2>5, <3>1 DEF Get, handleVars
  <2>6. ASSUME NEW c \in Consumers, TestCall(c) PROVE TypeOK'
    BY <2>6 DEF TestCall, handleVars
  <2>7. ASSUME NEW c \in Consumers, SweepNext(c) PROVE TypeOK'
    <3>1. CASE \E s \in toSweep[c] :
                 /\ toSweep' = [toSweep EXCEPT ![c] = @ \ {s}]
                 /\ visiting' = [visiting EXCEPT ![c] = s]
                 /\ seenIdle' = [seenIdle EXCEPT ![c] = idle[s]]
                 /\ Goto(c, "cangc")
      <4>1. PICK s \in toSweep[c] :
              /\ toSweep' = [toSweep EXCEPT ![c] = @ \ {s}]
              /\ visiting' = [visiting EXCEPT ![c] = s]
              /\ seenIdle' = [seenIdle EXCEPT ![c] = idle[s]]
              /\ Goto(c, "cangc")
        BY <3>1
      <4>2. s \in Handles /\ toSweep[c] \ {s} \in SUBSET Handles
        OBVIOUS
      <4>3. /\ toSweep' \in [Consumers -> SUBSET Handles]
            /\ visiting' \in [Consumers -> Handles]
            /\ seenIdle' \in [Consumers -> BOOLEAN]
        BY <4>1, <4>2
      <4>4. QED
        BY <2>7, <4>1, <4>3 DEF SweepNext, handleVars
    <3>2. CASE Goto(c, "load") /\ UNCHANGED <<toSweep, visiting, seenIdle>>
      BY <2>7, <3>2 DEF SweepNext, handleVars
    <3>3. QED
      BY <2>7, <3>1, <3>2 DEF SweepNext
  <2>8. ASSUME NEW c \in Consumers, CanGc(c) PROVE TypeOK'
    <3>1. CASE /\ mutex' = [mutex EXCEPT ![visiting[c]] = c]
               /\ Goto(c, "stuck")
      BY <2>8, <3>1 DEF CanGc, mapVars, sweepVars
    <3>2. CASE Goto(c, "sweep") /\ UNCHANGED mutex
      BY <2>8, <3>2 DEF CanGc, mapVars, sweepVars
    <3>3. QED
      BY <2>8, <3>1, <3>2 DEF CanGc
  <2>9. ASSUME NEW c \in Consumers, Load(c) PROVE TypeOK'
    <3>1. CASE Goto(c, "lazy") /\ UNCHANGED ret
      BY <2>9, <3>1 DEF Load, handleVars, mapVars, sweepVars
    <3>2. CASE Goto(c, "call") /\ ret' = [ret EXCEPT ![c] = Nil]
      BY <2>9, <3>2 DEF Load, handleVars, mapVars, sweepVars
    <3>3. QED
      BY <2>9, <3>1, <3>2 DEF Load
  <2>10. ASSUME NEW c \in Consumers, LazyInit(c, "check"), UNCHANGED mapVars PROVE TypeOK'
    BY <2>10 DEF LazyInit, mapVars, sweepVars
  <2>11. ASSUME NEW c \in Consumers, CheckSize(c), UNCHANGED mapVars PROVE TypeOK'
    BY <2>11 DEF CheckSize, handleVars, mapVars, sweepVars
  <2>12. ASSUME NEW c \in Consumers, Receive(c), UNCHANGED mapVars PROVE TypeOK'
    <3>1. CASE /\ notiFy[cur[c]] > 0
               /\ notiFy' = [notiFy EXCEPT ![cur[c]] = @ - 1]
               /\ Goto(c, "pop")
      <4>1. notiFy[cur[c]] - 1 \in 0 .. ChanCap
        BY <3>1
      <4>2. notiFy' \in [Handles -> 0 .. ChanCap]
        BY <3>1, <4>1
      <4>3. QED
        BY <2>12, <3>1, <4>2 DEF Receive, mapVars, sweepVars
    <3>2. CASE Goto(c, "parked") /\ UNCHANGED notiFy
      BY <2>12, <3>2 DEF Receive, mapVars, sweepVars
    <3>3. QED
      BY <2>12, <3>1, <3>2 DEF Receive
  <2>13. ASSUME NEW c \in Consumers, Pop(c), UNCHANGED mapVars PROVE TypeOK'
    <3>1. CASE /\ deque[cur[c]] # <<>>
               /\ ret' = [ret EXCEPT ![c] = FrontOf(deque[cur[c]])]
               /\ deque' = [deque EXCEPT ![cur[c]] = Tail(@)]
      <4>1. cur[c] \in Handles
        OBVIOUS
      <4>2. Head(deque[cur[c]]) \in Item /\ Tail(deque[cur[c]]) \in Seq(Item)
        BY <3>1, <4>1, HeadTailProperties
      <4>3. deque' \in [Handles -> Seq(Item)] /\ ret' \in [Consumers -> Item \cup {Nil}]
        BY <3>1, <4>1, <4>2 DEF FrontOf
      <4>4. QED
        BY <2>13, <4>3 DEF Pop, mapVars, sweepVars
    <3>2. CASE ret' = [ret EXCEPT ![c] = Nil] /\ UNCHANGED deque
      BY <2>13, <3>2 DEF Pop, mapVars, sweepVars
    <3>3. QED
      BY <2>13, <3>1, <3>2 DEF Pop
  <2>14. ASSUME NEW s \in Handles, Age(s) PROVE TypeOK'
    BY <2>14 DEF Age, threadVars, mapVars, sweepVars
  <2>15. ASSUME NEW c \in Consumers, Leave(c) PROVE TypeOK'
    <3>1. pc' = [pc EXCEPT ![c] = "gone"] /\ deserted' \subseteq Handles
      BY <2>15 DEF Leave
    <3>2. QED
      BY <2>15, <3>1 DEF Leave, handleVars, sweepVars
  <2>16. CASE UNCHANGED vars
    BY <2>16 DEF vars, handleVars, threadVars, mapVars, sweepVars
  <2>17. QED
    BY <2>1, <2>2, <2>3, <2>4, <2>5, <2>6, <2>7, <2>8, <2>9, <2>10, <2>11,
       <2>12, <2>13, <2>14, <2>15, <2>16
    DEF Next, ProducerStep, GetStep, ReadStep
<1>3. QED
  BY <1>1, <1>2, PTL DEF Spec

-----------------------------------------------------------------------------
(* A handle is quiet when no token is buffered, each of its readers is at, *)
(* or blocked in, <-q.NotiFy, and none of them has left items behind.  The *)
(* next AddData ends the quiet, so while it lasts a producer can finish at *)
(* most the call that it is in.                                            *)
Quiet(h) ==
  /\ h \notin deserted
  /\ notiFy[h] = 0
  /\ \A c \in Readers(h) : pc[c] \in {"recv", "parked"}

NoneOf(p, s) == \A i \in 1 .. Len(s) : s[i].from # p

QuietInv ==
  \A h \in Handles : Quiet(h) =>
    /\ OneEach(deque[h])
    /\ \A p \in Producers : pc[p] = "push" /\ cur[p] = h => NoneOf(p, deque[h])

(* A reader blocks only when the channel is empty, and a token goes to a   *)
(* blocked reader before it goes to the buffer.                            *)
ParkedInv == \A c \in Consumers : pc[c] = "parked" => notiFy[cur[c]] = 0

StallInv == TypeOK /\ QuietInv /\ ParkedInv

(* A list with one item of each producer stays one when a producer that has *)
(* none in it appends.                                                     *)
LEMMA AppendOneEach ==
  ASSUME NEW s \in Seq(Item), NEW e \in Item, OneEach(s), NoneOf(e.from, s)
  PROVE  /\ OneEach(Append(s, e))
         /\ \A p \in Producers : p # e.from /\ NoneOf(p, s) => NoneOf(p, Append(s, e))
<1>1. /\ Len(s) \in Nat
      /\ Len(Append(s, e)) = Len(s) + 1
      /\ Append(s, e)[Len(s) + 1] = e
      /\ \A i \in 1 .. Len(s) : Append(s, e)[i] = s[i]
  OBVIOUS
<1>2. OneEach(Append(s, e))
  <2> SUFFICES ASSUME NEW i \in 1 .. Len(s) + 1, NEW j \in 1 .. Len(s) + 1,
                      Append(s, e)[i].from = Append(s, e)[j].from
               PROVE  i = j
    BY <1>1 DEF OneEach
  <2>1. CASE i \in 1 .. Len(s) /\ j \in 1 .. Len(s)
    BY <1>1, <2>1 DEF OneEach
  <2>2. CASE i = Len(s) + 1 /\ j \in 1 .. Len(s)
    BY <1>1, <2>2 DEF NoneOf
  <2>3. CASE i \in 1 .. Len(s) /\ j = Len(s) + 1
    BY <1>1, <2>3 DEF NoneOf
  <2>4. QED
    BY <1>1, <2>1, <2>2, <2>3
<1>3. ASSUME NEW p \in Producers, p # e.from, NoneOf(p, s)
      PROVE  NoneOf(p, Append(s, e))
  <2> SUFFICES ASSUME NEW i \in 1 .. Len(s) + 1 PROVE Append(s, e)[i].from # p
    BY <1>1 DEF NoneOf
  <2>1. CASE i \in 1 .. Len(s)
    BY <1>1, <1>3, <2>1 DEF NoneOf
  <2>2. CASE i = Len(s) + 1
    BY <1>1, <1>3, <2>2
  <2>3. QED
    BY <1>1, <2>1, <2>2
<1>4. QED
  BY <1>2, <1>3

(* A step that ends in a quiet handle and found it quiet keeps QuietInv    *)
(* when it leaves the list alone and brings no producer to its PushBack.   *)
LEMMA QuietStep ==
  ASSUME QuietInv,
         \A h \in Handles : Quiet(h)' =>
           /\ Quiet(h)
           /\ deque'[h] = deque[h]
           /\ \A p \in Producers : pc'[p] = "push" /\ cur'[p] = h
                                   => pc[p] = "push" /\ cur[p] = h
  PROVE  QuietInv'
<1> SUFFICES ASSUME NEW h \in Handles, Quiet(h)'
             PROVE  /\ OneEach(deque'[h])
                    /\ \A p \in Producers : pc'[p] = "push" /\ cur'[p] = h
                                            => NoneOf(p, deque'[h])
  BY DEF QuietInv, OneEach, NoneOf
<1>1. /\ OneEach(deque[h])
      /\ \A p \in Producers : pc[p] = "push" /\ cur[p] = h => NoneOf(p, deque[h])
  BY DEF QuietInv
<1>2. deque'[h] = deque[h]
  OBVIOUS
<1>3. OneEach(deque'[h])
  BY <1>1, <1>2
<1>4. ASSUME NEW p \in Producers, pc'[p] = "push", cur'[p] = h
      PROVE  NoneOf(p, deque'[h])
  BY <1>1, <1>2, <1>4
<1>5. QED
  BY <1>3, <1>4

(* Steps of a consumer that end outside <-q.NotiFy and touch no list leave *)
(* both parts alone: its handle is not quiet afterwards.                   *)
LEMMA ConsumerMoves ==
  ASSUME StallInv, NEW c \in Consumers, NEW label \in ConsumerLabels \ {"recv", "parked", "gone"},
         Goto(c, label), cur' = cur, notiFy' = notiFy, deserted' = deserted,
         \A h \in Handles : h # cur[c] => deque'[h] = deque[h]
  PROVE  QuietInv' /\ ParkedInv'
<1> USE ThreadsFacts DEF StallInv, TypeOK, Goto
<1>1. pc'[c] = label /\ (\A t \in Threads \ {c} : pc'[t] = pc[t])
      /\ label \notin {"recv", "parked", "gone"}
  OBVIOUS
<1>2. ParkedInv'
  BY <1>1 DEF ParkedInv
<1>3. ASSUME NEW h \in Handles, Quiet(h)'
      PROVE  cur[c] # h /\ Quiet(h)
  BY <1>1, <1>3 DEF Quiet, Readers
<1>4. QuietInv'
  BY <1>1, <1>3, QuietStep
<1>5. QED
  BY <1>2, <1>4

(* What a lost wake-up can cost, for any number of producers and readers:  *)
(* when all readers of a handle sleep, its list holds at most one item of  *)
(* each producer (AddData and PopData, new/fifo_queue.go:48-83), unless a  *)
(* writer left with the wake-up (new/server_tcp.go:444-463).               *)
THEOREM StallsAreBounded == Spec => []StallBounded
<1>1. Init => QuietInv /\ ParkedInv
  BY HandleAssumption DEF Init, InitHandles, QuietInv, ParkedInv, OneEach, NoneOf,
     Threads, HandleAssumption
<1>2. StallInv /\ [Next]_vars => (QuietInv /\ ParkedInv)'
  <2> SUFFICES ASSUME StallInv, [Next]_vars PROVE QuietInv' /\ ParkedInv'
    OBVIOUS
  <2> USE ThreadsFacts DEF StallInv, TypeOK, HandleTypeOK
  <2>1. ASSUME NEW p \in Producers, NEW s \in Handles, Put(p, s)
        PROVE  QuietInv' /\ ParkedInv'
    <3>1. \A c \in Consumers : pc'[c] = pc[c] /\ cur'[c] = cur[c]
      BY <2>1 DEF Put, Goto
    <3>2. deque' = deque /\ notiFy' = notiFy /\ deserted' = deserted /\ pc'[p] = "lazy"
      BY <2>1 DEF Put, Goto, handleVars
    <3>3. \A q \in Producers \ {p} : pc'[q] = pc[q] /\ cur'[q] = cur[q]
      BY <2>1 DEF Put, Goto
    <3>4. \A h \in Handles : Quiet(h)' => Quiet(h)
      BY <3>1, <3>2 DEF Quiet, Readers
    <3>5. QuietInv'
      BY <3>2, <3>3, <3>4, QuietStep
    <3>6. QED
      BY <3>1, <3>2, <3>5 DEF ParkedInv
  <2>2. ASSUME NEW p \in Producers, LazyInit(p, "notify"), UNCHANGED mapVars
        PROVE  QuietInv' /\ ParkedInv'
    <3>1. /\ \A c \in Consumers : pc'[c] = pc[c]
          /\ \A q \in Producers : pc'[q] = "push" => pc[q] = "push"
          /\ deque' = deque /\ notiFy' = notiFy /\ cur' = cur /\ deserted' = deserted
      BY <2>2 DEF LazyInit, Goto, mapVars
    <3>2. \A h \in Handles : Quiet(h)' => Quiet(h)
      BY <3>1 DEF Quiet, Readers
    <3>3. QuietInv'
      BY <3>1, <3>2, QuietStep
    <3>4. QED
      BY <3>1, <3>3 DEF ParkedInv
  <2>3. ASSUME NEW p \in Producers, Notify(p), deserted' = deserted \ {cur[p]}
        PROVE  QuietInv' /\ ParkedInv'
    <3>1. deque' = deque /\ cur' = cur /\ deserted' = deserted \ {cur[p]}
      BY <2>3 DEF Notify
    <3>2. CASE \E c \in Parked(cur[p]) :
                 pc' = [pc EXCEPT ![p] = "push", ![c] = "pop"] /\ UNCHANGED notiFy
      <4>1. PICK c \in Parked(cur[p]) : pc' = [pc EXCEPT ![p] = "push", ![c] = "pop"]
        BY <3>2
      <4>2. /\ c \in Consumers /\ cur[c] = cur[p] /\ pc'[c] = "pop"
            /\ \A t \in Threads \ {p, c} : pc'[t] = pc[t]
            /\ pc'[p] = "push" /\ notiFy' = notiFy
        BY <3>2, <4>1 DEF Parked
      <4>3. \A h \in Handles : Quiet(h)' => h # cur[p] /\ Quiet(h)
        BY <3>1, <4>2 DEF Quiet, Readers
      <4>4. QuietInv'
        BY <3>1, <4>2, <4>3, QuietStep
      <4>5. QED
        BY <3>1, <4>2, <4>4 DEF ParkedInv
    <3>3. CASE /\ Parked(cur[p]) = {}
               /\ notiFy' = [notiFy EXCEPT ![cur[p]] = TrySend(@)]
               /\ Goto(p, "push")
      <4>1. /\ notiFy'[cur[p]] = 1
            /\ \A h \in Handles \ {cur[p]} : notiFy'[h] = notiFy[h]
            /\ \A t \in Threads \ {p} : pc'[t] = pc[t]
            /\ pc'[p] = "push"
        BY <3>3 DEF TrySend, ChanCap, Goto
      <4>2. ASSUME NEW h \in Handles, Quiet(h)' PROVE h # cur[p] /\ Quiet(h)
        <5>1. h # cur[p]
          BY <4>1, <4>2 DEF Quiet
        <5>2. QED
          BY <3>1, <4>1, <4>2, <5>1 DEF Quiet, Readers
      <4>3. QuietInv'
        BY <3>1, <4>1, <4>2, QuietStep
      <4>4. ParkedInv'
        <5> SUFFICES ASSUME NEW c \in Consumers, pc'[c] = "parked" PROVE notiFy'[cur[c]] = 0
          BY <3>1 DEF ParkedInv
        <5>1. pc[c] = "parked"
          BY <4>1
        <5>2. cur[c] # cur[p]
          BY <3>3, <5>1 DEF Parked
        <5>3. QED
          BY <4>1, <5>1, <5>2 DEF ParkedInv
      <4>5. QED
        BY <4>3, <4>4
    <3>4. QED
      BY <2>3, <3>2, <3>3 DEF Notify
  <2>4. ASSUME NEW p \in Producers, PushBack(p), UNCHANGED mapVars
        PROVE  QuietInv' /\ ParkedInv'
    <3>1. /\ cur' = cur /\ notiFy' = notiFy /\ deserted' = deserted
          /\ pc[p] = "push" /\ pc'[p] = "idle"
          /\ \A t \in Threads \ {p} : pc'[t] = pc[t]
          /\ deque'[cur[p]] = Append(deque[cur[p]], ItemOf(p))
          /\ \A h \in Handles \ {cur[p]} : deque'[h] = deque[h]
      BY <2>4 DEF PushBack, Goto, mapVars
    <3>2. ParkedInv'
      BY <3>1 DEF ParkedInv
    <3>3. \A h \in Handles : Quiet(h)' => Quiet(h)
      BY <3>1 DEF Quiet, Readers
    <3>4. ItemOf(p) \in Item /\ ItemOf(p).from = p
      BY DEF ItemOf, Item
    <3>5. ASSUME NEW h \in Handles, Quiet(h)'
          PROVE  /\ OneEach(deque'[h])
                 /\ \A q \in Producers : pc'[q] = "push" /\ cur'[q] = h
                                        => NoneOf(q, deque'[h])
      <4>1. OneEach(deque[h])
            /\ \A q \in Producers : pc[q] = "push" /\ cur[q] = h => NoneOf(q, deque[h])
        BY <3>3, <3>5 DEF QuietInv
      <4>2. CASE h = cur[p]
        <5>1. /\ OneEach(Append(deque[h], ItemOf(p)))
              /\ \A q \in Producers : q # p /\ NoneOf(q, deque[h])
                                      => NoneOf(q, Append(deque[h], ItemOf(p)))
          BY <3>1, <3>4, <4>1, <4>2, AppendOneEach
        <5>2. deque'[h] = Append(deque[h], ItemOf(p))
          BY <3>1, <4>2
        <5>3. ASSUME NEW q \in Producers, pc'[q] = "push", cur'[q] = h
              PROVE  NoneOf(q, deque'[h])
          <6>1. q # p /\ pc[q] = "push" /\ cur[q] = h
            BY <3>1, <5>3
          <6>2. NoneOf(q, deque[h])
            BY <4>1, <6>1
          <6>3. QED
            BY <5>1, <5>2, <6>1, <6>2
        <5>4. QED
          BY <5>1, <5>2, <5>3
      <4>3. CASE h # cur[p]
        BY <3>1, <4>1, <4>3
      <4>4. QED
        BY <4>2, <4>3
    <3>6. QED
      BY <3>2, <3>5 DEF QuietInv, OneEach, NoneOf
  <2>5. ASSUME NEW c \in Consumers, Get(c) PROVE QuietInv' /\ ParkedInv'
    BY <2>5, ConsumerMoves DEF Get, handleVars, ConsumerLabels
  <2>6. ASSUME NEW c \in Consumers, TestCall(c) PROVE QuietInv' /\ ParkedInv'
    BY <2>6, ConsumerMoves DEF TestCall, handleVars, ConsumerLabels
  <2>7. ASSUME NEW c \in Consumers, SweepNext(c) PROVE QuietInv' /\ ParkedInv'
    BY <2>7, ConsumerMoves DEF SweepNext, handleVars, ConsumerLabels
  <2>8. ASSUME NEW c \in Consumers, CanGc(c) PROVE QuietInv' /\ ParkedInv'
    BY <2>8, ConsumerMoves DEF CanGc, ConsumerLabels, mapVars
  <2>9. ASSUME NEW c \in Consumers, Load(c) PROVE QuietInv' /\ ParkedInv'
    BY <2>9, ConsumerMoves DEF Load, handleVars, ConsumerLabels, mapVars
  <2>10. ASSUME NEW c \in Consumers, LazyInit(c, "check"), UNCHANGED mapVars
         PROVE  QuietInv' /\ ParkedInv'
    BY <2>10, ConsumerMoves DEF LazyInit, ConsumerLabels, mapVars
  <2>11. ASSUME NEW c \in Consumers, CheckSize(c), UNCHANGED mapVars
         PROVE  QuietInv' /\ ParkedInv'
    <3>1. CASE deque[cur[c]] # <<>>
      BY <2>11, <3>1, ConsumerMoves DEF CheckSize, handleVars, ConsumerLabels, mapVars
    <3>2. CASE deque[cur[c]] = <<>>
      <4>1. /\ pc'[c] = "recv" /\ \A t \in Threads \ {c} : pc'[t] = pc[t]
            /\ deque' = deque /\ notiFy' = notiFy /\ cur' = cur /\ deserted' = deserted
        BY <2>11, <3>2 DEF CheckSize, handleVars, Goto, mapVars
      <4>2. ParkedInv'
        BY <4>1 DEF ParkedInv
      <4>3. ASSUME NEW h \in Handles, Quiet(h)', h # cur[c] PROVE Quiet(h)
        BY <4>1, <4>3 DEF Quiet, Readers
      <4>4. OneEach(<<>>) /\ \A p \in Producers : NoneOf(p, <<>>)
        BY DEF OneEach, NoneOf
      <4>5. ASSUME NEW h \in Handles, Quiet(h)'
            PROVE  /\ OneEach(deque'[h])
                   /\ \A p \in Producers : pc'[p] = "push" /\ cur'[p] = h
                                           => NoneOf(p, deque'[h])
        <5>1. CASE h = cur[c]
          BY <3>2, <4>1, <4>4, <5>1
        <5>2. CASE h # cur[c]
          <6>1. /\ OneEach(deque[h])
                /\ \A p \in Producers : pc[p] = "push" /\ cur[p] = h
                                        => NoneOf(p, deque[h])
            BY <4>3, <4>5, <5>2 DEF QuietInv
          <6>2. \A p \in Producers : pc'[p] = pc[p] /\ cur'[p] = cur[p]
            BY <4>1
          <6>3. QED
            BY <4>1, <6>1, <6>2
        <5>3. QED
          BY <5>1, <5>2
      <4>6. QED
        BY <4>2, <4>5 DEF QuietInv, OneEach, NoneOf
    <3>3. QED
      BY <3>1, <3>2
  <2>12. ASSUME NEW c \in Consumers, Receive(c), UNCHANGED mapVars
         PROVE  QuietInv' /\ ParkedInv'
    <3>1. deque' = deque /\ cur' = cur /\ deserted' = deserted /\ pc[c] = "recv"
      BY <2>12 DEF Receive, mapVars
    <3>2. CASE /\ notiFy[cur[c]] > 0
               /\ notiFy' = [notiFy EXCEPT ![cur[c]] = @ - 1]
               /\ Goto(c, "pop")
      <4>1. /\ pc'[c] = "pop" /\ \A t \in Threads \ {c} : pc'[t] = pc[t]
            /\ \A h \in Handles \ {cur[c]} : notiFy'[h] = notiFy[h]
        BY <3>2 DEF Goto
      <4>2. \A h \in Handles : Quiet(h)' => h # cur[c] /\ Quiet(h)
        BY <3>1, <4>1 DEF Quiet, Readers
      <4>3. QuietInv'
        BY <3>1, <4>1, <4>2, QuietStep
      <4>4. ParkedInv'
        <5>1. SUFFICES ASSUME NEW d \in Consumers, pc'[d] = "parked"
                       PROVE  notiFy'[cur'[d]] = 0
          BY DEF ParkedInv
        <5>2. d # c /\ pc[d] = "parked" /\ notiFy[cur[d]] = 0
          BY <4>1, <5>1 DEF ParkedInv
        <5>3. cur[d] # cur[c]
          BY <3>2, <5>2
        <5>4. QED
          BY <3>1, <4>1, <5>2, <5>3
      <4>5. QED
        BY <4>3, <4>4
    <3>3. CASE notiFy[cur[c]] = 0 /\ Goto(c, "parked") /\ UNCHANGED notiFy
      <4>1. pc'[c] = "parked" /\ \A t \in Threads \ {c} : pc'[t] = pc[t]
        BY <3>3 DEF Goto
      <4>2. \A h \in Handles : Quiet(h)' => Quiet(h)
        BY <3>1, <3>3, <4>1 DEF Quiet, Readers
      <4>3. QuietInv'
        BY <3>1, <4>1, <4>2, QuietStep
      <4>4. QED
        BY <3>1, <3>3, <4>1, <4>3 DEF ParkedInv
    <3>4. QED
      BY <2>12, <3>2, <3>3 DEF Receive
  <2>13. ASSUME NEW c \in Consumers, Pop(c), UNCHANGED mapVars
         PROVE  QuietInv' /\ ParkedInv'
    BY <2>13, ConsumerMoves DEF Pop, ConsumerLabels, mapVars
  <2>14. ASSUME NEW s \in Handles, Age(s) PROVE QuietInv' /\ ParkedInv'
    BY <2>14 DEF Age, threadVars, mapVars, QuietInv, ParkedInv, Quiet, Readers, OneEach, NoneOf
  <2>15. ASSUME NEW c \in Consumers, Leave(c) PROVE QuietInv' /\ ParkedInv'
    <3>1. /\ pc'[c] = "gone" /\ \A t \in Threads \ {c} : pc'[t] = pc[t]
          /\ deque' = deque /\ notiFy' = notiFy /\ cur' = cur
          /\ deserted \subseteq deserted'
          /\ \A h \in Handles : h # cur[c] => (h \in deserted' <=> h \in deserted)
      BY <2>15 DEF Leave, Goto, handleVars
    <3>2. ParkedInv'
      BY <3>1 DEF ParkedInv
    <3>3. ASSUME NEW h \in Handles, Quiet(h)', h # cur[c] PROVE Quiet(h)
      BY <3>1, <3>3 DEF Quiet, Readers
    <3>4. ASSUME Quiet(cur[c])' PROVE deque[cur[c]] = <<>>
      <4>1. cur[c] \notin deserted' /\ notiFy[cur[c]] = 0
        BY <3>1, <3>4 DEF Quiet
      <4>2. ASSUME NEW d \in Readers(cur[c]) \ {c} PROVE Asleep(d)
        <5>1. d \in Consumers /\ cur[d] = cur[c] /\ pc'[d] = pc[d] /\ pc[d] # "gone"
          BY <3>1 DEF Readers
        <5>2. pc[d] \in {"recv", "parked"}
          BY <3>1, <3>4, <5>1 DEF Quiet, Readers
        <5>3. QED
          BY <4>1, <5>1, <5>2 DEF Asleep
      <4>3. QED
        BY <2>15, <4>1, <4>2 DEF Leave
    <3>5. OneEach(<<>>) /\ \A p \in Producers : NoneOf(p, <<>>)
      BY DEF OneEach, NoneOf
    <3>6. ASSUME NEW h \in Handles, Quiet(h)'
          PROVE  /\ OneEach(deque'[h])
                 /\ \A p \in Producers : pc'[p] = "push" /\ cur'[p] = h
                                         => NoneOf(p, deque'[h])
      <4>1. CASE h = cur[c]
        BY <3>1, <3>4, <3>5, <3>6, <4>1
      <4>2. CASE h # cur[c]
        <5>1. /\ OneEach(deque[h])
              /\ \A p \in Producers : pc[p] = "push" /\ cur[p] = h
                                      => NoneOf(p, deque[h])
          BY <3>3, <3>6, <4>2 DEF QuietInv
        <5>2. \A p \in Producers : pc'[p] = pc[p] /\ cur'[p] = cur[p]
          BY <3>1
        <5>3. QED
          BY <3>1, <5>1, <5>2
      <4>3. QED
        BY <4>1, <4>2
    <3>7. QED
      BY <3>2, <3>6 DEF QuietInv, OneEach, NoneOf
  <2>16. CASE UNCHANGED vars
    BY <2>16 DEF vars, handleVars, threadVars, mapVars, QuietInv, ParkedInv, Quiet, Readers,
                 OneEach, NoneOf
  <2>17. QED
    BY <2>1, <2>2, <2>3, <2>4, <2>5, <2>6, <2>7, <2>8, <2>9, <2>10, <2>11,
       <2>12, <2>13, <2>14, <2>15, <2>16
    DEF Next, ProducerStep, GetStep, ReadStep
<1>3. StallInv => StallBounded
  BY DEF StallInv, StallBounded, AllParked, QuietInv, ParkedInv, Quiet, Readers, Parked
<1>4. QED
  BY <1>1, <1>2, <1>3, TypeCorrect, PTL DEF Spec, StallInv

-----------------------------------------------------------------------------
(* A step that neither changes a list nor a result, and moves no producer  *)
(* between "idle" and the rest of AddData, is a stutter of SerialFifo.     *)
LEMMA StutterStep ==
  ASSUME deque' = deque, ret' = ret,
         \A p \in Producers : IF pc'[p] = "idle" THEN puts'[p] = pushed[p]
                                                ELSE puts'[p] - 1 = pushed[p]
  PROVE  UNCHANGED Fifo!vars
<1>1. pushed' = [p \in Producers |-> IF pc'[p] = "idle" THEN puts'[p] ELSE puts'[p] - 1]
  BY DEF pushed
<1>2. pushed = [p \in Producers |-> IF pc[p] = "idle" THEN puts[p] ELSE puts[p] - 1]
  BY DEF pushed
<1>3. pushed' = pushed
  BY <1>1, <1>2
<1>4. QED
  BY <1>3 DEF Fifo!vars

(* FifoQueue's Put and Get, with all the interleavings of AddData, PopData *)
(* and the sweep (new/fifo_queue.go:27-175), implement one FIFO per serial.*)
THEOREM QueueIsFifo == Spec => ImplementsFifo
<1>1. Init => Fifo!Init
  BY ThreadsFacts DEF Init, InitHandles, Fifo!Init, pushed
<1>2. TypeOK /\ [Next]_vars => [Fifo!Next]_(Fifo!vars)
  <2> SUFFICES ASSUME TypeOK, [Next]_vars PROVE Fifo!Next \/ UNCHANGED Fifo!vars
    OBVIOUS
  <2> USE ThreadsFacts DEF TypeOK, HandleTypeOK
  <2>1. ASSUME NEW p \in Producers, NEW s \in Handles, Put(p, s)
        PROVE  UNCHANGED Fifo!vars
    <3>1. /\ pc[p] = "idle" /\ pc'[p] = "lazy" /\ puts'[p] = puts[p] + 1
          /\ \A q \in Producers \ {p} : pc'[q] = pc[q] /\ puts'[q] = puts[q]
          /\ deque' = deque /\ ret' = ret
      BY <2>1 DEF Put, Goto, handleVars
    <3>2. ASSUME NEW q \in Producers
          PROVE  IF pc'[q] = "idle" THEN puts'[q] = pushed[q] ELSE puts'[q] - 1 = pushed[q]
      <4>1. CASE q = p
        <5>1. pushed[p] = puts[p] /\ puts[p] \in Nat
          BY <3>1 DEF pushed
        <5>2. puts'[p] - 1 = puts[p]
          BY <3>1, <5>1
        <5>3. QED
          BY <3>1, <4>1, <5>1, <5>2
      <4>2. CASE q # p
        BY <3>1, <4>2 DEF pushed
      <4>3. QED
        BY <4>1, <4>2
    <3>3. QED
      BY <3>1, <3>2, StutterStep
  <2>2. ASSUME NEW p \in Producers, LazyInit(p, "notify") \/ Notify(p)
        PROVE  UNCHANGED Fifo!vars
    <3>1. /\ deque' = deque /\ ret' = ret /\ puts' = puts
          /\ \A q \in Producers : pc'[q] = "idle" <=> pc[q] = "idle"
      BY <2>2 DEF LazyInit, Notify, Parked, Goto
    <3>2. QED
      BY <3>1, StutterStep DEF pushed
  <2>3. ASSUME NEW p \in Producers, PushBack(p) PROVE Fifo!Put(p, cur[p])
    <3>1. /\ pc[p] = "push" /\ pc'[p] = "idle" /\ puts' = puts /\ ret' = ret
          /\ \A q \in Producers \ {p} : pc'[q] = pc[q]
          /\ deque' = [deque EXCEPT ![cur[p]] = Append(@, ItemOf(p))]
      BY <2>3 DEF PushBack, Goto
    <3>2. pushed[p] + 1 = puts[p] /\ pushed'[p] = puts[p]
      BY <3>1 DEF pushed
    <3>3. \A q \in Producers \ {p} : pushed'[q] = pushed[q]
      BY <3>1 DEF pushed
    <3>4. pushed' = [pushed EXCEPT ![p] = @ + 1]
      <4>1. pushed' = [q \in Producers |-> pushed'[q]]
            /\ pushed = [q \in Producers |-> pushed[q]]
        BY DEF pushed
      <4>2. QED
        BY <3>2, <3>3, <4>1
    <3>5. ItemOf(p) = [from |-> p, n |-> pushed[p] + 1]
      BY <3>2 DEF ItemOf
    <3>6. QED
      BY <3>1, <3>4, <3>5 DEF Fifo!Put
  <2>4. ASSUME NEW c \in Consumers,
               \/ Get(c) \/ Leave(c) \/ TestCall(c) \/ SweepNext(c) \/ CanGc(c)
               \/ LazyInit(c, "check") \/ CheckSize(c) \/ Receive(c)
        PROVE  UNCHANGED Fifo!vars
    <3>1. /\ deque' = deque /\ ret' = ret /\ puts' = puts
          /\ \A q \in Producers : pc'[q] = pc[q]
      BY <2>4 DEF Get, Leave, TestCall, SweepNext, CanGc, LazyInit, CheckSize, Receive, Goto,
                  handleVars
    <3>2. QED
      BY <3>1, StutterStep DEF pushed
  <2>5. ASSUME NEW c \in Consumers, Load(c) PROVE Fifo!Miss(c) \/ UNCHANGED Fifo!vars
    <3>1. deque' = deque /\ puts' = puts /\ \A q \in Producers : pc'[q] = pc[q]
      BY <2>5 DEF Load, Goto, handleVars
    <3>2. pushed' = pushed
      BY <3>1 DEF pushed
    <3>3. ret' = ret \/ ret' = [ret EXCEPT ![c] = Nil]
      BY <2>5 DEF Load
    <3>4. QED
      BY <3>1, <3>2, <3>3 DEF Fifo!Miss, Fifo!vars
  <2>6. ASSUME NEW c \in Consumers, Pop(c) PROVE Fifo!Take(c) \/ Fifo!Miss(c)
    <3>1. puts' = puts /\ \A q \in Producers : pc'[q] = pc[q]
      BY <2>6 DEF Pop, Goto
    <3>2. pushed' = pushed
      BY <3>1 DEF pushed
    <3>3. cur[c] = SerialOf[c]
      OBVIOUS
    <3>4. QED
      BY <2>6, <3>2, <3>3 DEF Pop, FrontOf, Fifo!Take, Fifo!Miss
  <2>7. ASSUME NEW s \in Handles, Age(s) PROVE UNCHANGED Fifo!vars
    BY <2>7 DEF Age, threadVars, Fifo!vars, pushed
  <2>8. CASE UNCHANGED vars
    BY <2>8 DEF vars, handleVars, threadVars, Fifo!vars, pushed
  <2>9. QED
    BY <2>1, <2>2, <2>3, <2>4, <2>5, <2>6, <2>7, <2>8
    DEF Next, ProducerStep, GetStep, ReadStep, Fifo!Next
<1>3. QED
  BY <1>1, <1>2, TypeCorrect, PTL DEF Spec, ImplementsFifo, Fifo!Spec
=============================================================================
