------------------------- MODULE SharedQueueProofs --------------------------
(***************************************************************************)
(* Theorems about SharedQueue, for any number of producers and writers.    *)
(***************************************************************************)
EXTENDS SharedQueue, TLAPS

(* Whoever puts data fetched a handle before; a thread at work on one has  *)
(* it.                                                                     *)
HoldsHandle ==
  \A t \in Threads : pc[t] \notin {"idle", "call", "create", "fetch"} => cur[t] # Nil

(* A handle is there once a thread is past its test for it.                *)
HandleThere == \A t \in Threads : pc[t] = "fetch" => single # Nil

HandleInv == TypeOK /\ HoldsHandle /\ HandleThere

(* The steps on a handle keep it well typed and leave the handles alone.   *)
LEMMA HandleSteps ==
  ASSUME HandleInv, NEW t \in Threads, UNCHANGED sharedVars,
         \/ LazyInit(t, "notify") \/ LazyInit(t, "check")
         \/ t \in Producers /\ (Notify(t) \/ PushBack(t))
         \/ t \in Consumers /\ (CheckSize(t) \/ Receive(t) \/ Pop(t))
  PROVE  HandleInv'
<1> USE HandleAssumption DEF HandleAssumption, HandleInv, TypeOK, HandleTypeOK, Goto, ChanCap, sharedVars
<1> DEFINE h == cur[t]
<1>1. h \in Handles
  BY DEF HoldsHandle, LazyInit, Notify, PushBack, CheckSize, Receive, Pop, Threads
<1>2. UNCHANGED <<cur, single, fresh>>
  BY DEF LazyInit, Notify, PushBack, CheckSize, Receive, Pop
<1>3. \A u \in Threads : /\ pc'[u] \in {"idle", "call", "create", "fetch"} =>
                              u = t \/ pc'[u] = pc[u]
                         /\ pc'[t] # "fetch" /\ pc[t] \notin {"create", "fetch"}
  BY DEF LazyInit, Notify, PushBack, CheckSize, Receive, Pop, Parked, Threads
<1>4. HandleThere'
  BY <1>2, <1>3 DEF HandleThere
<1>5. HoldsHandle'
  BY <1>1, <1>2 DEF HoldsHandle, LazyInit, Notify, PushBack, CheckSize, Receive, Pop, Parked, Threads
<1>6. TypeOK'
  <2>1. CASE LazyInit(t, "notify") \/ LazyInit(t, "check")
    BY <1>1, <1>2, <2>1 DEF LazyInit
  <2>2. CASE t \in Producers /\ Notify(t)
    <3>1. TrySend(notiFy[h]) \in 0 .. ChanCap
      BY <1>1 DEF TrySend
    <3>2. notiFy' \in [Handles -> 0 .. ChanCap]
      BY <1>1, <2>2, <3>1 DEF Notify
    <3>3. pc' \in [Threads -> {"idle", "call", "create", "fetch", "lazy", "notify", "push",
                               "check", "recv", "parked", "pop"}]
      BY <2>2 DEF Notify, Parked, Threads
    <3>4. QED
      BY <1>2, <2>2, <3>2, <3>3 DEF Notify
  <2>3. CASE t \in Producers /\ PushBack(t)
    <3>1. ItemOf(t) \in Item
      BY <2>3 DEF ItemOf, Item
    <3>2. Append(deque[h], ItemOf(t)) \in Seq(Item)
      BY <1>1, <3>1
    <3>3. deque' \in [Handles -> Seq(Item)]
      BY <1>1, <2>3, <3>2 DEF PushBack
    <3>4. QED
      BY <1>2, <2>3, <3>3 DEF PushBack
  <2>4. CASE t \in Consumers /\ CheckSize(t)
    BY <1>2, <2>4 DEF CheckSize, handleVars
  <2>5. CASE t \in Consumers /\ Receive(t)
    <3>1. notiFy[h] \in 0 .. 1
      BY <1>1
    <3>2. notiFy' \in [Handles -> 0 .. 1]
      <4>1. CASE notiFy[h] > 0 /\ notiFy' = [notiFy EXCEPT ![h] = @ - 1]
        <5>1. notiFy[h] - 1 \in 0 .. 1
          BY <3>1, <4>1
        <5>2. QED
          BY <4>1, <5>1
      <4>2. QED
        BY <2>5, <4>1 DEF Receive
    <3>3. pc' \in [Threads -> {"idle", "call", "create", "fetch", "lazy", "notify", "push",
                               "check", "recv", "parked", "pop"}]
      BY <2>5 DEF Receive
    <3>4. QED
      BY <1>2, <2>5, <3>2, <3>3 DEF Receive
  <2>6. CASE t \in Consumers /\ Pop(t)
    <3>1. CASE deque[h] # <<>>
      <4>1. Tail(deque[h]) \in Seq(Item) /\ FrontOf(deque[h]) \in Item
        BY <1>1, <3>1 DEF FrontOf
      <4>2. /\ deque' = [deque EXCEPT ![h] = Tail(deque[h])]
            /\ ret' = [ret EXCEPT ![t] = FrontOf(deque[h])]
            /\ pc' = [pc EXCEPT ![t] = "call"]
            /\ UNCHANGED <<notiFy, status, idle, mutex, puts>>
        BY <2>6, <3>1 DEF Pop
      <4>3. deque' \in [Handles -> Seq(Item)]
        BY <1>1, <4>1, <4>2
      <4>4. ret' \in [Consumers -> Item \cup {Nil}]
        BY <2>6, <4>1, <4>2
      <4>5. QED
        BY <1>2, <4>2, <4>3, <4>4
    <3>2. CASE deque[h] = <<>>
      BY <1>2, <2>6, <3>2 DEF Pop
    <3>3. QED
      BY <3>1, <3>2
  <2>7. QED
    BY <2>1, <2>2, <2>3, <2>4, <2>5, <2>6
<1>7. QED
  BY <1>4, <1>5, <1>6

(* So do the steps that come to a handle.                                  *)
LEMMA SharedSteps ==
  ASSUME HandleInv, NEW t \in Threads,
         \/ t \in Producers /\ SingelPut(t)
         \/ t \in Consumers /\ SingleGet(t)
         \/ Create(t) \/ Fetch(t)
  PROVE  HandleInv'
<1> USE HandleAssumption
    DEF HandleAssumption, HandleInv, TypeOK, HandleTypeOK, Goto, sharedVars, handleVars,
        HoldsHandle, HandleThere
<1>1. CASE t \in Producers /\ SingelPut(t)
  BY <1>1 DEF SingelPut, TestSingle, HandleMissing
<1>2. CASE t \in Consumers /\ SingleGet(t)
  BY <1>2 DEF SingleGet, TestSingle, HandleMissing
<1>3. CASE Create(t)
  <2>1. single' \in Handles /\ single' # Nil /\ fresh' \subseteq Handles
    BY <1>3 DEF Create
  <2>2. QED
    BY <1>3, <2>1 DEF Create
<1>4. CASE Fetch(t)
  BY <1>4 DEF Fetch
<1>5. QED
  BY <1>1, <1>2, <1>3, <1>4

(* Every step is one of these.                                             *)
LEMMA HandleInvStep == HandleInv /\ [Next]_vars => HandleInv'
<1> SUFFICES ASSUME HandleInv, [Next]_vars PROVE HandleInv'
  OBVIOUS
<1>1. CASE \E p \in Producers : SingelPut(p) \/ ProducerStep(p)
  BY <1>1, HandleSteps, SharedSteps DEF ProducerStep, Threads
<1>2. CASE \E c \in Consumers : ConsumerStep(c)
  BY <1>2, HandleSteps, SharedSteps DEF ConsumerStep, Threads
<1>3. CASE UNCHANGED vars
  BY <1>3 DEF vars, handleVars, threadVars, sharedVars, HandleInv, TypeOK, HandleTypeOK,
              HoldsHandle, HandleThere
<1>4. QED
  BY <1>1, <1>2, <1>3 DEF Next

(* Initially there is no handle, and nobody is at work on one.             *)
LEMMA InitHandleInv == Init => HandleInv
<1> SUFFICES ASSUME Init PROVE HandleInv
  OBVIOUS
<1>1. HandleTypeOK
  BY HandleAssumption DEF Init, InitHandles, HandleTypeOK, ChanCap, HandleAssumption
<1>2. /\ pc \in [Threads -> {"idle", "call"}]
      /\ cur \in [Threads -> {Nil}]
      /\ single = Nil /\ fresh = Handles
  BY DEF Init
<1>3. TypeOK
  BY <1>1, <1>2 DEF TypeOK
<1>4. QED
  BY <1>2, <1>3 DEF HandleInv, HoldsHandle, HandleThere

(* The state of the shared queue is always well typed                      *)
(* (new/fifo_queue.go:178-191).                                            *)
THEOREM SharedTypeCorrect == Spec => []TypeOK
<1>1. HandleInv => TypeOK
  BY DEF HandleInv
<1>2. QED
  BY InitHandleInv, HandleInvStep, <1>1, PTL DEF Spec

-----------------------------------------------------------------------------
(* When data comes late, no producer makes a handle.                       *)
LateInv == \A p \in Producers : pc[p] # "create"

PoolInv == LateInv /\ PoolSurvives

(* Producers' steps make no handle and take no writer away from one.       *)
LEMMA ProducerKeepsPool ==
  ASSUME EarlyPuts = FALSE, HandleInv, PoolInv, NEW p \in Producers,
         SingelPut(p) \/ ProducerStep(p)
  PROVE  PoolInv'
<1> USE HandleAssumption DEF HandleAssumption, PoolInv, Goto, HandleInv, TypeOK
<1>1. UNCHANGED single
  BY DEF SingelPut, ProducerStep, LateInv, Create, Fetch, sharedVars
<1>2. \A c \in Consumers : /\ cur'[c] = cur[c]
                           /\ pc'[c] = pc[c] \/ (pc[c] = "parked" /\ pc'[c] = "pop")
  BY DEF SingelPut, TestSingle, ProducerStep, LateInv, Create, Fetch, LazyInit, Notify, PushBack,
         Parked, Threads
<1>3. LateInv'
  BY DEF LateInv, SingelPut, TestSingle, HandleMissing, ProducerStep, Create, Fetch, LazyInit,
         Notify, PushBack, Parked, Threads
<1>4. PoolSurvives'
  BY <1>1, <1>2 DEF PoolSurvives, Working
<1>5. QED
  BY <1>3, <1>4

(* A writer that stores a handle has still to fetch it.                    *)
LEMMA WriterKeepsPool ==
  ASSUME HandleInv, PoolInv, NEW c \in Consumers, ConsumerStep(c)
  PROVE  PoolInv'
<1> USE HandleAssumption DEF HandleAssumption, PoolInv, Goto, HandleInv, TypeOK, Threads
<1>1. LateInv'
  BY DEF LateInv, ConsumerStep, SingleGet, TestSingle, Create, Fetch, LazyInit, CheckSize, Receive, Pop
<1>2. CASE SingleGet(c) \/ Create(c)
  <2>1. pc'[c] \in {"create", "fetch"}
    BY <1>2 DEF SingleGet, Create, TestSingle
  <2>2. QED
    BY <1>1, <2>1 DEF PoolSurvives, Working
<1>3. CASE Fetch(c)
  <2>1. cur'[c] = single'
    BY <1>3 DEF Fetch, sharedVars
  <2>2. QED
    BY <1>1, <2>1 DEF PoolSurvives
<1>4. CASE /\ LazyInit(c, "check") \/ CheckSize(c) \/ Receive(c) \/ Pop(c)
           /\ UNCHANGED sharedVars
  <2>1. /\ UNCHANGED <<single, cur>>
        /\ Working(c)' => Working(c)
        /\ \A d \in Consumers \ {c} : pc'[d] = pc[d]
    BY <1>4 DEF LazyInit, CheckSize, Receive, Pop, sharedVars, Working
  <2>2. PoolSurvives'
    BY <2>1 DEF PoolSurvives, Working
  <2>3. QED
    BY <1>1, <2>2
<1>5. QED
  BY <1>2, <1>3, <1>4 DEF ConsumerStep

(* If data comes only after the first writer made a handle, at least one   *)
(* writer ends up with the handle that is in use, however they race for it *)
(* (new/fifo_queue.go:186-191).                                            *)
THEOREM OneWriterStays ==
  ASSUME EarlyPuts = FALSE
  PROVE  Spec => []PoolSurvives
<1>1. Init => PoolInv
  BY HandleAssumption DEF HandleAssumption, Init, PoolInv, LateInv, PoolSurvives, Threads
<1>2. HandleInv /\ PoolInv /\ [Next]_vars => PoolInv'
  <2> SUFFICES ASSUME HandleInv, PoolInv, [Next]_vars PROVE PoolInv'
    OBVIOUS
  <2>1. CASE Next
    BY <2>1, ProducerKeepsPool, WriterKeepsPool DEF Next
  <2>2. CASE UNCHANGED vars
    BY <2>2 DEF vars, threadVars, sharedVars, PoolInv, LateInv, PoolSurvives, Working
  <2>3. QED
    BY <2>1, <2>2
<1>3. HandleInv /\ PoolInv => PoolSurvives
  BY DEF PoolInv
<1>4. QED
  BY InitHandleInv, HandleInvStep, <1>1, <1>2, <1>3, PTL DEF Spec

-----------------------------------------------------------------------------
(* A handle is made once: nobody has worked on one that is still to be     *)
(* made.                                                                   *)
FreshInv ==
  /\ single \notin fresh
  /\ \A h \in fresh : deque[h] = <<>>
  /\ \A t \in Threads : cur[t] \notin fresh

(* The handle in use is quiet when no token is buffered in it and each of  *)
(* its readers is at, or blocked in, <-q.NotiFy.  A handle stays in use    *)
(* until it is replaced for good, so that nobody leaves it before that.    *)
Quiet ==
  /\ single # Nil
  /\ notiFy[single] = 0
  /\ \A c \in Readers(single) : pc[c] \in {"recv", "parked"}

NoneOf(p, s) == \A i \in 1 .. Len(s) : s[i].from # p

(* The next AddData ends the quiet: while it lasts a producer can finish   *)
(* at most the call that it is in.                                         *)
FewWait ==
  /\ OneEach(deque[single])
  /\ \A p \in Producers : pc[p] = "push" /\ cur[p] = single => NoneOf(p, deque[single])

QuietInv == Quiet => FewWait

(* A reader blocks only when the channel is empty, and a token goes to a   *)
(* blocked reader before it goes to the buffer.                            *)
ParkedInv == \A c \in Consumers : pc[c] = "parked" => notiFy[cur[c]] = 0

StallInv == FreshInv /\ QuietInv /\ ParkedInv

(* What the steps below need to know of types.                             *)
LEMMA SharedFacts ==
  ASSUME HandleInv
  PROVE  /\ pc = [t \in Threads |-> pc[t]] /\ cur = [t \in Threads |-> cur[t]]
         /\ deque = [h \in Handles |-> deque[h]] /\ notiFy = [h \in Handles |-> notiFy[h]]
         /\ \A h \in Handles : deque[h] \in Seq(Item) /\ notiFy[h] \in 0 .. 1
         /\ \A t \in Threads : pc[t] \notin {"idle", "call", "create", "fetch"} => cur[t] \in Handles
         /\ Producers \subseteq Threads /\ Consumers \subseteq Threads
         /\ Producers \cap Consumers = {}
         /\ single \in Handles \cup {Nil} /\ Nil \notin Handles /\ fresh \subseteq Handles
BY HandleAssumption
DEF HandleAssumption, HandleInv, TypeOK, HandleTypeOK, HoldsHandle, ChanCap, Threads

(* A list with one item of each producer stays one when a producer that    *)
(* has none in it appends.                                                 *)
LEMMA AppendOneEach ==
  ASSUME NEW s \in Seq(Item), NEW e \in Item, OneEach(s), NoneOf(e.from, s)
  PROVE  /\ OneEach(Append(s, e))
         /\ \A p \in Producers : p # e.from /\ NoneOf(p, s) => NoneOf(p, Append(s, e))
<1>1. /\ Len(s) \in Nat
      /\ Len(Append(s, e)) = Len(s) + 1
      /\ Append(s, e)[Len(s) + 1] = e
      /\ \A i \in 1 .. Len(s) : Append(s, e)[i] = s[i]
  OBVIOUS
<1>2. OneEach(Append(s, e))
  <2> SUFFICES ASSUME NEW i \in 1 .. Len(s) + 1, NEW j \in 1 .. Len(s) + 1,
                      Append(s, e)[i].from = Append(s, e)[j].from
               PROVE  i = j
    BY <1>1 DEF OneEach
  <2>1. CASE i \in 1 .. Len(s) /\ j \in 1 .. Len(s)
    BY <1>1, <2>1 DEF OneEach
  <2>2. CASE i = Len(s) + 1 /\ j \in 1 .. Len(s)
    BY <1>1, <2>2 DEF NoneOf
  <2>3. CASE i \in 1 .. Len(s) /\ j = Len(s) + 1
    BY <1>1, <2>3 DEF NoneOf
  <2>4. QED
    BY <1>1, <2>1, <2>2, <2>3
<1>3. ASSUME NEW p \in Producers, p # e.from, NoneOf(p, s)
      PROVE  NoneOf(p, Append(s, e))
  <2> SUFFICES ASSUME NEW i \in 1 .. Len(s) + 1 PROVE Append(s, e)[i].from # p
    BY <1>1 DEF NoneOf
  <2>1. CASE i \in 1 .. Len(s)
    BY <1>1, <1>3, <2>1 DEF NoneOf
  <2>2. CASE i = Len(s) + 1
    BY <1>1, <1>3, <2>2
  <2>3. QED
    BY <1>1, <2>1, <2>2
<1>4. QED
  BY <1>2, <1>3

(* A step that finds the handle in use quiet when it leaves it quiet keeps *)
(* QuietInv if it touches no list in use and brings no producer to         *)
(* PushBack.                                                               *)
LEMMA QuietStep ==
  ASSUME QuietInv, single' = single,
         Quiet' => /\ Quiet
                   /\ deque'[single] = deque[single]
                   /\ \A p \in Producers : pc'[p] = "push" /\ cur'[p] = single
                                           => pc[p] = "push" /\ cur[p] = single
  PROVE  QuietInv'
<1> SUFFICES ASSUME Quiet' PROVE FewWait'
  BY DEF QuietInv
<1>1. FewWait
  BY DEF QuietInv
<1>2. OneEach(deque'[single])
  BY <1>1 DEF FewWait
<1>3. ASSUME NEW p \in Producers, pc'[p] = "push", cur'[p] = single
      PROVE  NoneOf(p, deque'[single])
  BY <1>1, <1>3 DEF FewWait
<1>4. QED
  BY <1>2, <1>3 DEF FewWait, OneEach, NoneOf

(* Steps of a writer that end outside <-q.NotiFy and add nothing to a list *)
(* keep all three parts.                                                   *)
LEMMA ConsumerMoves ==
  ASSUME HandleInv, StallInv, NEW c \in Consumers,
         NEW label, label \notin {"recv", "parked", "gone"},
         Goto(c, label), UNCHANGED <<cur, notiFy, single, fresh>>,
         \A h \in Handles : h # cur[c] => deque'[h] = deque[h]
  PROVE  StallInv'
<1> USE SharedFacts DEF StallInv, Goto
<1>1. pc'[c] = label /\ (\A t \in Threads \ {c} : pc'[t] = pc[t]) /\ pc'[c] # "parked"
      /\ pc'[c] # "recv" /\ pc'[c] # "gone"
  OBVIOUS
<1>2. ParkedInv'
  BY <1>1 DEF ParkedInv
<1>3. FreshInv'
  <2>1. \A h \in fresh : h # cur[c]
    BY DEF FreshInv
  <2>2. QED
    BY <2>1 DEF FreshInv
<1>4. ASSUME Quiet' PROVE cur[c] # single /\ Quiet
  BY <1>1, <1>4 DEF Quiet, Readers
<1>5. \A p \in Producers : pc'[p] = pc[p] /\ cur'[p] = cur[p]
  BY <1>1
<1>6. single # Nil => single \in Handles
  OBVIOUS
<1>7. QuietInv'
  BY <1>4, <1>5, <1>6, QuietStep DEF Quiet
<1>8. QED
  BY <1>2, <1>3, <1>7

(* Coming to a handle, or making one.                                      *)
LEMMA ComingKeepsStall ==
  ASSUME HandleInv, StallInv, NEW t \in Threads,
         \/ t \in Producers /\ SingelPut(t)
         \/ t \in Consumers /\ SingleGet(t)
         \/ Create(t) \/ Fetch(t)
  PROVE  StallInv'
<1> USE SharedFacts DEF StallInv, Goto
<1>1. CASE (t \in Producers /\ SingelPut(t)) \/ (t \in Consumers /\ SingleGet(t))
  <2>1. /\ UNCHANGED <<deque, notiFy, cur, single, fresh>>
        /\ pc'[t] \in {"create", "fetch"}
        /\ \A u \in Threads \ {t} : pc'[u] = pc[u]
    BY <1>1 DEF SingelPut, SingleGet, TestSingle, handleVars, sharedVars
  <2>2. FreshInv' /\ ParkedInv'
    BY <2>1 DEF FreshInv, ParkedInv
  <2>3. Quiet' => Quiet
    BY <2>1 DEF Quiet, Readers
  <2>4. QuietInv'
    BY <2>1, <2>3, QuietStep
  <2>5. QED
    BY <2>2, <2>4
<1>2. CASE Create(t)
  <2>1. PICK h \in fresh : single' = h /\ fresh' = fresh \ {h}
    BY <1>2 DEF Create
  <2>2. /\ UNCHANGED <<deque, notiFy, cur>>
        /\ pc'[t] = "fetch" /\ \A u \in Threads \ {t} : pc'[u] = pc[u]
    BY <1>2 DEF Create, handleVars
  <2>3. deque[h] = <<>> /\ \A u \in Threads : cur[u] # h
    BY DEF FreshInv
  <2>4. FreshInv' /\ ParkedInv'
    BY <2>1, <2>2 DEF FreshInv, ParkedInv
  <2>5. FewWait'
    BY <2>1, <2>2, <2>3 DEF FewWait, OneEach
  <2>6. QED
    BY <2>4, <2>5 DEF QuietInv
<1>3. CASE Fetch(t)
  <2>1. /\ UNCHANGED <<deque, notiFy, single, fresh>>
        /\ pc'[t] = "lazy" /\ cur'[t] = single
        /\ \A u \in Threads \ {t} : pc'[u] = pc[u] /\ cur'[u] = cur[u]
    BY <1>3 DEF Fetch, handleVars, sharedVars
  <2>2. FreshInv' /\ ParkedInv'
    BY <2>1 DEF FreshInv, ParkedInv
  <2>3. Quiet' => Quiet
    BY <2>1 DEF Quiet, Readers
  <2>4. QuietInv'
    BY <2>1, <2>3, QuietStep
  <2>5. QED
    BY <2>2, <2>4
<1>4. QED
  BY <1>1, <1>2, <1>3

(* AddData: what a producer does to a list that is in use.                 *)
LEMMA AddDataKeepsStall ==
  ASSUME HandleInv, StallInv, NEW p \in Producers, UNCHANGED sharedVars,
         LazyInit(p, "notify") \/ Notify(p) \/ PushBack(p)
  PROVE  StallInv'
<1> USE SharedFacts DEF StallInv, Goto, sharedVars
<1>0. cur' = cur /\ cur[p] \in Handles /\ cur[p] \notin fresh
  BY DEF LazyInit, Notify, PushBack, FreshInv
<1>1. CASE LazyInit(p, "notify")
  <2>1. /\ UNCHANGED <<deque, notiFy>> /\ pc'[p] = "notify"
        /\ \A u \in Threads \ {p} : pc'[u] = pc[u]
    BY <1>1 DEF LazyInit
  <2>2. FreshInv' /\ ParkedInv'
    BY <1>0, <2>1 DEF FreshInv, ParkedInv
  <2>3. Quiet' => Quiet
    BY <1>0, <2>1 DEF Quiet, Readers
  <2>4. QuietInv'
    BY <1>0, <2>1, <2>3, QuietStep
  <2>5. QED
    BY <2>2, <2>4
<1>2. CASE Notify(p)
  <2>1. deque' = deque /\ pc'[p] = "push"
    BY <1>2 DEF Notify, Parked
  <2>2. FreshInv'
    BY <1>0, <2>1 DEF FreshInv
  <2>3. CASE \E c \in Parked(cur[p]) :
               pc' = [pc EXCEPT ![p] = "push", ![c] = "pop"] /\ UNCHANGED notiFy
    <3>1. PICK c \in Parked(cur[p]) : pc' = [pc EXCEPT ![p] = "push", ![c] = "pop"]
      BY <2>3
    <3>2. /\ c \in Consumers /\ cur[c] = cur[p] /\ pc'[c] = "pop" /\ notiFy' = notiFy
          /\ \A t \in Threads \ {p, c} : pc'[t] = pc[t]
      BY <2>3, <3>1 DEF Parked
    <3>3. Quiet' => single # cur[p] /\ Quiet
      BY <1>0, <3>2 DEF Quiet, Readers
    <3>4. QuietInv'
      BY <1>0, <2>1, <3>2, <3>3, QuietStep
    <3>5. ParkedInv'
      BY <1>0, <2>1, <3>2 DEF ParkedInv
    <3>6. QED
      BY <2>2, <3>4, <3>5
  <2>4. CASE /\ Parked(cur[p]) = {}
             /\ notiFy' = [notiFy EXCEPT ![cur[p]] = TrySend(@)]
             /\ Goto(p, "push")
    <3>1. /\ notiFy'[cur[p]] = 1
          /\ \A h \in Handles \ {cur[p]} : notiFy'[h] = notiFy[h]
          /\ \A t \in Threads \ {p} : pc'[t] = pc[t]
      BY <1>0, <2>4 DEF TrySend, ChanCap
    <3>2. ASSUME Quiet' PROVE single # cur[p] /\ Quiet
      <4>1. single # cur[p] /\ notiFy'[single] = 0 /\ single \in Handles
        BY <3>1, <3>2 DEF Quiet
      <4>2. QED
        BY <1>0, <3>1, <3>2, <4>1 DEF Quiet, Readers
    <3>3. QuietInv'
      BY <1>0, <2>1, <3>1, <3>2, QuietStep
    <3>4. ASSUME NEW c \in Consumers, pc'[c] = "parked" PROVE notiFy'[cur[c]] = 0
      <4>1. pc[c] = "parked" /\ cur[c] \in Handles
        BY <3>1, <3>4
      <4>2. cur[c] # cur[p]
        BY <2>4, <4>1 DEF Parked
      <4>3. QED
        BY <3>1, <4>1, <4>2 DEF ParkedInv
    <3>5. ParkedInv'
      BY <1>0, <3>4 DEF ParkedInv
    <3>6. QED
      BY <2>2, <3>3, <3>5
  <2>5. QED
    BY <1>2, <2>3, <2>4 DEF Notify
<1>3. CASE PushBack(p)
  <2>1. /\ notiFy' = notiFy /\ pc[p] = "push" /\ pc'[p] = "idle"
        /\ \A t \in Threads \ {p} : pc'[t] = pc[t]
        /\ deque'[cur[p]] = Append(deque[cur[p]], ItemOf(p))
        /\ \A h \in Handles \ {cur[p]} : deque'[h] = deque[h]
    BY <1>0, <1>3 DEF PushBack
  <2>2. ParkedInv'
    BY <1>0, <2>1 DEF ParkedInv
  <2>3. FreshInv'
    BY <1>0, <2>1 DEF FreshInv
  <2>4. ItemOf(p) \in Item /\ ItemOf(p).from = p
    BY DEF ItemOf, Item, HandleInv, TypeOK, HandleTypeOK
  <2>5. CASE single # cur[p]
    <3>1. Quiet' => Quiet
      BY <1>0, <2>1 DEF Quiet, Readers
    <3>2. single # Nil => deque'[single] = deque[single]
      BY <2>1, <2>5
    <3>3. QuietInv'
      BY <1>0, <2>1, <3>1, <3>2, QuietStep DEF Quiet
    <3>4. QED
      BY <2>2, <2>3, <3>3
  <2>6. CASE single = cur[p]
    <3> SUFFICES ASSUME Quiet' PROVE FewWait'
      BY <2>2, <2>3 DEF QuietInv
    <3>1. Quiet
      BY <1>0, <2>1 DEF Quiet, Readers
    <3>2. OneEach(deque[single]) /\ NoneOf(p, deque[single])
      BY <2>1, <2>6, <3>1 DEF QuietInv, FewWait
    <3>3. PICK s \in Seq(Item) : s = deque[single]
      BY <1>0, <2>6
    <3>4. /\ OneEach(Append(s, ItemOf(p)))
          /\ \A q \in Producers : q # p /\ NoneOf(q, s) => NoneOf(q, Append(s, ItemOf(p)))
      BY <2>4, <3>2, <3>3, AppendOneEach
    <3>5. deque'[single] = Append(s, ItemOf(p))
      BY <2>1, <2>6, <3>3
    <3>6. ASSUME NEW q \in Producers, pc'[q] = "push", cur'[q] = single
          PROVE  NoneOf(q, deque'[single])
      <4>1. q # p /\ pc[q] = "push" /\ cur[q] = single
        BY <1>0, <2>1, <3>6
      <4>2. NoneOf(q, s)
        BY <3>1, <3>3, <4>1 DEF QuietInv, FewWait
      <4>3. QED
        BY <3>4, <3>5, <4>1, <4>2
    <3>7. QED
      BY <3>4, <3>5, <3>6 DEF FewWait, OneEach, NoneOf
  <2>7. QED
    BY <2>5, <2>6
<1>4. QED
  BY <1>1, <1>2, <1>3

(* PopData: what a writer does to the list it reads.                       *)
LEMMA PopDataKeepsStall ==
  ASSUME HandleInv, StallInv, NEW c \in Consumers, UNCHANGED sharedVars,
         LazyInit(c, "check") \/ CheckSize(c) \/ Receive(c) \/ Pop(c)
  PROVE  StallInv'
<1> USE SharedFacts DEF StallInv, Goto, sharedVars
<1>0. cur' = cur /\ cur[c] \in Handles
  BY DEF LazyInit, CheckSize, Receive, Pop
<1>1. CASE LazyInit(c, "check")
  BY <1>0, <1>1, ConsumerMoves DEF LazyInit
<1>2. CASE CheckSize(c) /\ deque[cur[c]] # <<>>
  BY <1>0, <1>2, ConsumerMoves DEF CheckSize, handleVars
<1>3. CASE CheckSize(c) /\ deque[cur[c]] = <<>>
  <2>1. /\ pc'[c] = "recv" /\ \A t \in Threads \ {c} : pc'[t] = pc[t]
        /\ UNCHANGED <<deque, notiFy>>
    BY <1>3 DEF CheckSize, handleVars
  <2>2. FreshInv' /\ ParkedInv'
    BY <1>0, <2>1 DEF FreshInv, ParkedInv
  <2>3. CASE cur[c] = single
    <3>1. FewWait'
      BY <1>0, <1>3, <2>1, <2>3 DEF FewWait, OneEach, NoneOf
    <3>2. QED
      BY <2>2, <3>1 DEF QuietInv
  <2>4. CASE cur[c] # single
    <3>1. Quiet' => Quiet
      BY <1>0, <2>1, <2>4 DEF Quiet, Readers
    <3>2. \A p \in Producers : pc'[p] = pc[p]
      BY <2>1
    <3>3. QuietInv'
      BY <1>0, <2>1, <3>1, <3>2, QuietStep
    <3>4. QED
      BY <2>2, <3>3
  <2>5. QED
    BY <2>3, <2>4
<1>4. CASE Receive(c)
  <2>1. /\ pc[c] = "recv" /\ deque' = deque
        /\ \A t \in Threads \ {c} : pc'[t] = pc[t]
    BY <1>4 DEF Receive
  <2>2. FreshInv'
    BY <1>0, <2>1 DEF FreshInv
  <2>3. CASE /\ notiFy[cur[c]] > 0
             /\ notiFy' = [notiFy EXCEPT ![cur[c]] = @ - 1]
             /\ Goto(c, "pop")
    <3>1. pc'[c] = "pop" /\ \A h \in Handles \ {cur[c]} : notiFy'[h] = notiFy[h]
      BY <1>0, <2>3
    <3>2. ASSUME Quiet' PROVE Quiet
      <4>1. single # cur[c] /\ single \in Handles
        BY <1>0, <3>1, <3>2 DEF Quiet, Readers
      <4>2. QED
        BY <1>0, <2>1, <3>1, <3>2, <4>1 DEF Quiet, Readers
    <3>3. QuietInv'
      BY <1>0, <2>1, <3>1, <3>2, QuietStep
    <3>4. ASSUME NEW d \in Consumers, pc'[d] = "parked" PROVE notiFy'[cur[d]] = 0
      <4>1. pc[d] = "parked" /\ notiFy[cur[d]] = 0 /\ cur[d] \in Handles
        BY <2>1, <3>1, <3>4 DEF ParkedInv
      <4>2. QED
        BY <2>3, <3>1, <4>1
    <3>5. ParkedInv'
      BY <1>0, <3>4 DEF ParkedInv
    <3>6. QED
      BY <2>2, <3>3, <3>5
  <2>4. CASE notiFy[cur[c]] = 0 /\ Goto(c, "parked") /\ UNCHANGED notiFy
    <3>1. ParkedInv'
      BY <1>0, <2>1, <2>4 DEF ParkedInv
    <3>2. Quiet' => Quiet
      BY <1>0, <2>1, <2>4 DEF Quiet, Readers
    <3>3. QuietInv'
      BY <1>0, <2>1, <2>4, <3>2, QuietStep
    <3>4. QED
      BY <2>2, <3>1, <3>3
  <2>5. QED
    BY <1>4, <2>3, <2>4 DEF Receive
<1>5. CASE Pop(c)
  BY <1>0, <1>5, ConsumerMoves DEF Pop
<1>6. QED
  BY <1>1, <1>2, <1>3, <1>4, <1>5

(* However the writers race for the handle, when all readers of the one    *)
(* that is in use sleep, its list holds at most one item of each producer  *)
(* (AddData and PopData, new/fifo_queue.go:48-83, with the shared handle,  *)
(* 178-191).                                                               *)
THEOREM StallsInUseAreBounded == Spec => []InUseStallBounded
<1>1. Init => StallInv
  BY HandleAssumption
  DEF Init, InitHandles, StallInv, FreshInv, QuietInv, ParkedInv, Quiet, Threads, HandleAssumption
<1>2. HandleInv /\ StallInv /\ [Next]_vars => StallInv'
  <2> SUFFICES ASSUME HandleInv, StallInv, [Next]_vars PROVE StallInv'
    OBVIOUS
  <2>1. ASSUME NEW p \in Producers, SingelPut(p) \/ ProducerStep(p) PROVE StallInv'
    BY <2>1, ComingKeepsStall, AddDataKeepsStall DEF ProducerStep, Threads
  <2>2. ASSUME NEW c \in Consumers, ConsumerStep(c) PROVE StallInv'
    BY <2>2, ComingKeepsStall, PopDataKeepsStall DEF ConsumerStep, Threads
  <2>3. CASE UNCHANGED vars
    BY <2>3 DEF vars, handleVars, threadVars, sharedVars, StallInv, FreshInv, QuietInv, ParkedInv,
                Quiet, FewWait, Readers, OneEach, NoneOf
  <2>4. QED
    BY <2>1, <2>2, <2>3 DEF Next
<1>3. HandleInv /\ StallInv => InUseStallBounded
  BY SharedFacts
  DEF StallInv, InUseStallBounded, AllParked, QuietInv, FewWait, ParkedInv, Quiet, Readers, Parked
<1>4. QED
  BY InitHandleInv, HandleInvStep, <1>1, <1>2, <1>3, PTL DEF Spec
=============================================================================
