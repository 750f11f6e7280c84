------------------------------ MODULE MemPool -------------------------------
(***************************************************************************)
(* The memory pool of new/simple_pool.go: a singly linked list of bricks,  *)
(* each cut into pieces that goroutines acquire (GetEntity) and give back  *)
(* (ReleaseOnece by each sharer, or FullRelease).  Now and then GetEntity  *)
(* also removes one idle brick from the list (removeOneNode).              *)
(*                                                                         *)
(* The list is read without a lock by whoever walks it; pmu covers single  *)
(* changes of a link, the mutex of a brick covers single looks at its      *)
(* pieces.  Nothing covers "this brick is idle" together with "unlink it". *)
(*                                                                         *)
(* Bricks are numbered in the order in which addNew makes them; 0 is nil.  *)
(* A goroutine that holds several entities at once stands here as several  *)
(* threads.  A panic ends the program: nothing in src/new recovers.        *)
(***************************************************************************)
EXTENDS Naturals, FiniteSets

CONSTANTS
  Threads,    \* goroutines, one per entity that can be held at once
  Pieces,     \* pieces of a brick (1024 in the code)
  Sizes,      \* sizes that callers ask for
  Fits,       \* sizes of pieces: the 4 * 2^k that the sizes need
  AckTimes,   \* numbers of sharers
  MaxBricks,  \* bound: bricks made
  MaxRemoves  \* bound: calls of removeOneNode

ASSUME PoolAssumption ==
  /\ Pieces \in Nat \ {0}
  /\ Sizes \subseteq Nat \ {0}
  /\ Fits \subseteq Nat
  /\ \A s \in Sizes : \E f \in Fits : s <= f
  /\ AckTimes \subseteq Nat \ {0}
  /\ MaxBricks \in Nat
  /\ MaxRemoves \in Nat

VARIABLES
  made,      \* bricks made so far: 1 .. made
  head,      \* MemBrickList
  next,      \* NextBrick
  eachSize,  \* EachSize; 0 once the brick went through GFree
  busy,      \* the pieces whose AllocPieceIndex is false
  pc,        \* what each thread does next
  want,      \* size and ack_time of its GetEntity call
  ptr,       \* ptr of getEntity: the brick it looks at, then the one it got
  index,     \* the piece it got there, or 0
  attempt,   \* first or second getEntity of the call
  ack,       \* AckTimes of the thread's entity
  users,     \* sharers of the entity that have not released it
  due,       \* ReleaseAcq calls on the entity still to come
  n0, n1,    \* of removeOneNode
  removes,   \* calls of removeOneNode so far
  clashed,   \* history: a removal unlinked a brick on which another one stood
  panicked   \* the program died

listVars == <<made, head, next, eachSize, busy>>
callVars == <<want, ptr, index, attempt>>
entityVars == <<ack, users, due>>
removeVars == <<n0, n1, removes, clashed>>
vars == <<listVars, pc, callVars, entityVars, removeVars, panicked>>

Bricks == 1 .. MaxBricks
AllPieces == 1 .. Pieces

LookLabels == {"rtest", "rcut", "rscan", "runlink", "radvance"}
RemoveLabels == {"rhead", "rfree0", "rfree1"} \cup LookLabels
WalkLabels == {"visit", "advance"}

Goto(t, label) == pc' = [pc EXCEPT ![t] = label]

Init ==
  /\ made = 0
  /\ head = 0
  /\ next = [b \in Bricks |-> 0]
  /\ eachSize = [b \in Bricks |-> 0]
  /\ busy = [b \in Bricks |-> {}]
  /\ pc = [t \in Threads |-> "idle"]
  /\ want = [t \in Threads |-> [size |-> 0, acks |-> 0]]
  /\ ptr = [t \in Threads |-> 0]
  /\ index = [t \in Threads |-> 0]
  /\ attempt = [t \in Threads |-> 1]
  /\ ack = [t \in Threads |-> 0]
  /\ users = [t \in Threads |-> 0]
  /\ due = [t \in Threads |-> 0]
  /\ n0 = [t \in Threads |-> 0]
  /\ n1 = [t \in Threads |-> 0]
  /\ removes = 0
  /\ clashed = FALSE
  /\ panicked = FALSE

-----------------------------------------------------------------------------
(* getEntity, called once or twice by GetEntity.                           *)

GetEntity(t, size, acks) ==
  /\ pc[t] = "idle"
  /\ users[t] = 0 /\ due[t] = 0
  /\ want' = [want EXCEPT ![t] = [size |-> size, acks |-> acks]]
  /\ Goto(t, "head")
  /\ UNCHANGED <<listVars, ptr, index, attempt, entityVars, removeVars, panicked>>

(* Read MemBrickList; once set it is never nil again.                      *)
ReadHead(t) ==
  /\ pc[t] = "head"
  /\ ptr' = [ptr EXCEPT ![t] = head]
  /\ index' = [index EXCEPT ![t] = 0]
  /\ Goto(t, IF head = 0 THEN "add" ELSE "visit")
  /\ UNCHANGED <<listVars, want, attempt, entityVars, removeVars, panicked>>

(* ptr.EachSize >= size and CheckAndAcquireFree finds a piece.             *)
CanAcquire(b, size) == eachSize[b] >= size /\ busy[b] # AllPieces

(* The first free piece of a brick that has one.                           *)
FirstFree(b) ==
  CHOOSE i \in AllPieces \ busy[b] : \A j \in AllPieces \ busy[b] : i <= j

(* Size test and CheckAndAcquireFree, which holds the mutex of the brick.  *)
Visit(t) ==
  LET b == ptr[t] IN
  /\ pc[t] = "visit"
  /\ \/ /\ CanAcquire(b, want[t].size)
        /\ index' = [index EXCEPT ![t] = FirstFree(b)]
        /\ busy' = [busy EXCEPT ![b] = @ \cup {FirstFree(b)}]
        /\ Goto(t, "count")
     \/ /\ ~CanAcquire(b, want[t].size)
        /\ Goto(t, "advance")
        /\ UNCHANGED <<index, busy>>
  /\ UNCHANGED <<made, head, next, eachSize, want, ptr, attempt, entityVars,
                 removeVars, panicked>>

(* Mutated form of Follow: back to the head of the list.                   *)
FollowFromHead(b) == head

(* ptr = ptr.NextBrick                                                     *)
Follow(b) == next[b]

Advance(t) ==
  /\ pc[t] = "advance"
  /\ ptr' = [ptr EXCEPT ![t] = Follow(ptr[t])]
  /\ Goto(t, IF Follow(ptr[t]) = 0 THEN "add" ELSE "visit")
  /\ UNCHANGED <<listVars, want, index, attempt, entityVars, removeVars, panicked>>

(* The 4 * 2^k that holds size bytes.                                      *)
findBestFix(size) ==
  CHOOSE f \in Fits : size <= f /\ \A g \in Fits : size <= g => f <= g

(* A set that holds MemBrickList and, with a brick, the next one.           *)
Closed(s) == head \in s /\ \A a \in s \ {0} : next[a] \in s

(* The bricks to which the links from MemBrickList lead.                   *)
Linked == {b \in 1 .. made : \A s \in SUBSET (0 .. made) : Closed(s) => b \in s}

(* addNew: a new brick at the end of the list.  After the first getEntity  *)
(* there is a second one, after the second the call returns nil.           *)
AddNew(t) ==
  /\ pc[t] = "add"
  /\ made < MaxBricks
  /\ made' = made + 1
  /\ eachSize' = [eachSize EXCEPT ![made + 1] = findBestFix(want[t].size)]
  /\ \/ head = 0 /\ head' = made + 1 /\ UNCHANGED next
     \/ /\ head # 0
        /\ \E b \in Linked : next[b] = 0 /\ next' = [next EXCEPT ![b] = made + 1]
        /\ UNCHANGED head
  /\ attempt' = [attempt EXCEPT ![t] = 2]
  /\ ptr' = [ptr EXCEPT ![t] = 0]
  /\ Goto(t, IF attempt[t] = 1 THEN "head" ELSE "count")
  /\ UNCHANGED <<busy, want, index, entityVars, removeVars, panicked>>

(* GetEntity: every 1000th call and every five minutes a brick is removed. *)
(* Nothing keeps a removal from beginning while another one runs.          *)
Count(t) ==
  /\ pc[t] = "count"
  /\ \/ Goto(t, "return") /\ UNCHANGED removes
     \/ /\ removes < MaxRemoves
        /\ removes' = removes + 1
        /\ Goto(t, "rhead")
  /\ UNCHANGED <<listVars, callVars, entityVars, n0, n1, clashed, panicked>>

(* Mutated form of Acks: the entity counts one holder, however many share. *)
OneAck(t) == 1

(* ack_time                                                                *)
Acks(t) == want[t].acks

(* The caller uses what it got: the callers do not ask whether it is nil.  *)
Return(t) ==
  /\ pc[t] = "return"
  /\ \/ /\ ptr[t] # 0
        /\ ack' = [ack EXCEPT ![t] = Acks(t)]
        /\ users' = [users EXCEPT ![t] = want[t].acks]
        /\ UNCHANGED panicked
     \/ ptr[t] = 0 /\ panicked' = TRUE /\ UNCHANGED <<ack, users>>
  /\ attempt' = [attempt EXCEPT ![t] = 1]
  /\ Goto(t, "idle")
  /\ UNCHANGED <<listVars, want, ptr, index, due, removeVars>>

-----------------------------------------------------------------------------
(* Giving back.                                                            *)

(* Mutated form of LastOne: every release gives the piece back.            *)
AnyOne(v) == v >= 0

(* v == 0                                                                  *)
LastOne(v) == v = 0

(* ReleaseOnece by one of the sharers: AddInt32, and ReleaseAcq afterwards *)
(* if it was the last.                                                     *)
ReleaseOnece(t) ==
  /\ users[t] > 0
  /\ users' = [users EXCEPT ![t] = @ - 1]
  /\ ack' = [ack EXCEPT ![t] = @ - 1]
  /\ due' = [due EXCEPT ![t] = IF LastOne(ack[t] - 1) THEN @ + 1 ELSE @]
  /\ UNCHANGED <<listVars, pc, callVars, removeVars, panicked>>

(* FullRelease, by the owner of an entity that it shared with nobody.      *)
FullRelease(t) ==
  /\ users[t] > 0 /\ users[t] = want[t].acks
  /\ users' = [users EXCEPT ![t] = 0]
  /\ due' = [due EXCEPT ![t] = @ + 1]
  /\ UNCHANGED <<listVars, pc, callVars, ack, removeVars, panicked>>

(* AllocPieceIndex[index] = true, out of range after GFree.                *)
ReleaseAcq(t) ==
  /\ due[t] > 0
  /\ due' = [due EXCEPT ![t] = @ - 1]
  /\ \/ /\ eachSize[ptr[t]] # 0
        /\ busy' = [busy EXCEPT ![ptr[t]] = @ \ {index[t]}]
        /\ UNCHANGED panicked
     \/ eachSize[ptr[t]] = 0 /\ panicked' = TRUE /\ UNCHANGED busy
  /\ UNCHANGED <<made, head, next, eachSize, pc, callVars, ack, users, removeVars>>

-----------------------------------------------------------------------------
(* removeOneNode.                                                          *)

IsAllFree(b) == busy[b] = {}

(* Back to GetEntity; n0 and n1 are gone.                                  *)
LeaveRemove(t) ==
  /\ n0' = [n0 EXCEPT ![t] = 0]
  /\ n1' = [n1 EXCEPT ![t] = 0]
  /\ Goto(t, "return")

RHead(t) ==
  /\ pc[t] = "rhead"
  /\ n0' = [n0 EXCEPT ![t] = head]
  /\ n1' = [n1 EXCEPT ![t] = next[head]]
  /\ Goto(t, "rtest")
  /\ UNCHANGED <<listVars, callVars, entityVars, removes, clashed, panicked>>

RTest(t) ==
  /\ pc[t] = "rtest"
  /\ \/ n1[t] = 0 /\ LeaveRemove(t)
     \/ /\ n1[t] # 0
        /\ Goto(t, IF IsAllFree(n0[t]) THEN "rcut" ELSE "rscan")
        /\ UNCHANGED <<n0, n1>>
  /\ UNCHANGED <<listVars, callVars, entityVars, removes, clashed, panicked>>

(* Another removal is still looking at brick b.                            *)
OthersStandOn(t, b) ==
  \E u \in Threads \ {t} : pc[u] \in LookLabels /\ b \in {n0[u], n1[u]}

(* MemBrickList = n1                                                       *)
RCut(t) ==
  /\ pc[t] = "rcut"
  /\ head' = n1[t]
  /\ clashed' = (clashed \/ OthersStandOn(t, n0[t]))
  /\ Goto(t, "rfree0")
  /\ UNCHANGED <<made, next, eachSize, busy, callVars, entityVars, n0, n1, removes, panicked>>

RScan(t) ==
  /\ pc[t] = "rscan"
  /\ Goto(t, IF IsAllFree(n1[t]) THEN "runlink" ELSE "radvance")
  /\ UNCHANGED <<listVars, callVars, entityVars, removeVars, panicked>>

(* Mutated form of Successor: the link is cut instead of passed on.        *)
NoSuccessor(b) == 0

(* n1.NextBrick                                                            *)
Successor(b) == next[b]

(* n0.NextBrick = n1.NextBrick                                             *)
RUnlink(t) ==
  /\ pc[t] = "runlink"
  /\ next' = [next EXCEPT ![n0[t]] = Successor(n1[t])]
  /\ clashed' = (clashed \/ OthersStandOn(t, n1[t]))
  /\ Goto(t, "rfree1")
  /\ UNCHANGED <<made, head, eachSize, busy, callVars, entityVars, n0, n1, removes, panicked>>

RAdvance(t) ==
  /\ pc[t] = "radvance"
  /\ \/ next[n1[t]] = 0 /\ LeaveRemove(t)
     \/ /\ next[n1[t]] # 0
        /\ n0' = [n0 EXCEPT ![t] = n1[t]]
        /\ n1' = [n1 EXCEPT ![t] = next[n1[t]]]
        /\ Goto(t, "rscan")
  /\ UNCHANGED <<listVars, callVars, entityVars, removes, clashed, panicked>>

(* The brick that a remover has unlinked and will free.                    *)
Victim(t) == IF pc[t] = "rfree0" THEN n0[t] ELSE n1[t]

GFree(t) ==
  /\ pc[t] \in {"rfree0", "rfree1"}
  /\ next' = [next EXCEPT ![Victim(t)] = 0]
  /\ eachSize' = [eachSize EXCEPT ![Victim(t)] = 0]
  /\ busy' = [busy EXCEPT ![Victim(t)] = {}]
  /\ LeaveRemove(t)
  /\ UNCHANGED <<made, head, callVars, entityVars, removes, clashed, panicked>>

-----------------------------------------------------------------------------
Call(t) ==
  \/ ReadHead(t) \/ Visit(t) \/ Advance(t) \/ AddNew(t) \/ Count(t) \/ Return(t)
  \/ RHead(t) \/ RTest(t) \/ RCut(t) \/ RScan(t) \/ RUnlink(t) \/ RAdvance(t) \/ GFree(t)

Release(t) == ReleaseOnece(t) \/ FullRelease(t) \/ ReleaseAcq(t)

Step(t) ==
  \/ \E size \in Sizes, acks \in AckTimes : GetEntity(t, size, acks)
  \/ Call(t)
  \/ Release(t)

Next == ~panicked /\ \E t \in Threads : Step(t)

Spec == Init /\ [][Next]_vars

-----------------------------------------------------------------------------
(* Type invariant of simple_pool.go's state.                               *)
TypeOK ==
  /\ made \in 0 .. MaxBricks
  /\ head \in 0 .. made
  /\ next \in [Bricks -> 0 .. made]
  /\ eachSize \in [Bricks -> Nat]
  /\ busy \in [Bricks -> SUBSET AllPieces]
  /\ pc \in [Threads -> {"idle", "head", "add", "count", "return"}
                          \cup WalkLabels \cup RemoveLabels]
  /\ want \in [Threads -> [size : Nat, acks : Nat]]
  /\ ptr \in [Threads -> 0 .. made]
  /\ index \in [Threads -> 0 .. Pieces]
  /\ attempt \in [Threads -> {1, 2}]
  /\ ack \in [Threads -> Nat]
  /\ users \in [Threads -> Nat]
  /\ due \in [Threads -> Nat]
  /\ n0 \in [Threads -> 0 .. made]
  /\ n1 \in [Threads -> 0 .. made]
  /\ removes \in 0 .. MaxRemoves
  /\ clashed \in BOOLEAN
  /\ panicked \in BOOLEAN

(* Somebody still reads or writes the bytes of t's entity.                 *)
InUse(t) == users[t] > 0

(* No piece of memory belongs to two entities at once, whoever walks,      *)
(* shares, releases or removes at the same time.                           *)
Exclusive ==
  \A t, u \in Threads :
    InUse(t) /\ InUse(u) /\ ptr[t] = ptr[u] /\ index[t] = index[u] => t = u

(* A walk of getEntity or of removeOneNode goes forward in the order in    *)
(* which the bricks were made, through all the changes of the list around  *)
(* it: it visits no brick twice.                                           *)
WalkForward ==
  [][\A t \in Threads :
       /\ pc[t] = "advance" /\ pc'[t] = "visit" => ptr'[t] > ptr[t]
       /\ pc[t] = "radvance" /\ pc'[t] = "rscan" => n1'[t] > n1[t]]_vars

(* removeOneNode takes the one brick it frees out of the list and no       *)
(* other: a brick that nobody has unlinked can be found from MemBrickList, *)
(* however many removals run at once, as long as none of them unlinked a   *)
(* brick on which another one stood.  After such a clash the bricks behind *)
(* it can be lost (with all removals one at a time there is none).         *)
RemovesOne ==
  ~clashed =>
    \A b \in 1 .. made :
      eachSize[b] # 0 /\ (\A t \in Threads : pc[t] \in {"rfree0", "rfree1"} => Victim(t) # b)
        => b \in Linked

(* The bytes of an entity are there as long as somebody uses it.           *)
BytesStay == \A t \in Threads : InUse(t) => eachSize[ptr[t]] # 0
=============================================================================
