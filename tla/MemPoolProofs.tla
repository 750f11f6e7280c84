--------------------------- MODULE MemPoolProofs ----------------------------
(***************************************************************************)
(* Theorems about MemPool, for any number of threads, bricks and pieces    *)
(* and with removals that may overlap.                                     *)
(***************************************************************************)
EXTENDS MemPool, WellFoundedInduction, TLAPS

(* A set of numbers that is not empty has a least one.                     *)
LEMMA LeastNatural ==
  ASSUME NEW S \in SUBSET Nat, S # {}
  PROVE  \E x \in S : \A y \in S : x <= y
<1>1. PICK x \in S : \A y \in S : ~(<<y, x>> \in OpToRel(<, Nat))
  BY NatLessThanWellFounded, WFMin
<1>2. ASSUME NEW y \in S, y < x PROVE FALSE
  <2>1. <<y, x>> \in Nat \X Nat /\ <<y, x>>[1] = y /\ <<y, x>>[2] = x
    OBVIOUS
  <2>2. <<y, x>> \in OpToRel(<, Nat)
    BY <1>2, <2>1 DEF OpToRel
  <2>3. QED
    BY <1>1, <2>2
<1>3. QED
  BY <1>2

(* findBestFix returns a size of the list that is large enough.            *)
LEMMA BestFixFits ==
  ASSUME NEW size \in Sizes
  PROVE  findBestFix(size) \in Fits /\ size <= findBestFix(size)
<1> DEFINE S == {f \in Fits : size <= f}
<1>1. S \in SUBSET Nat /\ S # {}
  BY PoolAssumption DEF PoolAssumption
<1>2. PICK f \in S : \A g \in S : f <= g
  BY <1>1, LeastNatural
<1>3. f \in Fits /\ size <= f /\ \A g \in Fits : size <= g => f <= g
  BY <1>2
<1>4. QED
  BY <1>3 DEF findBestFix

(* CheckAndAcquireFree takes a piece that was free.                        *)
LEMMA FirstFreeIsFree ==
  ASSUME NEW b, busy[b] \in SUBSET AllPieces, busy[b] # AllPieces
  PROVE  FirstFree(b) \in AllPieces \ busy[b]
<1>1. AllPieces \ busy[b] \in SUBSET Nat
  BY PoolAssumption DEF PoolAssumption, AllPieces
<1>. AllPieces \ busy[b] # {}
  OBVIOUS
<1>2. \E i \in AllPieces \ busy[b] : \A j \in AllPieces \ busy[b] : i <= j
  BY <1>1, LeastNatural
<1>3. QED
  BY <1>2 DEF FirstFree

-----------------------------------------------------------------------------
(* The links follow the order in which the bricks were made.               *)
Forward == \A b \in Bricks : next[b] # 0 => next[b] > b

(* Where a thread stands, its local variables are set.                     *)
Locals ==
  /\ head = 0 => \A t \in Threads : pc[t] \in {"idle", "head", "add"}
  /\ \A t \in Threads :
       /\ pc[t] # "idle" => want[t].size \in Sizes
       /\ pc[t] \in WalkLabels => ptr[t] # 0
       /\ pc[t] \in RemoveLabels \ {"rhead"} => n0[t] # 0
       /\ pc[t] \in RemoveLabels \ {"rhead"} /\ n1[t] # 0 => n1[t] > n0[t]
       /\ pc[t] \in RemoveLabels \ {"rhead", "rtest"} => n1[t] # 0

(* The thread's piece is its own: acquired, and not yet given back.        *)
Acquired(t) == pc[t] \in {"count", "return"} \cup RemoveLabels /\ ptr[t] # 0

Owns(t) == Acquired(t) \/ users[t] > 0 \/ due[t] > 0

(* AckTimes counts the sharers; the last of them, and nobody else, brings  *)
(* the one ReleaseAcq about.                                               *)
Counts ==
  \A t \in Threads :
    /\ pc[t] # "idle" => users[t] = 0 /\ due[t] = 0
    /\ users[t] > 0 => due[t] = 0 /\ ack[t] = users[t]
    /\ due[t] \in {0, 1}
    /\ Owns(t) => ptr[t] # 0 /\ index[t] # 0

(* The piece of an owner is marked, unless its brick went through GFree.   *)
Marked ==
  \A t \in Threads :
    Owns(t) /\ eachSize[ptr[t]] # 0 => index[t] \in busy[ptr[t]]

SoleOwner ==
  \A t, u \in Threads :
    Owns(t) /\ Owns(u) /\ ptr[t] = ptr[u] /\ index[t] = index[u] => t = u

PoolInv == TypeOK /\ Forward /\ Locals /\ Counts /\ Marked /\ SoleOwner

(* A link that is set leads from a brick to a brick made.                  *)
LEMMA LinkTypes ==
  ASSUME TypeOK, Forward, NEW b \in 1 .. made
  PROVE  b \in Bricks /\ next[b] \in 0 .. made /\ (next[b] # 0 => next[b] > b)
<1>1. b \in Bricks
  BY PoolAssumption DEF PoolAssumption, TypeOK, Bricks
<1>2. QED
  BY <1>1 DEF TypeOK, Forward

(* The pool that NewMemPool makes satisfies the invariant.                 *)
LEMMA InitPoolInv == Init => PoolInv
<1> SUFFICES ASSUME Init PROVE PoolInv
  OBVIOUS
<1> USE PoolAssumption DEF PoolAssumption, Init, Bricks, AllPieces
<1>1. TypeOK
  <2>1. made \in 0 .. MaxBricks /\ head \in 0 .. made /\ removes \in 0 .. MaxRemoves
    OBVIOUS
  <2>5. next \in [Bricks -> 0 .. made] /\ eachSize \in [Bricks -> Nat]
    OBVIOUS
  <2>6. busy \in [Bricks -> SUBSET AllPieces]
    OBVIOUS
  <2>2. want \in [Threads -> [size : Nat, acks : Nat]]
    OBVIOUS
  <2>3. /\ ptr \in [Threads -> 0 .. made] /\ index \in [Threads -> 0 .. Pieces]
        /\ attempt \in [Threads -> {1, 2}]
        /\ n0 \in [Threads -> 0 .. made] /\ n1 \in [Threads -> 0 .. made]
    OBVIOUS
  <2>4. QED
    BY <2>1, <2>2, <2>3, <2>5, <2>6 DEF TypeOK
<1>2. Forward /\ Locals
  BY DEF Forward, Locals, WalkLabels, RemoveLabels, LookLabels
<1>3. \A t \in Threads : ~Owns(t)
  BY DEF Owns, Acquired, RemoveLabels, LookLabels
<1>4. Counts /\ Marked /\ SoleOwner
  BY <1>3 DEF Counts, Marked, SoleOwner
<1>5. QED
  BY <1>1, <1>2, <1>4 DEF PoolInv

(* A step that makes no owner keeps the ownership of the pieces when the   *)
(* bricks of the remaining owners keep their marks or go through GFree.    *)
LEMMA OwnersStay ==
  ASSUME Marked, SoleOwner,
         \A u \in Threads : Owns(u)' =>
           /\ Owns(u)
           /\ ptr'[u] = ptr[u] /\ index'[u] = index[u]
           /\ eachSize'[ptr[u]] # 0 =>
                /\ eachSize[ptr[u]] # 0
                /\ index[u] \in busy[ptr[u]] => index[u] \in busy'[ptr[u]]
  PROVE  Marked' /\ SoleOwner'
<1>1. Marked'
  BY DEF Marked
<1>2. SoleOwner'
  BY DEF SoleOwner
<1>3. QED
  BY <1>1, <1>2

(* The steps of getEntity and removeOneNode that change no brick and make  *)
(* no owner.                                                               *)
LEMMA LocalOwners ==
  ASSUME PoolInv, NEW t \in Threads,
         \/ \E size \in Sizes, acks \in AckTimes : GetEntity(t, size, acks)
         \/ ReadHead(t) \/ Advance(t) \/ Count(t)
         \/ RHead(t) \/ RTest(t) \/ RScan(t) \/ RAdvance(t)
  PROVE  Counts' /\ Marked' /\ SoleOwner'
<1> USE DEF PoolInv, TypeOK
<1>1. /\ busy' = busy /\ eachSize' = eachSize /\ UNCHANGED entityVars
      /\ \A u \in Threads \ {t} : /\ pc'[u] = pc[u] /\ ptr'[u] = ptr[u]
                                /\ index'[u] = index[u]
  BY DEF GetEntity, ReadHead, Advance, Count, RHead, RTest, RScan, RAdvance, LeaveRemove,
         Goto, listVars, callVars
<1>2. Owns(t)' => Owns(t) /\ ptr'[t] = ptr[t] /\ index'[t] = index[t]
  BY <1>1 DEF Owns, Acquired, RemoveLabels, LookLabels, entityVars, Counts,
              GetEntity, ReadHead, Advance, Count, RHead, RTest, RScan, RAdvance, LeaveRemove,
              Goto, callVars
<1>3. \A u \in Threads \ {t} : Owns(u)' <=> Owns(u)
  BY <1>1 DEF Owns, Acquired, entityVars
<1>4. users[t] = 0 /\ due[t] = 0
  BY DEF GetEntity, ReadHead, Advance, Count, RHead, RTest, RScan, RAdvance, Counts
<1>5. Counts'
  BY <1>1, <1>2, <1>3, <1>4 DEF Counts, entityVars
<1>6. Marked' /\ SoleOwner'
  BY <1>1, <1>2, <1>3, OwnersStay
<1>7. QED
  BY <1>5, <1>6

(* The steps that touch neither the list nor the entities keep the types,  *)
(* the order of the links and what the local variables are set to.         *)
LEMMA LocalTypes ==
  ASSUME PoolInv, NEW t \in Threads,
         \/ \E size \in Sizes, acks \in AckTimes : GetEntity(t, size, acks)
         \/ ReadHead(t) \/ Advance(t) \/ Count(t)
         \/ RHead(t) \/ RTest(t) \/ RScan(t) \/ RAdvance(t)
  PROVE  TypeOK' /\ Forward' /\ Locals'
<1> USE PoolAssumption DEF PoolAssumption, PoolInv, TypeOK, WalkLabels, RemoveLabels, LookLabels, Goto
<1>1. Forward'
  BY DEF GetEntity, ReadHead, Advance, Count, RHead, RTest, RScan, RAdvance, listVars, Forward
<1>2. ASSUME NEW size \in Sizes, NEW acks \in AckTimes, GetEntity(t, size, acks)
      PROVE  TypeOK' /\ Locals'
  <2>1. TypeOK'
    BY <1>2 DEF GetEntity, listVars, callVars, entityVars, removeVars, Locals
  <2>2. Locals'
    BY <1>2 DEF GetEntity, listVars, callVars, entityVars, removeVars, Locals
  <2>3. QED
    BY <2>1, <2>2
<1>3. ASSUME ReadHead(t) PROVE TypeOK' /\ Locals'
  <2>1. TypeOK'
    BY <1>3 DEF ReadHead, listVars, callVars, entityVars, removeVars, Locals
  <2>2. Locals'
    BY <1>3 DEF ReadHead, listVars, callVars, entityVars, removeVars, Locals
  <2>3. QED
    BY <2>1, <2>2
<1>4. ASSUME Advance(t) PROVE TypeOK' /\ Locals'
  <2>a. ptr[t] \in 1 .. made
    BY <1>4 DEF Advance, Locals
  <2>. ptr[t] \in Bricks /\ next[ptr[t]] \in 0 .. made
    BY <2>a, LinkTypes
  <2>1. TypeOK'
    BY <1>4 DEF Advance, Follow, listVars, callVars, entityVars, removeVars, Locals
  <2>2. Locals'
    BY <1>4 DEF Advance, Follow, listVars, callVars, entityVars, removeVars, Locals
  <2>3. QED
    BY <2>1, <2>2
<1>5. ASSUME Count(t) PROVE TypeOK' /\ Locals'
  <2>1. TypeOK'
    <3>1. UNCHANGED <<made, head, next, eachSize, busy, want, ptr, index, attempt, ack, users, due,
                      n0, n1, clashed, panicked>>
      BY <1>5 DEF Count, listVars, callVars, entityVars
    <3>2. removes' \in 0 .. MaxRemoves
      BY <1>5 DEF Count
    <3>3. pc' \in [Threads -> {"idle", "head", "add", "count", "return"}
                              \cup WalkLabels \cup RemoveLabels]
      BY <1>5 DEF Count
    <3>4. QED
      BY <3>1, <3>2, <3>3
  <2>2. Locals'
    BY <1>5 DEF Count, listVars, callVars, entityVars, removeVars, Locals
  <2>3. QED
    BY <2>1, <2>2
<1>6. ASSUME RHead(t) PROVE TypeOK' /\ Locals'
  <2>a. head \in 1 .. made
    <3>1. head # 0
      BY <1>6 DEF RHead, Locals
    <3>2. head \in 0 .. made /\ made \in Nat
      OBVIOUS
    <3>3. QED
      BY <3>1, <3>2
  <2>. /\ head \in Bricks /\ next[head] \in 0 .. made
       /\ next[head] # 0 => next[head] > head
    BY <2>a, LinkTypes
  <2>1. TypeOK'
    BY <1>6 DEF RHead, listVars, callVars, entityVars, removeVars
  <2>2. Locals'
    BY <1>6 DEF RHead, listVars, callVars, entityVars, removeVars, Locals
  <2>3. QED
    BY <2>1, <2>2
<1>7. ASSUME RTest(t) PROVE TypeOK' /\ Locals'
  <2>1. TypeOK'
    <3>1. UNCHANGED <<made, head, next, eachSize, busy, want, ptr, index, attempt, ack, users, due,
                      removes, clashed, panicked>>
      BY <1>7 DEF RTest, listVars, callVars, entityVars
    <3>2. n0' \in [Threads -> 0 .. made] /\ n1' \in [Threads -> 0 .. made]
      BY <1>7 DEF RTest, LeaveRemove
    <3>3. pc' \in [Threads -> {"idle", "head", "add", "count", "return"}
                              \cup WalkLabels \cup RemoveLabels]
      BY <1>7 DEF RTest, LeaveRemove
    <3>4. QED
      BY <3>1, <3>2, <3>3
  <2>2. Locals'
    BY <1>7 DEF RTest, LeaveRemove, listVars, callVars, entityVars, removeVars, Locals
  <2>3. QED
    BY <2>1, <2>2
<1>8. ASSUME RScan(t) PROVE TypeOK' /\ Locals'
  <2>1. TypeOK'
    BY <1>8 DEF RScan, listVars, callVars, entityVars, removeVars, Locals
  <2>2. Locals'
    BY <1>8 DEF RScan, listVars, callVars, entityVars, removeVars, Locals
  <2>3. QED
    BY <2>1, <2>2
<1>9. ASSUME RAdvance(t) PROVE TypeOK' /\ Locals'
  <2>a. n1[t] \in 1 .. made
    BY <1>9 DEF RAdvance, Locals
  <2>. /\ n1[t] \in Bricks /\ next[n1[t]] \in 0 .. made
       /\ next[n1[t]] # 0 => next[n1[t]] > n1[t]
    BY <2>a, LinkTypes
  <2>1. TypeOK'
    <3>1. UNCHANGED <<made, head, next, eachSize, busy, want, ptr, index, attempt, ack, users, due,
                      removes, clashed, panicked>>
      BY <1>9 DEF RAdvance, listVars, callVars, entityVars
    <3>2. n0' \in [Threads -> 0 .. made] /\ n1' \in [Threads -> 0 .. made]
      <4>1. /\ \E b \in 0 .. made : n0' = [n0 EXCEPT ![t] = b]
            /\ \E b \in 0 .. made : n1' = [n1 EXCEPT ![t] = b]
        BY <1>9, <2>a DEF RAdvance, LeaveRemove
      <4>2. QED
        BY <4>1
    <3>3. pc' \in [Threads -> {"idle", "head", "add", "count", "return"}
                              \cup WalkLabels \cup RemoveLabels]
      BY <1>9 DEF RAdvance, LeaveRemove
    <3>4. QED
      BY <3>1, <3>2, <3>3
  <2>b. /\ UNCHANGED <<head, want, ptr>>
        /\ pc[t] = "radvance"
    BY <1>9 DEF RAdvance, listVars, callVars
  <2>2. CASE next[n1[t]] = 0
    <3>1. /\ n0' = [n0 EXCEPT ![t] = 0] /\ n1' = [n1 EXCEPT ![t] = 0]
          /\ pc' = [pc EXCEPT ![t] = "return"]
      BY <1>9, <2>2 DEF RAdvance, LeaveRemove
    <3>2. QED
      BY <2>1, <2>a, <2>b, <3>1 DEF Locals
  <2>3. CASE next[n1[t]] # 0
    <3>1. /\ n0' = [n0 EXCEPT ![t] = n1[t]] /\ n1' = [n1 EXCEPT ![t] = next[n1[t]]]
          /\ pc' = [pc EXCEPT ![t] = "rscan"]
      BY <1>9, <2>3 DEF RAdvance
    <3>2. QED
      BY <2>1, <2>a, <2>b, <2>3, <3>1 DEF Locals
  <2>4. QED
    BY <2>1, <2>2, <2>3
<1>10. QED
  BY <1>1, <1>2, <1>3, <1>4, <1>5, <1>6, <1>7, <1>8, <1>9

(* CheckAndAcquireFree hands out a piece that no owner has.                *)
LEMMA VisitStep ==
  ASSUME PoolInv, NEW t \in Threads, Visit(t)
  PROVE  PoolInv'
<1> USE PoolAssumption DEF PoolAssumption, PoolInv, Goto
<1>1. /\ pc[t] = "visit" /\ ptr[t] \in 1 .. made /\ want[t].size \in Sizes
      /\ users[t] = 0 /\ due[t] = 0
  BY DEF Visit, Locals, WalkLabels, TypeOK, Counts
<1>2. ptr[t] \in Bricks
  BY <1>1, LinkTypes
<1>3. /\ UNCHANGED <<made, head, next, eachSize, want, ptr, attempt, entityVars, removeVars, panicked>>
      /\ \A u \in Threads \ {t} : pc'[u] = pc[u] /\ index'[u] = index[u]
      /\ \A b \in Bricks \ {ptr[t]} : busy'[b] = busy[b]
  BY DEF Visit, TypeOK
<1>4. CASE ~CanAcquire(ptr[t], want[t].size)
  <2>1. pc' = [pc EXCEPT ![t] = "advance"] /\ index' = index /\ busy' = busy
    BY <1>4 DEF Visit
  <2>2. TypeOK' /\ Forward' /\ Locals'
    BY <1>1, <1>3, <2>1 DEF TypeOK, Forward, Locals, WalkLabels, RemoveLabels, LookLabels, entityVars, removeVars
  <2>3. \A u \in Threads : Owns(u)' => Owns(u)
    BY <1>3, <2>1 DEF Owns, Acquired, RemoveLabels, LookLabels, entityVars, TypeOK
  <2>4. Marked' /\ SoleOwner'
    BY <1>3, <2>1, <2>3, OwnersStay
  <2>5. Counts'
    BY <1>1, <1>3, <2>1, <2>3 DEF Counts, entityVars, TypeOK
  <2>6. QED
    BY <2>2, <2>4, <2>5
<1>5. CASE CanAcquire(ptr[t], want[t].size)
  <2> DEFINE b == ptr[t]
             i == FirstFree(b)
  <2>1. /\ pc' = [pc EXCEPT ![t] = "count"]
        /\ index' = [index EXCEPT ![t] = i]
        /\ busy' = [busy EXCEPT ![b] = @ \cup {i}]
    BY <1>5 DEF Visit
  <2>2. eachSize[b] # 0 /\ busy[b] # AllPieces /\ busy[b] \in SUBSET AllPieces
    BY <1>1, <1>2, <1>5 DEF CanAcquire, TypeOK
  <2>3. i \in AllPieces \ busy[b]
    BY <2>2, FirstFreeIsFree
  <2>4. i \in 0 .. Pieces /\ i # 0 /\ busy[b] \cup {i} \in SUBSET AllPieces
    BY <2>2, <2>3 DEF AllPieces
  <2>5. TypeOK'
    BY <1>1, <1>2, <1>3, <2>1, <2>4 DEF TypeOK, WalkLabels, RemoveLabels, LookLabels, entityVars, removeVars
  <2>6. Forward' /\ Locals'
    BY <1>1, <1>3, <2>1 DEF TypeOK, Forward, Locals, WalkLabels, RemoveLabels, LookLabels, removeVars
  <2>7. \A u \in Threads \ {t} : Owns(u)' <=> Owns(u)
    BY <1>3 DEF Owns, Acquired, RemoveLabels, LookLabels, entityVars
  <2>8. Counts'
    BY <1>1, <1>3, <2>1, <2>4, <2>7 DEF Counts, Owns, entityVars, TypeOK
  <2>9. ASSUME NEW u \in Threads, u # t, Owns(u), ptr[u] = b
        PROVE  index[u] # i
    BY <2>2, <2>3, <2>9 DEF Marked
  <2>10. Marked'
    <3> SUFFICES ASSUME NEW u \in Threads, Owns(u)', eachSize'[ptr'[u]] # 0
                 PROVE  index'[u] \in busy'[ptr'[u]]
      BY DEF Marked
    <3>1. CASE u = t
      BY <1>2, <1>3, <2>1, <3>1 DEF TypeOK
    <3>2. CASE u # t
      <4>1. index[u] \in busy[ptr[u]] /\ ptr[u] \in 1 .. made
        BY <1>3, <2>7, <3>2 DEF Marked, Counts, TypeOK
      <4>2. ptr[u] \in Bricks
        BY <4>1, LinkTypes
      <4>3. QED
        BY <1>2, <1>3, <2>1, <3>2, <4>1, <4>2 DEF TypeOK
    <3>3. QED
      BY <3>1, <3>2
  <2>11. SoleOwner'
    BY <1>3, <2>1, <2>7, <2>9 DEF SoleOwner, TypeOK
  <2>12. QED
    BY <2>5, <2>6, <2>8, <2>10, <2>11
<1>6. QED
  BY <1>4, <1>5

(* addNew: the new brick is the youngest and nobody's.                     *)
LEMMA AddNewStep ==
  ASSUME PoolInv, NEW t \in Threads, AddNew(t)
  PROVE  PoolInv'
<1> USE PoolAssumption DEF PoolAssumption, PoolInv, Goto
<1>1. /\ pc[t] = "add" /\ want[t].size \in Sizes /\ made < MaxBricks
      /\ users[t] = 0 /\ due[t] = 0 /\ made \in Nat /\ MaxBricks \in Nat
  BY DEF AddNew, Locals, Counts, TypeOK
<1>2. made + 1 \in Bricks /\ made' = made + 1 /\ made' \in 0 .. MaxBricks
      /\ \A b \in 0 .. made : b \in 0 .. made' /\ b # made + 1
  BY <1>1 DEF AddNew, Bricks
<1>3. findBestFix(want[t].size) \in Nat
  BY <1>1, BestFixFits
<1>4. /\ UNCHANGED <<busy, want, index, entityVars, removeVars, panicked>>
      /\ eachSize' = [eachSize EXCEPT ![made + 1] = findBestFix(want[t].size)]
      /\ attempt' = [attempt EXCEPT ![t] = 2]
      /\ ptr' = [ptr EXCEPT ![t] = 0]
      /\ pc' = [pc EXCEPT ![t] = IF attempt[t] = 1 THEN "head" ELSE "count"]
  BY DEF AddNew
<1>5. /\ head' \in 0 .. made' /\ head' # 0
      /\ next' \in [Bricks -> 0 .. made']
      /\ Forward'
  <2>1. next \in [Bricks -> 0 .. made']
    BY <1>2 DEF TypeOK
  <2>2. CASE head = 0 /\ head' = made + 1 /\ UNCHANGED next
    BY <1>1, <1>2, <2>1, <2>2 DEF Forward
  <2>3. CASE head # 0 /\ head' = head /\ \E b \in Linked : next' = [next EXCEPT ![b] = made + 1]
    <3>1. PICK b \in 1 .. made : next' = [next EXCEPT ![b] = made + 1]
      BY <2>3 DEF Linked
    <3>2. b \in Bricks /\ made + 1 > b /\ made + 1 \in 0 .. made'
      BY <1>1, <1>2, <3>1, LinkTypes
    <3>3. next' \in [Bricks -> 0 .. made']
      BY <2>1, <3>1, <3>2
    <3>4. Forward'
      BY <3>1, <3>2 DEF Forward, TypeOK
    <3>5. head' \in 0 .. made'
      BY <1>2, <2>3 DEF TypeOK
    <3>6. QED
      BY <2>3, <3>3, <3>4, <3>5
  <2>4. QED
    BY <2>2, <2>3 DEF AddNew
<1>6. TypeOK'
  <2>1. eachSize' \in [Bricks -> Nat]
    BY <1>2, <1>3, <1>4 DEF TypeOK
  <2>2. /\ ptr' \in [Threads -> 0 .. made'] /\ n0' \in [Threads -> 0 .. made']
        /\ n1' \in [Threads -> 0 .. made']
    BY <1>2, <1>4 DEF TypeOK, removeVars
  <2>3. QED
    BY <1>2, <1>4, <1>5, <2>1, <2>2 DEF TypeOK, entityVars, removeVars
<1>7. Locals'
  BY <1>1, <1>4, <1>5 DEF Locals, TypeOK, WalkLabels, RemoveLabels, LookLabels, removeVars
<1>8. \A u \in Threads : Owns(u)' => Owns(u) /\ ptr'[u] = ptr[u] /\ index'[u] = index[u]
  BY <1>1, <1>4 DEF Owns, Acquired, entityVars, TypeOK, RemoveLabels, LookLabels
<1>9. Counts'
  BY <1>1, <1>4, <1>8 DEF Counts, entityVars, TypeOK
<1>10. ASSUME NEW u \in Threads
       PROVE  eachSize'[ptr[u]] # 0 => eachSize[ptr[u]] # 0 \/ ptr[u] = 0
  BY <1>2, <1>4 DEF TypeOK
<1>11. Marked' /\ SoleOwner'
  BY <1>4, <1>8, <1>10, OwnersStay DEF Counts
<1>12. QED
  BY <1>5, <1>6, <1>7, <1>9, <1>11

(* The piece goes over to the sharers, or the caller meets nil.            *)
LEMMA ReturnStep ==
  ASSUME PoolInv, NEW t \in Threads, Return(t)
  PROVE  PoolInv'
<1> USE PoolAssumption DEF PoolAssumption, PoolInv, Goto
<1>1. /\ pc[t] = "return" /\ users[t] = 0 /\ due[t] = 0 /\ want[t].acks \in Nat
      /\ UNCHANGED <<listVars, want, ptr, index, due, removeVars>>
      /\ pc' = [pc EXCEPT ![t] = "idle"]
      /\ attempt' = [attempt EXCEPT ![t] = 1]
  BY DEF Return, Counts, TypeOK
<1>2. \/ /\ ptr[t] # 0
         /\ ack' = [ack EXCEPT ![t] = want[t].acks]
         /\ users' = [users EXCEPT ![t] = want[t].acks]
         /\ UNCHANGED panicked
      \/ panicked' = TRUE /\ UNCHANGED <<ack, users>>
  BY DEF Return, Acks
<1>3. TypeOK'
  BY <1>1, <1>2 DEF TypeOK, listVars, removeVars
<1>4. Forward' /\ Locals'
  BY <1>1 DEF TypeOK, Forward, Locals, WalkLabels, RemoveLabels, LookLabels, listVars, removeVars
<1>5. \A u \in Threads : Owns(u)' => Owns(u)
  BY <1>1, <1>2 DEF Owns, Acquired, RemoveLabels, LookLabels, TypeOK
<1>6. Counts'
  BY <1>1, <1>2, <1>5 DEF Counts, TypeOK
<1>7. Marked' /\ SoleOwner'
  BY <1>1, <1>5, OwnersStay DEF listVars
<1>8. QED
  BY <1>3, <1>4, <1>6, <1>7

(* One sharer less; the last one brings about the one ReleaseAcq.          *)
LEMMA ReleaseOneceStep ==
  ASSUME PoolInv, NEW t \in Threads, ReleaseOnece(t) \/ FullRelease(t)
  PROVE  PoolInv'
<1> USE PoolAssumption DEF PoolAssumption, PoolInv
<1>1. /\ users[t] \in Nat /\ users[t] > 0 /\ ack[t] = users[t] /\ due[t] = 0 /\ pc[t] = "idle"
      /\ UNCHANGED <<listVars, pc, callVars, removeVars, panicked>>
  BY DEF ReleaseOnece, FullRelease, Counts, TypeOK
<1>2. \/ /\ users' = [users EXCEPT ![t] = users[t] - 1]
         /\ ack' = [ack EXCEPT ![t] = users[t] - 1]
         /\ due' = [due EXCEPT ![t] = IF users[t] - 1 = 0 THEN 1 ELSE 0]
      \/ /\ users' = [users EXCEPT ![t] = 0]
         /\ ack' = ack
         /\ due' = [due EXCEPT ![t] = 1]
  BY <1>1 DEF ReleaseOnece, FullRelease, LastOne
<1>3. TypeOK'
  <2>1. users[t] - 1 \in Nat
    BY <1>1
  <2>2. /\ users' \in [Threads -> Nat] /\ ack' \in [Threads -> Nat]
        /\ due' \in [Threads -> Nat]
    <3>1. \E v \in Nat : users' = [users EXCEPT ![t] = v]
      BY <1>2, <2>1
    <3>2. ack' = ack \/ \E v \in Nat : ack' = [ack EXCEPT ![t] = v]
      BY <1>2, <2>1
    <3>3. \E v \in Nat : due' = [due EXCEPT ![t] = v]
      BY <1>2
    <3>4. users' \in [Threads -> Nat]
      BY <3>1 DEF TypeOK
    <3>5. ack' \in [Threads -> Nat]
      BY <3>2 DEF TypeOK
    <3>6. due' \in [Threads -> Nat]
      BY <3>3 DEF TypeOK
    <3>7. QED
      BY <3>4, <3>5, <3>6
  <2>3. QED
    BY <1>1, <2>2 DEF TypeOK, listVars, callVars, removeVars
<1>4. Forward' /\ Locals'
  BY <1>1 DEF Forward, Locals, listVars, callVars, removeVars
<1>5. ASSUME NEW u \in Threads, Owns(u)' PROVE Owns(u)
  <2>1. CASE u = t
    BY <1>1, <2>1 DEF Owns
  <2>2. CASE u # t
    <3>1. users'[u] = users[u] /\ due'[u] = due[u]
      BY <1>2, <2>2 DEF TypeOK
    <3>2. QED
      BY <1>1, <1>5, <3>1 DEF Owns, Acquired, callVars
  <2>3. QED
    BY <2>1, <2>2
<1>6. Counts'
  BY <1>1, <1>2, <1>5 DEF Counts, callVars, TypeOK
<1>7. Marked' /\ SoleOwner'
  BY <1>1, <1>5, OwnersStay DEF listVars, callVars
<1>8. QED
  BY <1>3, <1>4, <1>6, <1>7

(* The piece is given back: t owns it no longer, the others own others.    *)
LEMMA ReleaseAcqStep ==
  ASSUME PoolInv, NEW t \in Threads, ReleaseAcq(t)
  PROVE  PoolInv'
<1> USE PoolAssumption DEF PoolAssumption, PoolInv
<1>1. /\ due[t] = 1 /\ users[t] = 0 /\ pc[t] = "idle" /\ ptr[t] # 0
      /\ due' = [due EXCEPT ![t] = 0]
      /\ UNCHANGED <<made, head, next, eachSize, pc, callVars, ack, users, removeVars>>
  <2>1. due[t] = 1
    BY DEF ReleaseAcq, Counts
  <2>2. users[t] = 0 /\ pc[t] = "idle" /\ ptr[t] # 0
    BY <2>1 DEF Counts, TypeOK, Owns
  <2>3. due' = [due EXCEPT ![t] = 0]
    BY <2>1 DEF ReleaseAcq
  <2>4. QED
    BY <2>1, <2>2, <2>3 DEF ReleaseAcq
<1>2. /\ ptr[t] \in Bricks
      /\ panicked' \in BOOLEAN
      /\ busy' = busy \/ busy' = [busy EXCEPT ![ptr[t]] = @ \ {index[t]}]
  <2>1. ptr[t] \in 1 .. made
    BY <1>1 DEF TypeOK
  <2>2. QED
    BY <2>1, LinkTypes DEF ReleaseAcq, TypeOK
<1>3. TypeOK'
  <2>1. busy' \in [Bricks -> SUBSET AllPieces]
    BY <1>2 DEF TypeOK
  <2>2. QED
    BY <1>1, <1>2, <2>1 DEF TypeOK, callVars, removeVars
<1>4. Forward' /\ Locals'
  BY <1>1 DEF Forward, Locals, callVars, removeVars
<1>5. \A u \in Threads : Owns(u)' => Owns(u) /\ u # t
  BY <1>1 DEF Owns, Acquired, callVars, TypeOK, RemoveLabels, LookLabels
<1>6. Counts'
  BY <1>1, <1>5 DEF Counts, callVars, TypeOK
<1>7. ASSUME NEW u \in Threads, Owns(u)', index[u] \in busy[ptr[u]]
      PROVE  index[u] \in busy'[ptr[u]]
  <2>1. ptr[u] # ptr[t] \/ index[u] # index[t]
    BY <1>1, <1>5, <1>7 DEF SoleOwner, Owns
  <2>2. CASE ptr[u] = ptr[t]
    BY <1>2, <1>7, <2>1, <2>2 DEF TypeOK
  <2>3. CASE ptr[u] # ptr[t]
    <3>1. ptr[u] \in 1 .. made
      BY <1>5, <1>7 DEF Counts, TypeOK
    <3>2. ptr[u] \in Bricks
      BY <3>1, LinkTypes
    <3>3. QED
      BY <1>2, <1>7, <2>3, <3>2 DEF TypeOK
  <2>4. QED
    BY <2>2, <2>3
<1>8. Marked' /\ SoleOwner'
  BY <1>1, <1>5, <1>7, OwnersStay DEF callVars
<1>9. QED
  BY <1>3, <1>4, <1>6, <1>8

(* Links change forward only, GFree takes the marks and the size together. *)
LEMMA RemoveSteps ==
  ASSUME PoolInv, NEW t \in Threads, RCut(t) \/ RUnlink(t) \/ GFree(t)
  PROVE  PoolInv'
<1> USE PoolAssumption DEF PoolAssumption, PoolInv, Goto
<1>1. /\ pc[t] \in RemoveLabels \ {"rhead", "rtest"}
      /\ n0[t] \in 1 .. made /\ n1[t] \in 1 .. made /\ n1[t] > n0[t]
      /\ head # 0 /\ made \in Nat
  <2>1. pc[t] \in RemoveLabels \ {"rhead", "rtest"}
    BY DEF RCut, RUnlink, GFree, RemoveLabels, LookLabels
  <2>2. n0[t] # 0 /\ n1[t] # 0 /\ n1[t] > n0[t] /\ head # 0
    BY <2>1 DEF Locals, RemoveLabels, LookLabels
  <2>3. QED
    BY <2>1, <2>2 DEF TypeOK
<1>2. n0[t] \in Bricks /\ n1[t] \in Bricks
  BY <1>1, LinkTypes
<1>3. /\ UNCHANGED <<made, callVars, entityVars, removes, panicked>>
      /\ pc' \in [Threads -> {"rfree0", "rfree1", "return"} \cup {pc[u] : u \in Threads}]
      /\ pc'[t] \in {"rfree0", "rfree1", "return"}
      /\ \A u \in Threads \ {t} : pc'[u] = pc[u] /\ n0'[u] = n0[u] /\ n1'[u] = n1[u]
  BY DEF RCut, RUnlink, GFree, LeaveRemove, removeVars, TypeOK
<1>4. /\ n0' \in [Threads -> 0 .. made] /\ n1' \in [Threads -> 0 .. made]
      /\ pc'[t] # "return" => n0'[t] = n0[t] /\ n1'[t] = n1[t]
  <2>1. CASE RCut(t) \/ RUnlink(t)
    BY <2>1 DEF RCut, RUnlink, removeVars, TypeOK
  <2>2. CASE GFree(t)
    BY <1>1, <2>2 DEF GFree, LeaveRemove, TypeOK
  <2>3. QED
    BY <2>1, <2>2
<1>5. head' \in 0 .. made /\ head' # 0
  BY <1>1 DEF RCut, RUnlink, GFree, TypeOK
<1>6. next' \in [Bricks -> 0 .. made] /\ Forward'
  <2>1. CASE RCut(t)
    BY <2>1 DEF RCut, Forward, TypeOK
  <2>2. CASE RUnlink(t)
    <3>1. next[n1[t]] \in 0 .. made /\ (next[n1[t]] # 0 => next[n1[t]] > n0[t])
      BY <1>1, <1>2, LinkTypes DEF TypeOK
    <3>2. next' = [next EXCEPT ![n0[t]] = next[n1[t]]]
      BY <2>2 DEF RUnlink, Successor
    <3>3. QED
      BY <1>2, <3>1, <3>2 DEF Forward, TypeOK
  <2>3. CASE GFree(t)
    <3>1. next' = [next EXCEPT ![Victim(t)] = 0] /\ 0 \in 0 .. made
      BY <1>1, <2>3 DEF GFree
    <3>2. QED
      BY <3>1 DEF Forward, TypeOK
  <2>4. QED
    BY <2>1, <2>2, <2>3
<1>7. /\ eachSize' \in [Bricks -> Nat] /\ busy' \in [Bricks -> SUBSET AllPieces]
      /\ \A b \in Bricks : eachSize'[b] # 0 => eachSize'[b] = eachSize[b] /\ busy'[b] = busy[b]
  <2>1. CASE RCut(t) \/ RUnlink(t)
    BY <2>1 DEF RCut, RUnlink, TypeOK
  <2>2. CASE GFree(t)
    BY <2>2 DEF GFree, TypeOK
  <2>3. QED
    BY <2>1, <2>2
<1>8. TypeOK'
  <2>1. pc' \in [Threads -> {"idle", "head", "add", "count", "return"}
                            \cup WalkLabels \cup RemoveLabels]
    BY <1>3 DEF TypeOK, RemoveLabels, LookLabels
  <2>2. clashed' \in BOOLEAN
    BY DEF RCut, RUnlink, GFree, TypeOK
  <2>3. QED
    BY <1>3, <1>4, <1>5, <1>6, <1>7, <2>1, <2>2 DEF TypeOK, callVars, entityVars
<1>9. Locals'
  BY <1>1, <1>3, <1>4, <1>5 DEF Locals, callVars, WalkLabels, RemoveLabels, LookLabels
<1>10. \A u \in Threads : Owns(u)' => Owns(u)
  BY <1>1, <1>3 DEF Owns, Acquired, RemoveLabels, LookLabels, entityVars, callVars
<1>11. Counts'
  BY <1>1, <1>3, <1>10 DEF Counts, entityVars, callVars, RemoveLabels, LookLabels
<1>12. ASSUME NEW u \in Threads, Owns(u) PROVE ptr[u] \in Bricks
  <2>1. ptr[u] \in 1 .. made
    BY <1>12 DEF Counts, TypeOK
  <2>2. QED
    BY <2>1, LinkTypes
<1>13. Marked' /\ SoleOwner'
  BY <1>3, <1>7, <1>10, <1>12, OwnersStay DEF callVars
<1>14. QED
  BY <1>6, <1>8, <1>9, <1>11, <1>13

(* A step that changes nothing does not disturb the invariant.             *)
LEMMA UnchangedPool ==
  ASSUME PoolInv, UNCHANGED vars PROVE PoolInv'
BY DEF PoolInv, TypeOK, Forward, Locals, Counts, Marked, SoleOwner, Owns, Acquired,
       vars, listVars, callVars, entityVars, removeVars

(* The inductive invariant, action by action: every step of getEntity,     *)
(* ReleaseOnece, FullRelease and removeOneNode (new/simple_pool.go) keeps it. *)
THEOREM PoolInvariant == Spec => []PoolInv
<1>1. PoolInv /\ [Next]_vars => PoolInv'
  <2> SUFFICES ASSUME PoolInv, [Next]_vars PROVE PoolInv'
    OBVIOUS
  <2>1. ASSUME NEW t \in Threads, Step(t) PROVE PoolInv'
    <3>1. ASSUME \/ \E size \in Sizes, acks \in AckTimes : GetEntity(t, size, acks)
                 \/ ReadHead(t) \/ Advance(t) \/ Count(t)
                 \/ RHead(t) \/ RTest(t) \/ RScan(t) \/ RAdvance(t)
          PROVE  PoolInv'
      BY <3>1, LocalOwners, LocalTypes DEF PoolInv
    <3>2. QED
      BY <2>1, <3>1, VisitStep, AddNewStep, ReturnStep, ReleaseOneceStep, ReleaseAcqStep,
         RemoveSteps DEF Step, Call, Release
  <2>2. QED
    BY <2>1, UnchangedPool DEF Next
<1>2. QED
  BY InitPoolInv, <1>1, PTL DEF Spec

(* The state of simple_pool.go is always well typed.                       *)
THEOREM PoolTypeCorrect == Spec => []TypeOK
BY PoolInvariant, PTL DEF PoolInv

(* No piece of memory belongs to two entities that are in use, for any     *)
(* number of goroutines and with removals that overlap (getEntity,         *)
(* ReleaseOnece, FullRelease and removeOneNode, new/simple_pool.go).       *)
THEOREM PiecesAreExclusive == Spec => []Exclusive
<1>1. PoolInv => Exclusive
  BY DEF PoolInv, SoleOwner, Exclusive, Owns, InUse
<1>2. QED
  BY <1>1, PoolInvariant, PTL

(* Walks of the list (new/simple_pool.go:235-243 and 183-198) never come   *)
(* to a brick again, whatever others do to the list meanwhile.             *)
THEOREM WalksGoForward == Spec => WalkForward
<1> DEFINE Ahead == \A t \in Threads :
             /\ pc[t] = "advance" /\ pc'[t] = "visit" => ptr'[t] > ptr[t]
             /\ pc[t] = "radvance" /\ pc'[t] = "rscan" => n1'[t] > n1[t]
<1>1. PoolInv /\ [Next]_vars => [Ahead]_vars
  <2> SUFFICES ASSUME PoolInv, Next, NEW t \in Threads
               PROVE  /\ pc[t] = "advance" /\ pc'[t] = "visit" => ptr'[t] > ptr[t]
                      /\ pc[t] = "radvance" /\ pc'[t] = "rscan" => n1'[t] > n1[t]
    OBVIOUS
  <2>1. PICK u \in Threads : Step(u)
    BY DEF Next
  <2>2. pc[u] \in {"advance", "radvance"} /\ pc'[u] \in {"visit", "rscan"} =>
           Advance(u) \/ RAdvance(u)
    BY <2>1 DEF Step, Call, Release, GetEntity, ReadHead, Visit, AddNew, Count, Return,
                RHead, RTest, RCut, RScan, RUnlink, GFree, LeaveRemove, Goto,
                ReleaseOnece, FullRelease, ReleaseAcq, PoolInv, TypeOK
  <2>3. u # t => pc'[t] = pc[t]
    BY <2>1 DEF Step, Call, Release, GetEntity, ReadHead, Visit, Advance, AddNew, Count,
                Return, RHead, RTest, RCut, RScan, RUnlink, RAdvance, GFree, LeaveRemove,
                Goto, ReleaseOnece, FullRelease, ReleaseAcq, PoolInv, TypeOK
  <2>4. CASE u = t /\ Advance(t)
    <3>1. ptr[t] \in 1 .. made
      BY <2>4 DEF PoolInv, Advance, Locals, WalkLabels, TypeOK
    <3>2. next[ptr[t]] # 0 => next[ptr[t]] > ptr[t]
      BY <3>1, LinkTypes DEF PoolInv
    <3>3. QED
      BY <2>4, <3>2 DEF PoolInv, TypeOK, Advance, Follow, Goto
  <2>5. CASE u = t /\ RAdvance(t)
    <3>1. n1[t] \in 1 .. made
      BY <2>5 DEF PoolInv, RAdvance, Locals, RemoveLabels, LookLabels, TypeOK
    <3>2. next[n1[t]] # 0 => next[n1[t]] > n1[t]
      BY <3>1, LinkTypes DEF PoolInv
    <3>3. QED
      BY <2>5, <3>2 DEF PoolInv, TypeOK, RAdvance, LeaveRemove, Goto
  <2>6. QED
    BY <2>2, <2>3, <2>4, <2>5
<1>2. QED
  BY <1>1, PoolInvariant, PTL DEF Spec, WalkForward

-----------------------------------------------------------------------------
(* The bricks in the list: made, not freed, and not unlinked by a remover  *)
(* that is about to free them.                                             *)
Live ==
  {b \in 1 .. made : eachSize[b] # 0 /\
     \A t \in Threads : pc[t] \in {"rfree0", "rfree1"} => Victim(t) # b}

(* The live bricks are a chain: one starts it, no two lead to the same     *)
(* one, none leads out of it, and all the others are led to.               *)
Chain(live) ==
  /\ head \in live \cup {0}
  /\ \A a \in live : next[a] \in live \cup {0} /\ next[a] # head
  /\ \A a, b \in live : next[a] = next[b] /\ next[a] # 0 => a = b
  /\ \A b \in live : b = head \/ \E a \in live : next[a] = b

(* Every remover looks at two live bricks, one after the other.            *)
Looking ==
  \A t \in Threads :
    /\ pc[t] \in {"rtest", "rcut"} =>
         n0[t] = head /\ n1[t] \in Live \cup {0} /\ (n1[t] # 0 => next[n0[t]] = n1[t])
    /\ pc[t] \in {"rscan", "runlink", "radvance"} =>
         n0[t] \in Live /\ n1[t] \in Live /\ next[n0[t]] = n1[t]

(* Bricks that are not made have no link, and the first one starts the     *)
(* list.                                                                   *)
Unmade == (head = 0 => made = 0) /\ \A b \in Bricks : b > made => next[b] = 0

ListInv == Chain(Live) /\ Looking /\ Unmade

(* A list that is a chain leads to each of its bricks.                     *)
LEMMA ChainIsLinked ==
  ASSUME TypeOK, Forward, Chain(Live)
  PROVE  Live = Linked
<1>1. Live \subseteq 1 .. made /\ made \in Nat
  BY DEF Live, TypeOK
<1>2. ASSUME NEW b \in Linked, head # 0 PROVE b \in Live
  <2>1. Closed(Live \cup {0})
    BY <1>2 DEF Closed, Chain
  <2>2. Live \cup {0} \in SUBSET (0 .. made)
    BY <1>1
  <2>3. b \in Live \cup {0} /\ b # 0
    BY <1>1, <2>1, <2>2 DEF Linked
  <2>4. QED
    BY <2>3
<1>3. CASE head = 0
  <2>1. Closed({0}) /\ {0} \in SUBSET (0 .. made)
    BY <1>1, <1>3 DEF Closed
  <2>2. Linked = {}
    BY <1>1, <2>1 DEF Linked
  <2>3. Live = {}
    <3> SUFFICES ASSUME Live # {} PROVE FALSE
      OBVIOUS
    <3>1. Live \in SUBSET Nat
      BY <1>1
    <3>2. PICK b \in Live : \A a \in Live : b <= a
      BY <3>1, LeastNatural
    <3>3. b # head
      BY <1>1, <1>3
    <3>4. PICK a \in Live : next[a] = b
      BY <3>3 DEF Chain
    <3>5. b > a
      BY <1>1, <3>4, LinkTypes
    <3>6. QED
      BY <1>1, <3>2, <3>5
  <2>4. QED
    BY <2>2, <2>3
<1>4. CASE head # 0
  <2> DEFINE Lost == Live \ Linked
  <2>1. Lost = {}
    <3> SUFFICES ASSUME Lost # {} PROVE FALSE
      OBVIOUS
    <3>1. Lost \in SUBSET Nat
      <4>1. \A b \in Live : b \in Nat
        BY <1>1
      <4>2. QED
        BY <4>1
    <3>2. PICK b \in Lost : \A a \in Lost : b <= a
      BY <3>1, LeastNatural
    <3>3. b # head
      <4>1. \A s : Closed(s) => head \in s
        BY DEF Closed
      <4>2. QED
        BY <1>1, <4>1 DEF Linked
    <3>4. PICK a \in Live : next[a] = b
      BY <3>3 DEF Chain
    <3>5. b > a /\ a # 0
      BY <1>1, <3>4, LinkTypes
    <3>6. a \in Linked
      BY <1>1, <3>2, <3>5
    <3>7. \A s : Closed(s) /\ a \in s => b \in s
      BY <3>4, <3>5 DEF Closed
    <3>8. b \in Linked
      BY <1>1, <3>6, <3>7 DEF Linked
    <3>9. QED
      BY <3>8
  <2>2. QED
    BY <1>2, <1>4, <2>1
<1>5. QED
  BY <1>3, <1>4

(* A step that neither changes the list nor begins or ends the freeing of  *)
(* a brick.                                                                *)
LEMMA ListStays ==
  ASSUME TypeOK, ListInv, NEW t \in Threads, UNCHANGED <<made, head, next, eachSize>>,
         pc[t] \notin {"rfree0", "rfree1"}, pc'[t] \notin {"rfree0", "rfree1"},
         \A u \in Threads \ {t} : pc'[u] = pc[u] /\ n0'[u] = n0[u] /\ n1'[u] = n1[u]
  PROVE  Live' = Live /\ Chain(Live)' /\ Unmade'
<1>1. Live' = Live
  <2>1. \A b : (\A u \in Threads : pc'[u] \in {"rfree0", "rfree1"} => Victim(u)' # b)
               <=> (\A u \in Threads : pc[u] \in {"rfree0", "rfree1"} => Victim(u) # b)
    BY DEF Victim
  <2>2. QED
    BY <2>1 DEF Live
<1>2. QED
  BY <1>1 DEF ListInv, Chain, Unmade

(* What is no step of removeOneNode leaves the removers alone.             *)
LEMMA OthersKeepList ==
  ASSUME TypeOK, ListInv, NEW t \in Threads,
         \/ \E size \in Sizes, acks \in AckTimes : GetEntity(t, size, acks)
         \/ ReadHead(t) \/ Visit(t) \/ Advance(t) \/ Count(t) \/ Return(t)
         \/ Release(t)
  PROVE  ListInv'
<1> USE DEF Goto
<1>1. /\ UNCHANGED <<made, head, next, eachSize, n0, n1>>
      /\ \A u \in Threads \ {t} : pc'[u] = pc[u]
      /\ \/ pc' = pc
         \/ pc[t] \notin RemoveLabels /\ (pc'[t] \notin RemoveLabels \/ pc'[t] = "rhead")
  <2>1. CASE Release(t)
    BY <2>1 DEF Release, ReleaseOnece, FullRelease, ReleaseAcq, listVars, removeVars
  <2>2. CASE Count(t)
    BY <2>2 DEF Count, listVars, TypeOK, RemoveLabels, LookLabels
  <2>3. CASE \/ \E size \in Sizes, acks \in AckTimes : GetEntity(t, size, acks)
             \/ ReadHead(t) \/ Visit(t) \/ Advance(t) \/ Return(t)
    BY <2>3
    DEF GetEntity, ReadHead, Visit, Advance, Return, listVars, removeVars, TypeOK,
        RemoveLabels, LookLabels
  <2>4. QED
    BY <2>1, <2>2, <2>3
<1>2. CASE pc' = pc
  <2>1. Live' = Live
    BY <1>1, <1>2 DEF Live, Victim
  <2>2. QED
    BY <1>1, <1>2, <2>1 DEF ListInv, Chain, Looking, Unmade
<1>3. CASE pc[t] \notin RemoveLabels /\ (pc'[t] \notin RemoveLabels \/ pc'[t] = "rhead")
  <2>1. Live' = Live /\ Chain(Live)' /\ Unmade'
    BY <1>1, <1>3, ListStays DEF RemoveLabels, LookLabels
  <2>2. Looking'
    BY <1>1, <1>3, <2>1 DEF ListInv, Looking, RemoveLabels, LookLabels
  <2>3. QED
    BY <2>1, <2>2 DEF ListInv
<1>4. QED
  BY <1>1, <1>2, <1>3

(* A remover looks on: from the head, or one brick further.                *)
LEMMA LooksKeepList ==
  ASSUME TypeOK, Locals, ListInv, NEW t \in Threads,
         RHead(t) \/ RTest(t) \/ RScan(t) \/ RAdvance(t)
  PROVE  ListInv'
<1> USE DEF Goto
<1>1. /\ UNCHANGED <<made, head, next, eachSize>>
      /\ pc[t] \in RemoveLabels \ {"rfree0", "rfree1"}
      /\ \A u \in Threads \ {t} : pc'[u] = pc[u] /\ n0'[u] = n0[u] /\ n1'[u] = n1[u]
  BY DEF RHead, RTest, RScan, RAdvance, LeaveRemove, listVars, removeVars, TypeOK,
         RemoveLabels, LookLabels
<1>2. pc'[t] \in {"rtest", "rcut", "rscan", "runlink", "radvance", "return"}
  BY DEF RHead, RTest, RScan, RAdvance, LeaveRemove, TypeOK
<1>3. Live' = Live /\ Chain(Live)' /\ Unmade'
  BY <1>1, <1>2, ListStays
<1>4. /\ pc'[t] \in {"rtest", "rcut"} =>
           n0'[t] = head /\ n1'[t] \in Live \cup {0} /\ (n1'[t] # 0 => next[n0'[t]] = n1'[t])
      /\ pc'[t] \in {"rscan", "runlink", "radvance"} =>
           n0'[t] \in Live /\ n1'[t] \in Live /\ next[n0'[t]] = n1'[t]
  <2>1. CASE RHead(t)
    <3>1. /\ n0'[t] = head /\ n1'[t] = next[head] /\ pc'[t] = "rtest"
          /\ pc[t] = "rhead"
      BY <2>1 DEF RHead, TypeOK
    <3>2. head \in Live
      BY <3>1 DEF Locals, ListInv, Chain
    <3>3. next[head] \in Live \cup {0}
      BY <3>2 DEF ListInv, Chain
    <3>4. QED
      BY <3>1, <3>3
  <2>2. CASE RTest(t)
    <3>1. CASE n1[t] = 0
      BY <2>2, <3>1 DEF RTest, LeaveRemove, TypeOK
    <3>2. CASE n1[t] # 0
      <4>1. /\ pc[t] = "rtest" /\ pc'[t] \in {"rcut", "rscan"}
            /\ n0'[t] = n0[t] /\ n1'[t] = n1[t]
        BY <2>2, <3>2 DEF RTest, TypeOK
      <4>2. n0[t] = head /\ n1[t] \in Live /\ next[n0[t]] = n1[t] /\ n0[t] # 0
        BY <3>2, <4>1 DEF ListInv, Looking, Locals, RemoveLabels, LookLabels
      <4>3. n0[t] \in Live
        BY <4>2 DEF ListInv, Chain
      <4>4. QED
        BY <4>1, <4>2, <4>3
    <3>3. QED
      BY <3>1, <3>2
  <2>3. CASE RScan(t)
    <3>1. /\ pc[t] = "rscan" /\ pc'[t] \in {"runlink", "radvance"}
          /\ n0'[t] = n0[t] /\ n1'[t] = n1[t]
      BY <2>3 DEF RScan, TypeOK, removeVars
    <3>2. QED
      BY <3>1 DEF ListInv, Looking
  <2>4. CASE RAdvance(t)
    <3>1. n1[t] \in Live
      BY <2>4 DEF RAdvance, ListInv, Looking
    <3>2. next[n1[t]] \in Live \cup {0}
      BY <3>1 DEF ListInv, Chain
    <3>3. CASE next[n1[t]] = 0
      BY <2>4, <3>3 DEF RAdvance, LeaveRemove, TypeOK
    <3>4. CASE next[n1[t]] # 0
      <4>1. pc'[t] = "rscan" /\ n0'[t] = n1[t] /\ n1'[t] = next[n1[t]]
        BY <2>4, <3>4 DEF RAdvance, TypeOK
      <4>2. QED
        BY <3>1, <3>2, <3>4, <4>1
    <3>5. QED
      BY <3>3, <3>4
  <2>5. QED
    BY <2>1, <2>2, <2>3, <2>4
<1>5. Looking'
  <2> SUFFICES ASSUME NEW u \in Threads
               PROVE  /\ pc'[u] \in {"rtest", "rcut"} =>
                           /\ n0'[u] = head' /\ n1'[u] \in Live' \cup {0}
                           /\ (n1'[u] # 0 => next'[n0'[u]] = n1'[u])
                      /\ pc'[u] \in {"rscan", "runlink", "radvance"} =>
                           n0'[u] \in Live' /\ n1'[u] \in Live' /\ next'[n0'[u]] = n1'[u]
    BY DEF Looking
  <2>1. CASE u = t
    BY <1>1, <1>3, <1>4, <2>1
  <2>2. CASE u # t
    BY <1>1, <1>3, <2>2 DEF ListInv, Looking
  <2>3. QED
    BY <2>1, <2>2
<1>6. QED
  BY <1>3, <1>5 DEF ListInv

(* Taking a live brick out of the chain: the first one, or one whose       *)
(* neighbour takes over its link.  Nobody stands on it.                    *)
LEMMA CutKeepsList ==
  ASSUME TypeOK, Locals, Forward, ListInv, NEW t \in Threads, RCut(t) \/ RUnlink(t),
         ~clashed'
  PROVE  ListInv'
<1> USE DEF Goto
<1>1. /\ UNCHANGED <<made, eachSize, n0, n1>>
      /\ pc[t] \in LookLabels
      /\ pc'[t] \in {"rfree0", "rfree1"}
      /\ \A u \in Threads \ {t} : pc'[u] = pc[u]
  BY DEF RCut, RUnlink, TypeOK, LookLabels
<1>2. \A u \in Threads \ {t} : pc[u] \in LookLabels =>
        n0[u] # Victim(t)' /\ n1[u] # Victim(t)'
  <2>1. CASE RCut(t)
    <3>1. Victim(t)' = n0[t]
      BY <1>1, <2>1 DEF RCut, Victim, TypeOK
    <3>2. QED
      BY <2>1, <3>1 DEF RCut, OthersStandOn
  <2>2. CASE RUnlink(t)
    <3>1. Victim(t)' = n1[t]
      BY <1>1, <2>2 DEF RUnlink, Victim, TypeOK
    <3>2. QED
      BY <2>2, <3>1 DEF RUnlink, OthersStandOn
  <2>3. QED
    BY <2>1, <2>2
<1>4. n0[t] \in Live /\ n1[t] \in Live /\ next[n0[t]] = n1[t] /\ n0[t] # 0 /\ n1[t] # 0
  <2>1. n0[t] # 0 /\ n1[t] # 0
    BY DEF RCut, RUnlink, Locals, RemoveLabels, LookLabels
  <2>2. CASE RCut(t)
    BY <2>1, <2>2 DEF RCut, ListInv, Looking, Chain
  <2>3. CASE RUnlink(t)
    BY <2>1, <2>3 DEF RUnlink, ListInv, Looking
  <2>4. QED
    BY <2>2, <2>3
<1>5. Live' = Live \ {Victim(t)'}
  <2>1. \A u \in Threads \ {t} : Victim(u)' = Victim(u)
    BY <1>1 DEF Victim
  <2>2. pc[t] \notin {"rfree0", "rfree1"}
    BY <1>1 DEF LookLabels
  <2>3. QED
    BY <1>1, <2>1, <2>2 DEF Live
<1>6. CASE RCut(t)
  <2>1. head' = n1[t] /\ next' = next /\ Victim(t)' = n0[t] /\ n0[t] = head
    BY <1>1, <1>4, <1>6 DEF RCut, Victim, TypeOK, ListInv, Looking
  <2>2. Live' = Live \ {head}
    BY <1>5, <2>1
  <2>3. Chain(Live)'
    BY <1>4, <2>1, <2>2 DEF ListInv, Chain
  <2>4. Unmade'
    BY <1>1, <1>4, <2>1 DEF ListInv, Unmade
  <2>5. \A u \in Threads \ {t} : pc[u] \in LookLabels => n0[u] # head /\ n1[u] # head
    BY <1>2, <2>1
  <2>6. Looking'
    BY <1>1, <2>1, <2>2, <2>5 DEF ListInv, Looking, LookLabels
  <2>7. QED
    BY <2>3, <2>4, <2>6 DEF ListInv
<1>7. CASE RUnlink(t)
  <2>1. /\ head' = head /\ Victim(t)' = n1[t]
        /\ next' = [next EXCEPT ![n0[t]] = next[n1[t]]]
    BY <1>1, <1>7 DEF RUnlink, Victim, TypeOK, Successor
  <2>2. Live' = Live \ {n1[t]}
    BY <1>5, <2>1
  <2>3. n0[t] \in 1 .. made /\ n0[t] \in Bricks /\ n1[t] > n0[t] /\ n0[t] \in Nat /\ made \in Nat
    <3>1. n0[t] \in 1 .. made
      BY <1>4 DEF Live
    <3>2. made \in Nat
      BY PoolAssumption DEF TypeOK, PoolAssumption
    <3>3. QED
      BY <1>4, <3>1, <3>2, LinkTypes
  <2>4. /\ next'[n0[t]] = next[n1[t]]
        /\ \A b \in Bricks \ {n0[t]} : next'[b] = next[b]
    BY <2>1, <2>3 DEF TypeOK
  <2>5. \A b \in Live : b \in Bricks
    BY LinkTypes DEF Live
  <2>6. n1[t] # n0[t] /\ head # n1[t]
    BY <1>4, <2>3 DEF ListInv, Chain
  <2>7. /\ \A a \in Live' : next'[a] \in Live' \cup {0} /\ next'[a] # head'
        /\ \A a, b \in Live' : next'[a] = next'[b] /\ next'[a] # 0 => a = b
    <3>1. ASSUME NEW a \in Live, a # n1[t], a # n0[t]
          PROVE  /\ next'[a] = next[a] /\ next[a] # n1[t]
                 /\ next[a] = next[n1[t]] => next[a] = 0
      BY <1>4, <2>4, <2>5, <3>1 DEF ListInv, Chain
    <3>2. next[n1[t]] # n1[t]
      <4>1. n1[t] \in 1 .. made
        BY <1>4 DEF Live
      <4>2. next[n1[t]] # 0 => next[n1[t]] > n1[t]
        BY <4>1, LinkTypes
      <4>3. QED
        BY <1>4, <2>3, <4>1, <4>2
    <3>3. QED
      BY <1>4, <2>1, <2>2, <2>4, <3>1, <3>2 DEF ListInv, Chain
  <2>8. \A b \in Live' : b = head' \/ \E a \in Live' : next'[a] = b
    <3> SUFFICES ASSUME NEW b \in Live, b # n1[t], b # head
                 PROVE  \E a \in Live' : next'[a] = b
      BY <2>1, <2>2
    <3>1. PICK a \in Live : next[a] = b
      BY DEF ListInv, Chain
    <3>2. a # n0[t]
      BY <1>4, <3>1
    <3>3. CASE a = n1[t]
      BY <1>4, <2>2, <2>4, <2>6, <3>1, <3>3
    <3>4. CASE a # n1[t]
      BY <2>2, <2>4, <2>5, <3>1, <3>2, <3>4
    <3>5. QED
      BY <3>3, <3>4
  <2>9. Chain(Live)'
    BY <2>1, <2>2, <2>6, <2>7, <2>8 DEF ListInv, Chain
  <2>10. Unmade'
    <3>1. \A b \in Bricks : b > made => b # n0[t]
      BY <2>3
    <3>2. QED
      BY <1>1, <2>1, <2>4, <3>1 DEF ListInv, Unmade
  <2>11. Looking'
    <3> SUFFICES ASSUME NEW u \in Threads \ {t}, pc[u] \in LookLabels
                 PROVE  /\ pc[u] \in {"rtest", "rcut"} =>
                             /\ n0[u] = head /\ n1[u] \in Live' \cup {0}
                             /\ (n1[u] # 0 => next'[n0[u]] = n1[u])
                        /\ pc[u] \in {"rscan", "runlink", "radvance"} =>
                             n0[u] \in Live' /\ n1[u] \in Live' /\ next'[n0[u]] = n1[u]
      BY <1>1, <2>1 DEF Looking, LookLabels
    <3>1. n0[u] # n1[t] /\ n1[u] # n1[t]
      BY <1>2, <2>1
    <3>2. ASSUME n0[u] \in Live, next[n0[u]] = n1[u] PROVE next'[n0[u]] = n1[u]
      <4>1. n0[u] # n0[t]
        BY <1>4, <3>1, <3>2
      <4>2. QED
        BY <2>4, <2>5, <3>2, <4>1
    <3>3. CASE pc[u] \in {"rtest", "rcut"}
      <4>1. n0[u] # 0
        BY <3>3 DEF Locals, RemoveLabels, LookLabels
      <4>2. n0[u] = head /\ n0[u] \in Live
        BY <3>3, <4>1 DEF ListInv, Looking, Chain
      <4>3. QED
        BY <2>2, <3>1, <3>2, <3>3, <4>2 DEF ListInv, Looking
    <3>4. CASE pc[u] \in {"rscan", "runlink", "radvance"}
      BY <2>2, <3>1, <3>2, <3>4 DEF ListInv, Looking
    <3>5. QED
      BY <3>3, <3>4 DEF LookLabels
  <2>12. QED
    BY <2>9, <2>10, <2>11 DEF ListInv
<1>8. QED
  BY <1>6, <1>7

(* Freeing a brick that is out of the chain.                               *)
LEMMA FreeKeepsList ==
  ASSUME TypeOK, Locals, ListInv, NEW t \in Threads, GFree(t)
  PROVE  ListInv'
<1> USE DEF Goto
<1>1. /\ UNCHANGED <<made, head>>
      /\ pc[t] \in {"rfree0", "rfree1"} /\ pc'[t] = "return"
      /\ \A u \in Threads \ {t} : pc'[u] = pc[u] /\ n0'[u] = n0[u] /\ n1'[u] = n1[u]
      /\ next' = [next EXCEPT ![Victim(t)] = 0]
      /\ eachSize' = [eachSize EXCEPT ![Victim(t)] = 0]
  BY DEF GFree, LeaveRemove, TypeOK
<1>2. \A b \in 1 .. made : b \in Bricks
  BY PoolAssumption DEF TypeOK, Bricks, PoolAssumption
<1>3. Live' = Live
  <2>1. \A u \in Threads \ {t} : Victim(u)' = Victim(u)
    BY <1>1 DEF Victim
  <2>2. Live = {b \in 1 .. made : /\ eachSize[b] # 0 /\ Victim(t) # b
                                 /\ \A u \in Threads \ {t} :
                                      pc[u] \in {"rfree0", "rfree1"} => Victim(u) # b}
    BY <1>1 DEF Live
  <2>3. \A b \in 1 .. made : eachSize'[b] # 0 <=> eachSize[b] # 0 /\ Victim(t) # b
    BY <1>1, <1>2 DEF TypeOK
  <2>4. \A b : (\A u \in Threads : pc'[u] \in {"rfree0", "rfree1"} => Victim(u)' # b)
               <=> \A u \in Threads \ {t} : pc[u] \in {"rfree0", "rfree1"} => Victim(u) # b
    BY <1>1, <2>1
  <2>5. QED
    BY <1>1, <2>2, <2>3, <2>4 DEF Live
<1>4. \A b \in Live : b # 0 /\ next'[b] = next[b]
  BY <1>1, <1>2 DEF Live, TypeOK
<1>5. Chain(Live)'
  BY <1>1, <1>3, <1>4 DEF ListInv, Chain
<1>6. Unmade'
  BY <1>1 DEF ListInv, Unmade, TypeOK
<1>7. Looking'
  <2> SUFFICES ASSUME NEW u \in Threads \ {t}, pc[u] \in LookLabels
               PROVE  /\ pc[u] \in {"rtest", "rcut"} =>
                           /\ n0[u] = head /\ n1[u] \in Live \cup {0}
                           /\ (n1[u] # 0 => next'[n0[u]] = n1[u])
                      /\ pc[u] \in {"rscan", "runlink", "radvance"} =>
                           n0[u] \in Live /\ n1[u] \in Live /\ next'[n0[u]] = n1[u]
    BY <1>1, <1>3 DEF Looking, LookLabels
  <2>1. CASE pc[u] \in {"rtest", "rcut"}
    <3>1. n0[u] # 0
      BY <2>1 DEF Locals, RemoveLabels, LookLabels
    <3>2. n0[u] = head /\ n0[u] \in Live
      BY <2>1, <3>1 DEF ListInv, Looking, Chain
    <3>3. QED
      BY <1>4, <2>1, <3>2 DEF ListInv, Looking
  <2>2. CASE pc[u] \in {"rscan", "runlink", "radvance"}
    BY <1>4, <2>2 DEF ListInv, Looking
  <2>3. QED
    BY <2>1, <2>2 DEF LookLabels
<1>8. QED
  BY <1>3, <1>5, <1>6, <1>7 DEF ListInv

(* A new brick is the end of the chain.                                    *)
LEMMA AddNewKeepsList ==
  ASSUME TypeOK, Locals, Forward, ListInv, NEW t \in Threads, AddNew(t)
  PROVE  ListInv'
<1> USE DEF Goto
<1> DEFINE b == made + 1
<1>1. /\ made' = b /\ made \in Nat /\ b \in Bricks /\ b > made /\ b \notin 1 .. made
      /\ UNCHANGED <<n0, n1>>
      /\ pc[t] = "add" /\ pc'[t] \in {"head", "count"}
      /\ \A u \in Threads \ {t} : pc'[u] = pc[u]
  BY PoolAssumption DEF AddNew, TypeOK, Bricks, PoolAssumption, removeVars
<1>2. \A u \in Threads : pc'[u] \in RemoveLabels => u # t /\ pc[u] = pc'[u]
  BY <1>1 DEF RemoveLabels, LookLabels
<1>4. \A a \in Live : a \in 1 .. made /\ a \in Bricks /\ a # b /\ a # 0
  BY <1>1, LinkTypes DEF Live
<1>5. Live' = Live \cup {b}
  <2>1. eachSize' = [eachSize EXCEPT ![b] = findBestFix(want[t].size)]
    BY DEF AddNew
  <2>2. eachSize'[b] # 0
    <3>1. want[t].size \in Sizes
      BY <1>1 DEF Locals
    <3>2. findBestFix(want[t].size) # 0
      <4>1. PICK f : f = findBestFix(want[t].size)
        OBVIOUS
      <4>2. f \in Fits /\ want[t].size <= f
        BY <3>1, <4>1, BestFixFits
      <4>3. f \in Nat /\ want[t].size \in Nat /\ want[t].size # 0
        BY <3>1, <4>2, PoolAssumption DEF PoolAssumption
      <4>4. QED
        BY <4>1, <4>2, <4>3
    <3>3. eachSize'[b] = findBestFix(want[t].size)
      BY <1>1, <2>1 DEF TypeOK
    <3>4. QED
      BY <3>2, <3>3
  <2>3. \A a \in 1 .. made : eachSize'[a] = eachSize[a]
    <3>1. \A a \in 1 .. made : a \in Bricks /\ a # b
      BY <1>1, LinkTypes
    <3>2. QED
      BY <2>1, <3>1 DEF TypeOK
  <2>4. \A u \in Threads : pc'[u] \in {"rfree0", "rfree1"}
                           <=> pc[u] \in {"rfree0", "rfree1"}
    BY <1>1
  <2>5. \A u \in Threads : pc[u] \in {"rfree0", "rfree1"} => Victim(u)' = Victim(u)
    BY <1>1, <2>4 DEF Victim
  <2>6. \A u \in Threads : Victim(u) # b
    BY <1>1 DEF Victim, TypeOK
  <2>7. \A a : a \in 1 .. made' <=> a \in 1 .. made \/ a = b
    BY <1>1
  <2>8. \A a : a \in Live' <=> a \in Live \/ a = b
    BY <2>2, <2>3, <2>4, <2>5, <2>6, <2>7, <1>1 DEF Live
  <2>9. QED
    BY <2>8
<1>6. next[b] = 0
  BY <1>1 DEF ListInv, Unmade
<1>7. CASE head = 0
  <2>1. head' = b /\ next' = next
    BY <1>1, <1>7 DEF AddNew
  <2>2. Live = {}
    BY <1>7 DEF ListInv, Unmade, Live
  <2>3. Chain(Live)'
    BY <1>1, <1>5, <1>6, <2>1, <2>2 DEF Chain
  <2>4. Looking'
    <3>1. \A u \in Threads : pc'[u] \notin RemoveLabels
      BY <1>1, <1>7 DEF Locals, RemoveLabels, LookLabels
    <3>2. QED
      BY <3>1 DEF Looking, RemoveLabels, LookLabels
  <2>5. Unmade'
    BY <1>1, <2>1 DEF ListInv, Unmade, Bricks
  <2>6. QED
    BY <2>3, <2>4, <2>5 DEF ListInv
<1>8. CASE head # 0
  <2>1. PICK a \in Linked : /\ next[a] = 0 /\ next' = [next EXCEPT ![a] = b]
                            /\ head' = head
    BY <1>8 DEF AddNew
  <2>2. a \in Live
    BY <2>1, ChainIsLinked DEF ListInv
  <2>3. next'[a] = b /\ \A c \in Bricks \ {a} : next'[c] = next[c]
    BY <1>4, <2>1, <2>2 DEF TypeOK
  <2>4. /\ next'[b] = 0
        /\ \A c \in Live \ {a} : next'[c] = next[c] /\ next[c] # b
    BY <1>1, <1>4, <1>6, <2>2, <2>3 DEF ListInv, Chain
  <2>5. head \in Live /\ head # b
    BY <1>4, <1>8 DEF ListInv, Chain
  <2>6. Chain(Live)'
    <3>1. head' \in Live' \cup {0}
      BY <1>5, <2>1, <2>5
    <3>2. \A c \in Live' : next'[c] \in Live' \cup {0} /\ next'[c] # head'
      BY <1>4, <1>5, <1>8, <2>1, <2>2, <2>3, <2>4, <2>5 DEF ListInv, Chain
    <3>3. \A c, d \in Live' : next'[c] = next'[d] /\ next'[c] # 0 => c = d
      BY <1>5, <2>2, <2>3, <2>4 DEF ListInv, Chain
    <3>4. \A c \in Live' : c = head' \/ \E d \in Live' : next'[d] = c
      <4> SUFFICES ASSUME NEW c \in Live', c # head
                   PROVE  \E d \in Live' : next'[d] = c
        BY <2>1
      <4>1. CASE c = b
        BY <1>5, <2>2, <2>3, <4>1
      <4>2. CASE c # b
        <5>1. PICK d \in Live : next[d] = c
          BY <1>5, <4>2 DEF ListInv, Chain
        <5>2. d # a
          BY <1>4, <1>5, <2>1, <4>2, <5>1
        <5>3. QED
          BY <1>5, <2>4, <5>1, <5>2
      <4>3. QED
        BY <4>1, <4>2
    <3>5. QED
      BY <3>1, <3>2, <3>3, <3>4 DEF Chain
  <2>7. Looking'
    <3> SUFFICES ASSUME NEW u \in Threads, pc'[u] \in RemoveLabels
                 PROVE  /\ pc[u] \in {"rtest", "rcut"} =>
                             /\ n0[u] = head /\ n1[u] \in Live'  \cup {0}
                             /\ (n1[u] # 0 => next'[n0[u]] = n1[u])
                        /\ pc[u] \in {"rscan", "runlink", "radvance"} =>
                             n0[u] \in Live' /\ n1[u] \in Live' /\ next'[n0[u]] = n1[u]
      BY <1>1, <1>2, <2>1 DEF Looking, RemoveLabels, LookLabels
    <3>1. pc[u] = pc'[u]
      BY <1>2
    <3>2. ASSUME n0[u] \in Live, n1[u] # 0, next[n0[u]] = n1[u]
          PROVE  next'[n0[u]] = n1[u]
      BY <2>1, <2>4, <3>2
    <3>3. CASE pc[u] \in {"rtest", "rcut"}
      BY <1>5, <2>5, <3>2, <3>3 DEF ListInv, Looking
    <3>4. CASE pc[u] \in {"rscan", "runlink", "radvance"}
      BY <1>4, <1>5, <3>2, <3>4 DEF ListInv, Looking
    <3>5. QED
      BY <3>3, <3>4
  <2>8. Unmade'
    <3>1. \A c \in Bricks : c > made' => c # a /\ c > made
      BY <1>1, <1>4, <2>2 DEF Bricks
    <3>2. QED
      BY <1>8, <2>1, <2>3, <3>1 DEF ListInv, Unmade
  <2>9. QED
    BY <2>6, <2>7, <2>8 DEF ListInv
<1>9. QED
  BY <1>7, <1>8

(* A brick that nobody has unlinked is led to from MemBrickList, whatever  *)
(* removals run at once, until one of them unlinks a brick on which        *)
(* another one stands: removeOneNode unlinks the one brick it frees, and   *)
(* addNew puts the new one behind the last (new/simple_pool.go:61-77 and   *)
(* 173-205).                                                               *)
THEOREM RemovesOnlyOne == Spec => []RemovesOne
<1> DEFINE Inv == ~clashed => ListInv
<1>1. Init => Inv
  <2> SUFFICES ASSUME Init PROVE ListInv
    OBVIOUS
  <2>1. Live = {}
    BY DEF Init, Live
  <2>2. QED
    BY <2>1 DEF Init, ListInv, Chain, Looking, Unmade, Bricks
<1>2. PoolInv /\ Inv /\ [Next]_vars => Inv'
  <2> SUFFICES ASSUME PoolInv, Inv, [Next]_vars, ~clashed' PROVE ListInv'
    OBVIOUS
  <2> USE DEF PoolInv
  <2>1. ~clashed
    BY DEF Next, Step, Call, Release, GetEntity, ReadHead, Visit, Advance, AddNew, Count, Return,
           RHead, RTest, RCut, RScan, RUnlink, RAdvance, GFree, ReleaseOnece, FullRelease,
           ReleaseAcq, vars, removeVars
  <2>2. ListInv
    BY <2>1
  <2>3. ASSUME NEW t \in Threads, Step(t) PROVE ListInv'
    <3>1. CASE AddNew(t)
      BY <2>2, <3>1, AddNewKeepsList
    <3>2. CASE RHead(t) \/ RTest(t) \/ RScan(t) \/ RAdvance(t)
      BY <2>2, <3>2, LooksKeepList
    <3>3. CASE RCut(t) \/ RUnlink(t)
      BY <2>2, <3>3, CutKeepsList
    <3>4. CASE GFree(t)
      BY <2>2, <3>4, FreeKeepsList
    <3>5. CASE \/ \E size \in Sizes, acks \in AckTimes : GetEntity(t, size, acks)
               \/ ReadHead(t) \/ Visit(t) \/ Advance(t) \/ Count(t) \/ Return(t)
               \/ Release(t)
      BY <2>2, <3>5, OthersKeepList
    <3>6. QED
      BY <2>3, <3>1, <3>2, <3>3, <3>4, <3>5 DEF Step, Call
  <2>4. CASE UNCHANGED vars
    <3>1. Live' = Live
      BY <2>4 DEF Live, Victim, vars, listVars, removeVars
    <3>2. QED
      BY <2>2, <2>4, <3>1 DEF ListInv, Chain, Looking, Unmade, vars, listVars, removeVars
  <2>5. QED
    BY <2>3, <2>4 DEF Next
<1>3. PoolInv /\ Inv => RemovesOne
  BY ChainIsLinked DEF PoolInv, ListInv, RemovesOne, Live
<1>4. QED
  BY <1>1, <1>2, <1>3, PoolInvariant, PTL DEF Spec
=============================================================================
