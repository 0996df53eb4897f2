-------------------------- MODULE ReadBufferProofs --------------------------
(***************************************************************************)
(* For any number of goroutines and any capacity: the batch of a stripe    *)
(* has one owner, the range an owner empties is the one head and tail      *)
(* delimit, and no access is delivered twice.                              *)
(***************************************************************************)
EXTENDS ReadBuffer, TLAPS

\* p has been given the last free place of the ring and has not yet moved
\* head, or given up.
Filling(p) ==
  \/ pc[p] \in {"take", "load", "clear", "storeHead"}
  \/ pc[p] = "publish" /\ t[p] - h[p] = Capacity - 1

\* A goroutine's copies of head and tail are old, never from the future, head
\* moves by a whole ring, and the place the goroutine asks for is free.
CopiesOld ==
  \A p \in Proc :
    /\ h[p] <= head
    /\ h[p] # head => h[p] + Capacity <= head
    /\ pc[p] \in {"swapTail", "publish"} =>
         h[p] <= t[p] /\ t[p] - h[p] < Capacity /\ t[p] <= tail
    /\ pc[p] = "publish" => t[p] < tail

\* Whoever fills the ring is alone, and the ring is full as it saw it.
FillerAlone ==
  /\ \A p \in Proc : Filling(p) => h[p] = head /\ tail = head + Capacity
  /\ \A p, q \in Proc : Filling(p) /\ Filling(q) => p = q

\* The batch holds no more than the slots passed so far, and nothing once it
\* is about to be offered again.
BatchFits ==
  \A p \in Proc :
    /\ pc[p] = "load" => n[p] < Capacity /\ Len(batch) <= n[p]
    /\ pc[p] = "clear" => n[p] < Capacity /\ Len(batch) <= n[p] + 1
    /\ pc[p] = "return" => batch = << >>

Inv == /\ TypeOK /\ tail - head \in 0..Capacity
       /\ CopiesOld /\ FillerAlone /\ BatchFits /\ OneOwner
-----------------------------------------------------------------------------
\* A position of the ring is a slot.
LEMMA SlotOf == \A i \in Nat : i % Capacity \in Slot
  BY BoundAssumption DEF Slot

LEMMA InitInv == Init => Inv
  BY BoundAssumption DEF Init, Inv, TypeOK, CopiesOld, FillerAlone, Filling,
     BatchFits, OneOwner, Owner, Slot, Item, None

\* The steps of Add that read the counts change neither ring nor batch.
LEMMA LoadHeadInv == ASSUME NEW p \in Proc, Inv, LoadHead(p) PROVE Inv'
<1> USE BoundAssumption DEF LoadHead, At, To, ring, Inv
<1>1. TypeOK'
  BY DEF TypeOK
<1>2. (tail - head \in 0..Capacity)' /\ CopiesOld'
  BY DEF TypeOK, CopiesOld
<1>3. FillerAlone'
  BY DEF TypeOK, FillerAlone, Filling
<1>4. BatchFits' /\ OneOwner'
  BY DEF TypeOK, BatchFits, OneOwner, Owner
<1> QED
  BY <1>1, <1>2, <1>3, <1>4

LEMMA LoadTailInv == ASSUME NEW p \in Proc, Inv, LoadTail(p) PROVE Inv'
<1> USE BoundAssumption DEF LoadTail, At, To, ring, Inv
<1>1. TypeOK'
  BY DEF TypeOK
<1>2. (tail - head \in 0..Capacity)' /\ CopiesOld'
  BY DEF TypeOK, CopiesOld
<1>3. FillerAlone'
  BY DEF TypeOK, FillerAlone, Filling
<1>4. BatchFits' /\ OneOwner'
  BY DEF TypeOK, BatchFits, OneOwner, Owner
<1> QED
  BY <1>1, <1>2, <1>3, <1>4

\* The swap of tail: while somebody fills the ring no copy of tail that is
\* still the tail leaves room, so nobody else is given a place.
LEMMA SwapTailInv == ASSUME NEW p \in Proc, Inv, SwapTail(p) PROVE Inv'
<1> USE BoundAssumption DEF SwapTail, At, To, local, Inv
<1>1. CASE tail = t[p] /\ tail < MaxTail
  <2>1. tail' = tail + 1 /\ pc' = [pc EXCEPT ![p] = "publish"]
        /\ UNCHANGED <<head, buffer, returned, batch, h, t, n, policy>>
    BY <1>1
  <2>2. TypeOK'
    <3>1. tail' \in 0..MaxTail
      BY <1>1, <2>1 DEF TypeOK
    <3> QED
      BY <2>1, <3>1 DEF TypeOK
  <2>a. /\ tail = t[p] /\ h[p] <= head /\ tail - h[p] < Capacity
        /\ {tail, head, h[p], Capacity} \subseteq Int
    BY <1>1 DEF TypeOK, CopiesOld
  <2>b. (tail - head \in 0..Capacity)'
    BY <2>1, <2>a
  <2>c. CopiesOld'
    BY SMTT(40), <2>1, <2>a DEF TypeOK, CopiesOld
  <2>3. (tail - head \in 0..Capacity)' /\ CopiesOld'
    BY <2>b, <2>c
  <2>4. \A q \in Proc : ~Filling(q)
    BY <2>a DEF FillerAlone
  <2>5. \A q \in Proc : q # p => ~Filling(q)'
    BY <2>1, <2>4 DEF TypeOK, Filling
  <2>6. ASSUME Filling(p)'
        PROVE  h'[p] = head' /\ tail' = head' + Capacity
    <3>1. t[p] - h[p] = Capacity - 1
      BY <2>1, <2>6 DEF TypeOK, Filling
    <3>2. tail = h[p] + Capacity - 1 /\ head <= tail
      BY <1>1, <3>1 DEF TypeOK
    <3>3. h[p] = head
      <4>1. h[p] \in Nat /\ head \in Nat
        BY DEF TypeOK
      <4>2. h[p] # head => h[p] + Capacity <= head
        BY DEF CopiesOld
      <4> QED
        BY <3>2, <4>1, <4>2 DEF TypeOK
    <3> QED
      BY <2>1, <3>2, <3>3 DEF TypeOK
  <2>7. FillerAlone'
    BY <2>5, <2>6, Zenon DEF FillerAlone
  <2>8. BatchFits' /\ OneOwner'
    BY <2>1 DEF TypeOK, BatchFits, OneOwner, Owner
  <2> QED
    BY <2>2, <2>3, <2>7, <2>8
<1>2. CASE ~(tail = t[p] /\ tail < MaxTail)
  <2>1. pc' = [pc EXCEPT ![p] = "idle"]
        /\ UNCHANGED <<head, tail, buffer, returned, batch, h, t, n, policy>>
    BY <1>2
  <2>2. TypeOK'
    BY <2>1 DEF TypeOK
  <2>3. (tail - head \in 0..Capacity)' /\ CopiesOld'
    BY <2>1 DEF TypeOK, CopiesOld
  <2>4. FillerAlone'
    BY ZenonT(40), <2>1 DEF TypeOK, FillerAlone, Filling
  <2>5. BatchFits' /\ OneOwner'
    BY <2>1 DEF TypeOK, BatchFits, OneOwner, Owner
  <2> QED
    BY <2>2, <2>3, <2>4, <2>5
<1> QED
  BY <1>1, <1>2

LEMMA PublishInv == ASSUME NEW p \in Proc, Inv, Publish(p) PROVE Inv'
<1> USE BoundAssumption DEF Publish, At, To, local, Inv
<1>1. TypeOK'
  <2>1. t[p] \in Item
    BY DEF TypeOK, CopiesOld, Item
  <2>2. t[p] % Capacity \in Slot
    BY SlotOf DEF TypeOK
  <2> QED
    BY <2>1, <2>2 DEF TypeOK
<1>2. (tail - head \in 0..Capacity)' /\ CopiesOld'
  BY DEF TypeOK, CopiesOld
<1>3. FillerAlone'
  BY SMTT(40) DEF TypeOK, FillerAlone, Filling
<1>4. BatchFits' /\ OneOwner'
  BY DEF TypeOK, BatchFits, OneOwner, Owner
<1> QED
  BY <1>1, <1>2, <1>3, <1>4

LEMMA TakeInv == ASSUME NEW p \in Proc, Inv, Take(p) PROVE Inv'
<1> USE BoundAssumption DEF Take, At, To, ring, Inv
<1>1. returned' \in BOOLEAN /\ pc' \in [Proc -> Owner \cup
        {"idle", "loadTail", "swapTail", "publish", "take"}]
  <2>1. CASE returned
    BY <2>1 DEF TypeOK, Owner
  <2>2. CASE ~returned
    BY <2>2 DEF TypeOK, Owner
  <2> QED
    BY <2>1, <2>2
<1>2. TypeOK'
  BY <1>1 DEF TypeOK
<1>3. (tail - head \in 0..Capacity)' /\ CopiesOld'
  BY DEF TypeOK, CopiesOld
<1>4. FillerAlone'
  BY ZenonT(40) DEF TypeOK, FillerAlone, Filling
<1>5. OneOwner'
  BY DEF TypeOK, OneOwner, Owner
<1>6. BatchFits'
  BY DEF TypeOK, BatchFits, OneOwner, Owner
<1> QED
  BY <1>2, <1>3, <1>4, <1>5, <1>6

\* The owner's turns over the ring.
LEMMA LoadInv == ASSUME NEW p \in Proc, Inv, Load(p) PROVE Inv'
<1> USE BoundAssumption DEF Load, NextSlot, At, To, ring, Inv
<1>0. Index(p) \in Slot
  <2>1. h[p] + n[p] \in Nat
    BY DEF TypeOK
  <2> QED
    BY <2>1, SlotOf DEF Index
<1>1. TypeOK'
  <2>1. CASE buffer[Index(p)] # None
    <3>1. buffer[Index(p)] \in Item
      BY <1>0, <2>1 DEF TypeOK
    <3>a. batch' = Append(batch, buffer[Index(p)]) /\ batch \in Seq(Item)
      BY <2>1 DEF TypeOK
    <3>2. batch' \in Seq(Item) /\ Len(batch') = Len(batch) + 1
      BY <3>1, <3>a
    <3>b. Len(batch) <= n[p] /\ n[p] < Capacity /\ n[p] \in Nat
      BY DEF TypeOK, BatchFits
    <3>4. Len(batch') <= Capacity
      BY <3>2, <3>a, <3>b
    <3>3. pc' = [pc EXCEPT ![p] = "clear"]
          /\ UNCHANGED <<head, tail, buffer, returned, h, t, n, policy>>
      BY <2>1
    <3> QED
      BY <3>2, <3>3, <3>4 DEF TypeOK, Owner
  <2>2. CASE buffer[Index(p)] = None
    <3>a. n' = [n EXCEPT ![p] = @ + 1] /\ n \in [Proc -> 0..Capacity]
      BY <2>2 DEF TypeOK
    <3>b. n[p] + 1 \in 0..Capacity
      BY <3>a DEF BatchFits
    <3>1. n' \in [Proc -> 0..Capacity]
      BY <3>a, <3>b
    <3>2. pc' \in [Proc -> Owner \cup
            {"idle", "loadTail", "swapTail", "publish", "take"}]
      BY <2>2 DEF TypeOK, Owner
    <3> QED
      BY <2>2, <3>1, <3>2 DEF TypeOK
  <2> QED
    BY <2>1, <2>2
<1>2. (tail - head \in 0..Capacity)' /\ CopiesOld'
  BY DEF TypeOK, CopiesOld
<1>3. FillerAlone'
  BY ZenonT(40) DEF TypeOK, FillerAlone, Filling
<1>4. OneOwner'
  BY DEF TypeOK, OneOwner, Owner
<1>5. BatchFits'
  <2>1. \A q \in Proc : q # p => pc'[q] \notin {"load", "clear", "return"}
    BY DEF TypeOK, OneOwner, Owner
  <2>2. n[p] < Capacity /\ Len(batch) <= n[p] /\ n[p] \in Nat /\ Len(batch) \in Nat
    BY DEF TypeOK, BatchFits
  <2>3. CASE buffer[Index(p)] # None
    <3>1. pc'[p] = "clear" /\ n' = n /\ batch' = Append(batch, buffer[Index(p)])
      BY <2>3 DEF TypeOK
    <3>2. buffer[Index(p)] \in Item /\ batch \in Seq(Item)
      BY <1>0, <2>3 DEF TypeOK
    <3>3. Len(batch') = Len(batch) + 1
      BY <3>1, <3>2
    <3> QED
      BY <2>1, <2>2, <3>1, <3>3 DEF BatchFits
  <2>4. CASE buffer[Index(p)] = None
    <3>1. /\ n'[p] = n[p] + 1 /\ batch' = batch
          /\ pc'[p] = IF n[p] + 1 = Capacity THEN "storeHead" ELSE "load"
      BY <2>4 DEF TypeOK
    <3> QED
      BY <2>1, <2>2, <3>1 DEF BatchFits
  <2> QED
    BY <2>3, <2>4
<1> QED
  BY <1>1, <1>2, <1>3, <1>4, <1>5

LEMMA ClearSlotInv == ASSUME NEW p \in Proc, Inv, ClearSlot(p) PROVE Inv'
<1> USE BoundAssumption DEF ClearSlot, NextSlot, At, To, Inv
<1>1. TypeOK'
  <2>1. buffer' \in [Slot -> Item \cup {None}]
    BY DEF TypeOK
  <2>2. n' \in [Proc -> 0..Capacity]
    BY DEF TypeOK, BatchFits
  <2> QED
    BY <2>1, <2>2 DEF TypeOK, Owner
<1>2. (tail - head \in 0..Capacity)' /\ CopiesOld'
  BY DEF TypeOK, CopiesOld
<1>3. FillerAlone'
  BY DEF TypeOK, FillerAlone, Filling
<1>4. OneOwner'
  BY DEF TypeOK, OneOwner, Owner
<1>5. BatchFits'
  BY DEF TypeOK, BatchFits, OneOwner, Owner
<1> QED
  BY <1>1, <1>2, <1>3, <1>4, <1>5

\* head moves up to tail; nobody else was filling the ring.
LEMMA StoreHeadInv == ASSUME NEW p \in Proc, Inv, StoreHead(p) PROVE Inv'
<1> USE BoundAssumption DEF StoreHead, At, To, local, Inv
<1>1. TypeOK'
  BY DEF TypeOK, Owner
<1>2. head' = head + Capacity /\ tail' = head'
  BY DEF TypeOK, FillerAlone, Filling
<1>a. (tail - head \in 0..Capacity)'
  BY <1>2 DEF TypeOK
<1>b. \A q \in Proc : h'[q] = h[q] /\ h[q] \in Nat /\ h[q] <= head
  BY DEF TypeOK, CopiesOld
<1>c. \A q \in Proc : h'[q] <= head' /\ h'[q] + Capacity <= head'
  BY <1>2, <1>b DEF TypeOK
<1>d. \A q \in Proc : pc'[q] \in {"swapTail", "publish"} => pc[q] = pc'[q]
  BY DEF TypeOK
<1>3. (tail - head \in 0..Capacity)' /\ CopiesOld'
  BY <1>a, <1>b, <1>c, <1>d DEF CopiesOld
<1>4. FillerAlone'
  BY DEF TypeOK, FillerAlone, Filling
<1>5. BatchFits' /\ OneOwner'
  BY DEF TypeOK, BatchFits, OneOwner, Owner
<1> QED
  BY <1>1, <1>3, <1>4, <1>5

\* drainRead and Free touch neither head nor tail.
LEMMA DrainReadInv ==
  ASSUME NEW p \in Proc, Inv, DrainRead(p) \/ Free(p) PROVE Inv'
<1> USE BoundAssumption DEF DrainRead, Free, At, To, ring, local, Inv
<1>1. TypeOK'
  <2>1. CASE DrainRead(p)
    <3>1. policy' \in Seq(Item)
      BY <2>1 DEF TypeOK
    <3> QED
      BY <2>1, <3>1 DEF TypeOK, Owner
  <2>2. CASE Free(p)
    BY <2>2 DEF TypeOK, Owner
  <2> QED
    BY <2>1, <2>2
<1>2. (tail - head \in 0..Capacity)' /\ CopiesOld'
  BY DEF TypeOK, CopiesOld
<1>3. FillerAlone'
  BY ZenonT(40) DEF TypeOK, FillerAlone, Filling
<1>4. OneOwner'
  <2>1. ~returned'
    BY DEF TypeOK, OneOwner, Owner
  <2> QED
    BY <2>1 DEF TypeOK, OneOwner, Owner
<1>5. BatchFits'
  BY DEF TypeOK, BatchFits, OneOwner, Owner
<1> QED
  BY <1>1, <1>2, <1>3, <1>4, <1>5

LEMMA ReturnInv == ASSUME NEW p \in Proc, Inv, Return(p) PROVE Inv'
<1> USE BoundAssumption DEF Return, At, To, ring, local, Inv
<1>1. TypeOK'
  BY DEF TypeOK, Owner
<1>2. (tail - head \in 0..Capacity)' /\ CopiesOld'
  BY DEF TypeOK, CopiesOld
<1>3. FillerAlone'
  BY DEF TypeOK, FillerAlone, Filling
<1>4. OneOwner'
  <2>1. batch' = << >>
    BY DEF BatchFits
  <2>2. \A q \in Proc : pc'[q] \notin Owner
    BY DEF TypeOK, OneOwner, Owner
  <2> QED
    BY <2>1, <2>2 DEF OneOwner
<1>5. BatchFits'
  BY DEF TypeOK, BatchFits, OneOwner, Owner
<1> QED
  BY <1>1, <1>2, <1>3, <1>4, <1>5

LEMMA StepInv == Inv /\ [Next]_vars => Inv'
<1> SUFFICES ASSUME Inv, [Next]_vars PROVE Inv'
  OBVIOUS
<1>1. CASE Next
  <2>1. PICK p \in Proc : LoadHead(p) \/ Step(p)
    BY <1>1 DEF Next
  <2> QED
    BY <2>1, LoadHeadInv, LoadTailInv, SwapTailInv, PublishInv, TakeInv,
       LoadInv, ClearSlotInv, StoreHeadInv, DrainReadInv, ReturnInv DEF Step, Add
<1>2. CASE UNCHANGED vars
  BY <1>2 DEF vars, ring, local, Inv, TypeOK, CopiesOld, FillerAlone, Filling,
     BatchFits, OneOwner
<1> QED
  BY <1>1, <1>2

\* The batch of a stripe (Buffer.policyBuffers) is in the hands of one Get at
\* a time, and empty when it is offered again, whatever the capacity and
\* however many goroutines use the stripe.
THEOREM BatchOwned == Spec => []OneOwner
<1>1. Inv => OneOwner
  BY DEF Inv
<1> QED
  BY <1>1, InitInv, StepInv, PTL DEF Spec

\* head and tail never drift apart by more than the capacity, and stay where
\* they are while Add empties the ring.
THEOREM RingStable == Spec => []RangeStable
<1>1. Inv => RangeStable
  BY DEF Inv, RangeStable, FillerAlone, Filling
<1> QED
  BY <1>1, InitInv, StepInv, PTL DEF Spec

\* Neither the ring nor the batch (made with room for capacity items) is ever
\* overrun.
THEOREM BufferTyped == Spec => []TypeOK
<1>1. Inv => TypeOK
  BY DEF Inv
<1> QED
  BY <1>1, InitInv, StepInv, PTL DEF Spec

-----------------------------------------------------------------------------
(* No access is delivered twice.                                           *)

\* What has been published was given its place before, and is in the slot of
\* that place.
Placed ==
  /\ \A i \in Slot : buffer[i] # None =>
       buffer[i] < tail /\ buffer[i] % Capacity = i
  /\ \A i \in DOMAIN batch : batch[i] < tail
  /\ \A i \in DOMAIN policy : policy[i] < tail

\* An item still to be published is one Get's, and nowhere else.
Unpublished ==
  \A p \in Proc : pc[p] = "publish" =>
    /\ \A q \in Proc : pc[q] = "publish" /\ t[q] = t[p] => q = p
    /\ \A i \in Slot : buffer[i] # t[p]
    /\ t[p] \notin ToSet(batch) /\ t[p] \notin ToSet(policy)

\* What is in the batch has left the ring, but for the slot that is about to
\* be cleared, and is not known to the policy until the batch is drained.
Moved ==
  /\ IsInjective(batch)
  /\ \A i \in Slot : buffer[i] \in ToSet(batch) =>
       \E p \in Proc : pc[p] = "clear" /\ i = Index(p)
  /\ (\A p \in Proc : pc[p] # "free") =>
       \A v \in ToSet(batch) : v \notin ToSet(policy)

Label == Owner \cup {"idle", "loadTail", "swapTail", "publish", "take"}

\* What this section adds to Inv.
Once == Placed /\ Unpublished /\ Moved /\ AtMostOnce

LEMMA Typed ==
  ASSUME Inv
  PROVE  /\ pc \in [Proc -> Label] /\ tail \in Nat
         /\ h \in [Proc -> Nat] /\ t \in [Proc -> Nat] /\ n \in [Proc -> 0..Capacity]
         /\ batch \in Seq(Item) /\ policy \in Seq(Item)
         /\ \A i \in DOMAIN batch : batch[i] \in Nat
         /\ \A i \in DOMAIN policy : policy[i] \in Nat
         /\ buffer \in [Slot -> Int]
<1>1. \A s \in Seq(Item) : \A i \in DOMAIN s : s[i] \in Item
  OBVIOUS
<1>2. \A v \in Item : v \in Nat
  BY BoundAssumption DEF Item
<1>3. buffer \in [Slot -> Int]
  BY <1>2 DEF Inv, TypeOK, None
<1>4. batch \in Seq(Item) /\ policy \in Seq(Item)
  BY DEF Inv, TypeOK
<1>5. /\ \A i \in DOMAIN batch : batch[i] \in Nat
      /\ \A i \in DOMAIN policy : policy[i] \in Nat
  BY <1>1, <1>2, <1>4
<1>6. tail \in Nat
  BY BoundAssumption DEF Inv, TypeOK
<1> QED
  BY <1>3, <1>4, <1>5, <1>6 DEF Inv, TypeOK, Label

LEMMA OnceInit == Init => Once
  BY DEF Init, Once, Placed, Unpublished, Moved, AtMostOnce, IsInjective, ToSet,
     None

\* A step that moves no item.
LEMMA OnceFrame ==
  ASSUME Inv, Once, UNCHANGED <<tail, buffer, batch, policy>>,
         \A q \in Proc : pc'[q] = "publish" => pc[q] = "publish" /\ t'[q] = t[q],
         \A q \in Proc : pc[q] = "clear" =>
           pc'[q] = "clear" /\ h'[q] = h[q] /\ n'[q] = n[q],
         (\A q \in Proc : pc'[q] # "free") => (\A q \in Proc : pc[q] # "free")
  PROVE  Once'
<1> USE DEF Once
<1>1. Placed'
  BY DEF Placed
<1>2. Unpublished'
  BY DEF Unpublished
<1>3. Moved'
  BY DEF Moved, Index
<1>4. AtMostOnce'
  BY DEF AtMostOnce
<1> QED
  BY <1>1, <1>2, <1>3, <1>4

\* A place is given: all items there are have earlier places.
LEMMA SwapTailOnce == ASSUME NEW p \in Proc, Inv, Once, SwapTail(p) PROVE Once'
<1> USE DEF Once, local
<1>1. CASE ~(tail = t[p] /\ tail < MaxTail)
  <2>1. pc' = [pc EXCEPT ![p] = "idle"]
        /\ UNCHANGED <<head, tail, buffer, returned, batch, h, t, n, policy>>
    BY <1>1 DEF SwapTail, To
  <2>2. pc \in [Proc -> Label]
    BY Typed
  <2> QED
    BY <2>1, <2>2, OnceFrame DEF SwapTail, At
<1>2. CASE tail = t[p] /\ tail < MaxTail
  <2>1. /\ tail' = tail + 1 /\ pc' = [pc EXCEPT ![p] = "publish"] /\ t[p] = tail
        /\ pc[p] = "swapTail"
        /\ UNCHANGED <<head, buffer, returned, batch, h, t, n, policy>>
    BY <1>2 DEF SwapTail, To, At
  <2>2. tail \in Nat /\ pc \in [Proc -> Label]
    BY Typed
  <2>3. /\ \A i \in Slot : buffer[i] \in Int
        /\ \A i \in DOMAIN batch : batch[i] \in Nat
        /\ \A i \in DOMAIN policy : policy[i] \in Nat
    BY Typed
  <2>4. Placed'
    <3>1. \A v \in Int : v < tail => v < tail'
      BY <2>1, <2>2
    <3> QED
      BY <2>1, <2>3, <3>1 DEF Placed
  <2>5. Unpublished'
    <3>1. \A q \in Proc : pc[q] = "publish" => t[q] < tail
      BY DEF Inv, CopiesOld
    <3>2. /\ \A i \in Slot : buffer[i] # tail
          /\ tail \notin ToSet(batch) /\ tail \notin ToSet(policy)
      BY <2>2, <2>3 DEF Placed, ToSet, None
    <3>3. \A q \in Proc : q # p => pc'[q] = pc[q]
      BY <2>1, <2>2
    <3>4. \A q \in Proc : pc[q] = "publish" => t[q] # tail
      BY <2>2, <3>1
    <3> QED
      BY <2>1, <3>2, <3>3, <3>4 DEF Unpublished
  <2>6. Moved'
    <3>1. \A q \in Proc : pc[q] = "clear" => pc'[q] = "clear"
      BY <2>1, <2>2
    <3>2. (\A q \in Proc : pc'[q] # "free") => (\A q \in Proc : pc[q] # "free")
      BY <2>1, <2>2
    <3> QED
      BY <2>1, <3>1, <3>2 DEF Moved, Index
  <2>7. AtMostOnce'
    BY <2>1 DEF AtMostOnce
  <2> QED
    BY <2>4, <2>5, <2>6, <2>7
<1> QED
  BY <1>1, <1>2

\* An item comes into the ring, over whatever its slot holds.
LEMMA PublishOnce == ASSUME NEW p \in Proc, Inv, Once, Publish(p) PROVE Once'
<1> USE DEF Once, local
<1>1. /\ pc[p] = "publish" /\ buffer' = [buffer EXCEPT ![t[p] % Capacity] = t[p]]
      /\ UNCHANGED <<head, tail, returned, batch, h, t, n, policy>>
  BY DEF Publish, At
<1>2. /\ pc \in [Proc -> Label] /\ buffer \in [Slot -> Int] /\ t[p] \in Nat
      /\ t[p] < tail
  BY <1>1, Typed DEF Inv, CopiesOld
<1>3. pc' = [pc EXCEPT ![p] = pc'[p]] /\ pc'[p] \in {"take", "idle"}
  BY <1>2 DEF Publish, To
<1>4. t[p] % Capacity \in Slot
  BY <1>2, SlotOf
<1>5. \A i \in Slot : buffer'[i] = IF i = t[p] % Capacity THEN t[p] ELSE buffer[i]
  BY <1>1, <1>2, <1>4
<1>6. Placed'
  BY <1>1, <1>2, <1>5 DEF Placed
<1>7. \A q \in Proc : pc'[q] = "publish" => pc[q] = "publish" /\ t[q] # t[p]
  BY <1>1, <1>2, <1>3 DEF Unpublished
<1>8. Unpublished'
  BY <1>1, <1>5, <1>7 DEF Unpublished
<1>9. \A q \in Proc : /\ pc[q] = "clear" => pc'[q] = "clear"
                      /\ pc[q] = "free" => pc'[q] = "free"
  BY <1>1, <1>2, <1>3
<1>10. t[p] \notin ToSet(batch) /\ t[p] \notin ToSet(policy)
  BY <1>1 DEF Unpublished
<1>11. Moved'
  BY <1>1, <1>5, <1>9, <1>10 DEF Moved, Index
<1>12. AtMostOnce'
  BY <1>1, <1>5, <1>10 DEF AtMostOnce
<1> QED
  BY <1>6, <1>8, <1>11, <1>12

\* The owner copies an item to the batch: with nothing left to clear, the
\* batch does not hold it yet.
LEMMA LoadOnce == ASSUME NEW p \in Proc, Inv, Once, Load(p) PROVE Once'
<1> USE DEF Once, local
<1>0. /\ pc \in [Proc -> Label] /\ pc[p] = "load"
      /\ UNCHANGED <<head, tail, buffer, returned, h, t, policy>>
      /\ \A q \in Proc : q # p => pc[q] \notin Owner
  BY Typed DEF Inv, OneOwner, Owner, Load, At, ring
<1>1. CASE buffer[Index(p)] = None
  <2>1. batch' = batch /\ pc' = [pc EXCEPT ![p] = pc'[p]]
        /\ pc'[p] \in {"storeHead", "load"}
    BY <1>0, <1>1 DEF Load, NextSlot, To
  <2> QED
    BY <1>0, <2>1, OnceFrame DEF Owner
<1>2. CASE buffer[Index(p)] # None
  <2> DEFINE v == buffer[Index(p)]
  <2>1. batch' = Append(batch, v) /\ pc' = [pc EXCEPT ![p] = "clear"] /\ n' = n
    BY <1>2 DEF Load, To
  <2>2. Index(p) \in Slot
    <3>1. h[p] + n[p] \in Nat
      BY DEF Inv, TypeOK
    <3> QED
      BY <3>1, SlotOf DEF Index
  <2>3. v \in Item /\ batch \in Seq(Item) /\ v < tail
    BY <1>2, <2>2 DEF Inv, TypeOK, Placed
  <2>4. v \notin ToSet(batch) /\ v \notin ToSet(policy)
    BY <1>0, <2>2 DEF Moved, AtMostOnce, Owner
  <2>5. /\ DOMAIN batch = 1..Len(batch) /\ Len(batch) \in Nat
        /\ DOMAIN batch' = 1..(Len(batch) + 1)
        /\ batch'[Len(batch) + 1] = v
        /\ \A i \in DOMAIN batch : batch'[i] = batch[i]
    BY <2>1, <2>3
  <2>6. ToSet(batch') = ToSet(batch) \cup {v}
    BY <2>5 DEF ToSet
  <2>7. IsInjective(batch')
    BY <2>4, <2>5 DEF Moved, IsInjective, ToSet
  <2>8. Placed'
    BY <1>0, <2>3, <2>5 DEF Placed
  <2>9. \A q \in Proc : pc'[q] = "publish" => pc[q] = "publish" /\ v # t[q]
    BY <1>0, <2>1, <2>2 DEF Unpublished
  <2>10. Unpublished'
    BY <1>0, <2>6, <2>9 DEF Unpublished
  <2>11. \A i \in Slot : buffer'[i] \in ToSet(batch') => i = Index(p)'
    <3> SUFFICES ASSUME NEW i \in Slot, buffer[i] \in ToSet(batch') PROVE i = Index(p)
      BY <1>0, <2>1 DEF Index
    <3>1. buffer[i] \notin ToSet(batch)
      BY <1>0 DEF Moved, Owner
    <3>2. buffer[i] = v
      BY <2>6, <3>1
    <3> QED
      BY <1>2, <2>2, <3>2 DEF Placed
  <2>12. \A q \in Proc : pc[q] # "free"
    BY <1>0 DEF Owner
  <2>13. \A w \in ToSet(batch') : w \notin ToSet(policy')
    BY <1>0, <2>4, <2>6, <2>12 DEF Moved
  <2>14. pc'[p] = "clear"
    BY <1>0, <2>1
  <2>15. Moved'
    BY <2>7, <2>11, <2>13, <2>14 DEF Moved
  <2>16. AtMostOnce'
    BY <1>0 DEF AtMostOnce
  <2> QED
    BY <2>8, <2>10, <2>15, <2>16
<1> QED
  BY <1>1, <1>2

\* The slot is cleared: an item published there in the meantime is lost, and
\* the one in the batch is no longer in the ring.
LEMMA ClearSlotOnce == ASSUME NEW p \in Proc, Inv, Once, ClearSlot(p) PROVE Once'
<1> USE DEF Once
<1>1. /\ pc \in [Proc -> Label] /\ pc[p] = "clear" /\ buffer \in [Slot -> Int]
      /\ buffer' = [buffer EXCEPT ![Index(p)] = None]
      /\ UNCHANGED <<head, tail, returned, batch, h, t, policy>>
      /\ \A q \in Proc : q # p => pc[q] \notin Owner
      /\ batch \in Seq(Item) /\ policy \in Seq(Item)
  BY Typed DEF Inv, OneOwner, Owner, ClearSlot, At
<1>2. pc' = [pc EXCEPT ![p] = pc'[p]] /\ pc'[p] \in {"storeHead", "load"}
  BY <1>1 DEF ClearSlot, NextSlot, To
<1>3. \A i \in Slot : buffer'[i] = IF i = Index(p) THEN None ELSE buffer[i]
  BY <1>1
<1>4. None \notin ToSet(batch) /\ None \notin ToSet(policy)
  BY Typed DEF ToSet, None
<1>5. Placed'
  BY <1>1, <1>3 DEF Placed
<1>6. \A q \in Proc : pc'[q] = "publish" => pc[q] = "publish" /\ t[q] # None
  BY <1>1, <1>2 DEF Inv, TypeOK, None
<1>7. Unpublished'
  BY <1>1, <1>3, <1>6 DEF Unpublished
<1>8. \A i \in Slot : buffer'[i] \notin ToSet(batch')
  BY <1>1, <1>3, <1>4 DEF Moved, Owner
<1>9. \A q \in Proc : pc[q] # "free"
  BY <1>1 DEF Owner
<1>10. Moved'
  BY <1>1, <1>8, <1>9 DEF Moved
<1>11. AtMostOnce'
  BY <1>1, <1>3, <1>4 DEF AtMostOnce
<1> QED
  BY <1>5, <1>7, <1>10, <1>11

\* drainRead: the batch, apart from ring and policy, goes to the policy.
LEMMA DrainReadOnce == ASSUME NEW p \in Proc, Inv, Once, DrainRead(p) PROVE Once'
<1> USE DEF Once, local, ring
<1>1. /\ pc \in [Proc -> Label] /\ pc[p] = "drainRead"
      /\ pc' = [pc EXCEPT ![p] = "free"] /\ policy' = policy \o batch
      /\ UNCHANGED <<head, tail, buffer, returned, batch, h, t, n>>
      /\ \A q \in Proc : q # p => pc[q] \notin Owner
      /\ batch \in Seq(Item) /\ policy \in Seq(Item)
  BY Typed DEF Inv, OneOwner, Owner, DrainRead, At, To
<1>2. \A q \in Proc : pc[q] # "free" /\ pc[q] # "clear"
  BY <1>1 DEF Owner
<1>3. /\ Len(batch) \in Nat /\ Len(policy) \in Nat
      /\ DOMAIN batch = 1..Len(batch) /\ DOMAIN policy = 1..Len(policy)
      /\ DOMAIN policy' = 1..(Len(policy) + Len(batch))
      /\ \A i \in 1..(Len(policy) + Len(batch)) :
           policy'[i] = IF i <= Len(policy) THEN policy[i] ELSE batch[i - Len(policy)]
  BY <1>1
<1>a. \A i \in DOMAIN policy' :
        \/ i \in DOMAIN policy /\ policy'[i] = policy[i]
        \/ i - Len(policy) \in DOMAIN batch /\ policy'[i] = batch[i - Len(policy)]
  BY <1>3
<1>4. \A v \in ToSet(policy') : v \in ToSet(policy) \/ v \in ToSet(batch)
  BY <1>a DEF ToSet
<1>5. Placed'
  BY <1>1, <1>a DEF Placed
<1>6. Unpublished'
  BY <1>1, <1>4 DEF Unpublished
<1>7. Moved'
  BY <1>1, <1>2 DEF Moved
<1>8. IsInjective(policy')
  <2> SUFFICES ASSUME NEW i \in DOMAIN policy', NEW j \in DOMAIN policy',
                      policy'[i] = policy'[j]
               PROVE  i = j
    BY DEF IsInjective
  <2>1. \A x \in DOMAIN policy, y \in DOMAIN batch : policy[x] # batch[y]
    BY <1>2 DEF Moved, ToSet
  <2>2. CASE i \in DOMAIN policy /\ j \in DOMAIN policy
    BY <1>3, <2>2 DEF AtMostOnce, IsInjective
  <2>3. CASE i \notin DOMAIN policy /\ j \notin DOMAIN policy
    <3>1. i - Len(policy) = j - Len(policy)
      BY <1>a, <2>3 DEF Moved, IsInjective
    <3> QED
      BY <1>3, <3>1
  <2>4. CASE i \in DOMAIN policy <=> j \notin DOMAIN policy
    BY <1>3, <1>a, <2>1, <2>4
  <2> QED
    BY <2>2, <2>3, <2>4
<1>9. AtMostOnce'
  BY <1>1, <1>2, <1>4, <1>8 DEF AtMostOnce, Moved
<1> QED
  BY <1>5, <1>6, <1>7, <1>9

LEMMA FreeOnce == ASSUME NEW p \in Proc, Inv, Once, Free(p) PROVE Once'
<1> USE DEF Once, local, ring
<1>1. /\ pc \in [Proc -> Label] /\ pc[p] = "free"
      /\ pc' = [pc EXCEPT ![p] = "return"] /\ batch' = << >>
      /\ UNCHANGED <<head, tail, buffer, returned, policy, h, t, n>>
  BY Typed DEF Free, At, To
<1>2. ToSet(batch') = {} /\ IsInjective(batch')
  BY <1>1 DEF ToSet, IsInjective
<1>3. Placed'
  BY <1>1 DEF Placed
<1>4. Unpublished'
  BY <1>1, <1>2 DEF Unpublished
<1>5. Moved'
  BY <1>2 DEF Moved
<1>6. AtMostOnce'
  BY <1>1 DEF AtMostOnce
<1> QED
  BY <1>3, <1>4, <1>5, <1>6

\* The other steps move no item.
LEMMA OtherOnce ==
  ASSUME NEW p \in Proc, Inv, Once,
         LoadHead(p) \/ LoadTail(p) \/ Take(p) \/ StoreHead(p) \/ Return(p)
  PROVE  Once'
<1>1. /\ pc \in [Proc -> Label] /\ t \in [Proc -> Nat] /\ n \in [Proc -> 0..Capacity]
      /\ h \in [Proc -> Nat]
  BY Typed
<1>2. UNCHANGED <<tail, buffer, batch, policy>>
  BY DEF LoadHead, LoadTail, Take, StoreHead, Return, ring, local
<1>3. \A q \in Proc : pc'[q] = "publish" => pc[q] = "publish" /\ t'[q] = t[q]
  BY <1>1 DEF LoadHead, LoadTail, Take, StoreHead, Return, ring, local, At, To
<1>4. \A q \in Proc : pc[q] = "clear" => pc'[q] = "clear" /\ h'[q] = h[q] /\ n'[q] = n[q]
  BY <1>1 DEF LoadHead, LoadTail, Take, StoreHead, Return, ring, local, At, To
<1>5. \A q \in Proc : pc[q] = "free" => pc'[q] = "free"
  BY <1>1 DEF LoadHead, LoadTail, Take, StoreHead, Return, ring, local, At, To
<1> QED
  BY <1>2, <1>3, <1>4, <1>5, OnceFrame

\* An access (Buffer.Add, drainRead) reaches the policy at most once, whatever
\* the capacity and however long a Get sleeps between two steps.
THEOREM DeliveredOnce == Spec => []AtMostOnce
<1>1. Init => Inv /\ Once
  BY InitInv, OnceInit
<1>2. Inv /\ Once /\ [Next]_vars => Inv' /\ Once'
  <2> SUFFICES ASSUME Inv, Once, [Next]_vars PROVE Once'
    BY StepInv
  <2>1. CASE Next
    <3>1. PICK p \in Proc : LoadHead(p) \/ Step(p)
      BY <2>1 DEF Next
    <3> QED
      BY <3>1, OtherOnce, SwapTailOnce, PublishOnce, LoadOnce, ClearSlotOnce,
         DrainReadOnce, FreeOnce DEF Step, Add
  <2>2. CASE UNCHANGED vars
    BY <2>2, OnceFrame DEF vars, ring, local
  <2> QED
    BY <2>1, <2>2
<1>3. Once => AtMostOnce
  BY DEF Once
<1> QED
  BY <1>1, <1>2, <1>3, PTL DEF Spec
=============================================================================
