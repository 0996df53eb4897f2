----------------------------- MODULE ReadBuffer -----------------------------
(***************************************************************************)
(* One stripe of the lossy read buffer (internal/buffer.go) and the Gets   *)
(* that use it (Store.Get, drainRead).  A Get of a present key adds the    *)
(* entry to a ring; the Get that fills the ring takes the batch out, hands *)
(* it to the policy under policyMu and frees the batch.                    *)
(*                                                                         *)
(* One action per atomic operation of Add.  An item is named after the     *)
(* place in the ring it was given: the value of tail its Get swapped.      *)
(***************************************************************************)
EXTENDS Integers, Sequences, SequencesExt

CONSTANTS
  Proc,       \* goroutines in Get
  Capacity,   \* of the ring: capacity in the code
  MaxTail     \* bound: items ever given a place

ASSUME BoundAssumption == Capacity \in Nat \ {0, 1} /\ MaxTail \in Nat

None == -1    \* the nil pointer
Slot == 0..(Capacity - 1)
Item == 0..(MaxTail - 1)

VARIABLES
  head, tail, buffer,
  returned,   \* the batch is there to be taken (returned = policyBuffers)
  batch,      \* policyBuffers.Returned
  pc, h, t,   \* of a goroutine: its copies of head and tail
  n,          \* and the turns of its loop over the ring
  policy      \* the items the policy has been told of, in order

ring  == <<head, tail, buffer>>
local == <<h, t, n>>
vars  == <<ring, returned, batch, pc, local, policy>>

Init ==
  /\ head = 0 /\ tail = 0 /\ buffer = [i \in Slot |-> None]
  /\ returned = TRUE /\ batch = << >>
  /\ pc = [p \in Proc |-> "idle"]
  /\ h = [p \in Proc |-> 0] /\ t = [p \in Proc |-> 0] /\ n = [p \in Proc |-> 0]
  /\ policy = << >>

At(p, from) == pc[p] = from
To(p, label) == pc' = [pc EXCEPT ![p] = label]

\* Get has found its key: head := b.head.Load().
LoadHead(p) ==
  /\ At(p, "idle") /\ To(p, "loadTail")
  /\ h' = [h EXCEPT ![p] = head]
  /\ UNCHANGED <<ring, returned, batch, t, n, policy>>

\* Seeded fault: a full ring is taken for one with a last free place.
LoadTailOver(p) ==
  /\ At(p, "loadTail")
  /\ t' = [t EXCEPT ![p] = tail]
  /\ To(p, IF tail - h[p] > Capacity THEN "idle" ELSE "swapTail")
  /\ UNCHANGED <<ring, returned, batch, h, n, policy>>

\* tail := b.tail.Load(); a full ring loses the item.
LoadTail(p) ==
  /\ At(p, "loadTail")
  /\ t' = [t EXCEPT ![p] = tail]
  /\ To(p, IF tail - h[p] >= Capacity THEN "idle" ELSE "swapTail")
  /\ UNCHANGED <<ring, returned, batch, h, n, policy>>

\* b.tail.CompareAndSwap(tail, tail+1); a lost race loses the item, and so
\* does the bound.
SwapTail(p) ==
  /\ At(p, "swapTail")
  /\ IF tail = t[p] /\ tail < MaxTail
       THEN tail' = tail + 1 /\ To(p, "publish")
       ELSE To(p, "idle") /\ UNCHANGED tail
  /\ UNCHANGED <<head, buffer, returned, batch, local, policy>>

\* The item is stored in its slot; the last free place makes its Get the one
\* to take the batch.
Publish(p) ==
  /\ At(p, "publish")
  /\ buffer' = [buffer EXCEPT ![t[p] % Capacity] = t[p]]
  /\ To(p, IF t[p] - h[p] = Capacity - 1 THEN "take" ELSE "idle")
  /\ UNCHANGED <<head, tail, returned, batch, local, policy>>

\* Seeded fault: nobody asks whether the batch is there to be taken.
TakeAnyway(p) ==
  /\ At(p, "take")
  /\ returned' = FALSE /\ To(p, "load")
  /\ n' = [n EXCEPT ![p] = 0]
  /\ UNCHANGED <<ring, batch, h, t, policy>>

\* CompareAndSwapPointer(&b.returned, b.policyBuffers, nil).  If somebody
\* already got the batch, the ring stays as it is: full.
Take(p) ==
  /\ At(p, "take")
  /\ IF returned THEN returned' = FALSE /\ To(p, "load")
                 ELSE To(p, "idle") /\ UNCHANGED returned
  /\ n' = [n EXCEPT ![p] = 0]
  /\ UNCHANGED <<ring, batch, h, t, policy>>

Index(p) == (h[p] + n[p]) % Capacity
NextSlot(p) == /\ n' = [n EXCEPT ![p] = @ + 1]
               /\ To(p, IF n[p] + 1 = Capacity THEN "storeHead" ELSE "load")

\* A turn of the loop: what has been published goes to the batch, what has
\* not is passed over.
Load(p) ==
  /\ At(p, "load")
  /\ IF buffer[Index(p)] # None
       THEN /\ batch' = Append(batch, buffer[Index(p)])
            /\ To(p, "clear") /\ UNCHANGED n
       ELSE NextSlot(p) /\ UNCHANGED batch
  /\ UNCHANGED <<ring, returned, h, t, policy>>

\* Seeded fault: what has gone to the batch also stays in the ring.
ClearSlotLess(p) ==
  /\ At(p, "clear")
  /\ NextSlot(p)
  /\ UNCHANGED <<ring, returned, batch, h, t, policy>>

\* atomic.StorePointer(&b.buffer[index], nil).
ClearSlot(p) ==
  /\ At(p, "clear")
  /\ buffer' = [buffer EXCEPT ![Index(p)] = None]
  /\ NextSlot(p)
  /\ UNCHANGED <<head, tail, returned, batch, h, t, policy>>

StoreHead(p) ==
  /\ At(p, "storeHead")
  /\ head' = h[p] + Capacity
  /\ To(p, "drainRead")
  /\ UNCHANGED <<tail, buffer, returned, batch, local, policy>>

\* drainRead under policyMu.  It may have to wait long for the lock, and
\* entries removed in the meantime are passed over.
DrainRead(p) ==
  /\ At(p, "drainRead")
  /\ policy' = policy \o batch
  /\ To(p, "free")
  /\ UNCHANGED <<ring, returned, batch, local>>

\* Free: the batch is emptied, and then offered again.
Free(p) ==
  /\ At(p, "free")
  /\ batch' = << >>
  /\ To(p, "return")
  /\ UNCHANGED <<ring, returned, local, policy>>

Return(p) ==
  /\ At(p, "return")
  /\ returned' = TRUE
  /\ To(p, "idle")
  /\ UNCHANGED <<ring, batch, local, policy>>

Add(p) == \/ LoadTail(p) \/ SwapTail(p) \/ Publish(p) \/ Take(p) \/ Load(p)
          \/ ClearSlot(p) \/ StoreHead(p)

Step(p) == Add(p) \/ DrainRead(p) \/ Free(p) \/ Return(p)

Next == \E p \in Proc : LoadHead(p) \/ Step(p)

Spec == Init /\ [][Next]_vars

\* A Get that has begun goes on, and Gets keep coming.
FairSpec == Spec /\ \A p \in Proc : WF_vars(LoadHead(p) \/ Step(p))

-----------------------------------------------------------------------------
Owner == {"load", "clear", "storeHead", "drainRead", "free", "return"}

TypeOK ==
  /\ head \in Nat /\ tail \in 0..MaxTail
  /\ buffer \in [Slot -> Item \cup {None}]
  /\ returned \in BOOLEAN
  /\ batch \in Seq(Item) /\ Len(batch) <= Capacity
  /\ pc \in [Proc -> Owner \cup {"idle", "loadTail", "swapTail", "publish", "take"}]
  /\ h \in [Proc -> Nat] /\ t \in [Proc -> Nat] /\ n \in [Proc -> 0..Capacity]
  /\ policy \in Seq(Item)

\* One Get at a time has the batch, from the swap of returned in Add until
\* Free stores it back, and whoever takes it next finds it empty.
OneOwner ==
  /\ \A p, q \in Proc : pc[p] \in Owner /\ pc[q] \in Owner => p = q
  /\ returned => batch = << >> /\ \A p \in Proc : pc[p] \notin Owner

\* The Get that empties the ring works on the range that head and tail
\* delimit, though it read them long before: nobody is given a place in the
\* ring, or moves head, while it is emptied.
RangeStable ==
  /\ tail - head \in 0..Capacity
  /\ \A p \in Proc : pc[p] \in {"take", "load", "clear", "storeHead"} =>
       h[p] = head /\ tail = head + Capacity

\* An access reaches the policy at most once.  A Get that is slow to publish
\* may find its place in the ring already passed over, emptied or given to a
\* later one; its item is then late or lost, never doubled.
AtMostOnce ==
  /\ IsInjective(policy)
  /\ \A i \in Slot : buffer[i] \notin ToSet(policy)

\* A full ring is emptied again.
FullDrained == tail - head = Capacity ~> tail - head < Capacity
=============================================================================
