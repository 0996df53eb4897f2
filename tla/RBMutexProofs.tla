--------------------------- MODULE RBMutexProofs ---------------------------
(***************************************************************************)
(* Mutual exclusion of RBMutex for any finite set of threads and any set   *)
(* of slots, and that it implements RWLock.                                *)
(***************************************************************************)
EXTENDS RBMutex, FiniteSetTheorems, TLAPS

\* The threads a slot counts.
InSlot(s) ==
  {t \in Thread : pc[t] \in {"recheck", "undo", "fastread"} /\ slot[t] = s}

\* The slots count the readers that went through them.
SlotsCount == \A s \in Slot : rslots[s] = Cardinality(InSlot(s))

HasSlot == \A t \in Thread :
  pc[t] \in {"recheck", "undo", "fastread"} => slot[t] \in Slot

WriterHoldsRW == \A t \in Thread :
  pc[t] \in {"announced", "scan", "writing", "rollback"} <=> rwWriter = t

ReadersHoldRW == \A t \in Thread :
  t \in rwReaders <=> pc[t] \in {"bias", "slowread"}

WriterAlone == \A t \in Thread :
  pc[t] \in {"scan", "writing", "rollback"} => rwReaders = {}

BiasOff == \A t \in Thread : pc[t] \in {"scan", "writing"} => rbias = 0

ScanFresh == (\A t \in Thread : pc[t] # "scan") => scanned = {}

\* Without the bias, a reader that is in by the fast path is one that a writer
\* has not reached yet in its scan.
FastOnlyBeforeScan == rbias = 0 =>
  \A t \in Thread : pc[t] = "fastread" =>
    \E w \in Thread : pc[w] = "scan" /\ slot[t] \notin scanned

Inv == /\ TypeOK /\ SlotsCount /\ HasSlot /\ WriterHoldsRW /\ ReadersHoldRW
       /\ WriterAlone /\ BiasOff /\ ScanFresh /\ FastOnlyBeforeScan
-----------------------------------------------------------------------------
\* Finitely many threads, so a slot's count is a natural number, and zero only
\* if no thread is in the slot.
LEMMA InSlotFinite ==
  \A s : /\ IsFiniteSet(InSlot(s)) /\ Cardinality(InSlot(s)) \in Nat
         /\ Cardinality(InSlot(s)) = 0 => InSlot(s) = {}
<1>1. TAKE s
<1>2. InSlot(s) \in SUBSET Thread
  BY DEF InSlot
<1>3. IsFiniteSet(InSlot(s))
  BY <1>2, FS_Subset, ThreadAssumption
<1> QED
  BY <1>3, FS_CardinalityType, FS_EmptySet

\* The two steps that change a slot's count: a thread enters, a thread leaves.
LEMMA EnterSlot ==
  ASSUME NEW t \in Thread, FastAdd(t), Inv
  PROVE  SlotsCount'
<1> USE DEF Inv, TypeOK, SlotsCount, InSlot
<1>1. PICK z \in Slot : /\ rslots' = [rslots EXCEPT ![z] = @ + 1]
                        /\ slot' = [slot EXCEPT ![t] = z]
  BY DEF FastAdd
<1>2. pc' = [pc EXCEPT ![t] = "recheck"] /\ pc[t] = "fast"
  BY DEF FastAdd, Goto
<1>3. SUFFICES ASSUME NEW s \in Slot
               PROVE  rslots'[s] = Cardinality(InSlot(s)')
  OBVIOUS
<1>4. CASE s = z
  <2>1. InSlot(s)' = InSlot(s) \cup {t}
    BY <1>1, <1>2, <1>4
  <2>2. t \notin InSlot(s)
    BY <1>2
  <2> HIDE DEF InSlot, Inv
  <2>3. Cardinality(InSlot(s)') = Cardinality(InSlot(s)) + 1
    BY <2>1, <2>2, InSlotFinite, FS_AddElement
  <2> QED
    BY <1>1, <1>4, <2>3 DEF Inv
<1>5. CASE s # z
  <2>1. InSlot(s)' = InSlot(s)
    BY <1>1, <1>2, <1>5
  <2> QED
    BY <1>1, <1>5, <2>1
<1> QED
  BY <1>4, <1>5

LEMMA ExitSlot ==
  ASSUME NEW t \in Thread, LeaveSlot(t), Inv, NEW l,
         pc[t] \in {"undo", "fastread"}, Goto(t, l), l \in {"slow", "idle"}
  PROVE  SlotsCount' /\ rslots' \in [Slot -> Nat]
<1> USE DEF Inv, TypeOK, SlotsCount, InSlot
<1>1. /\ rslots' = [rslots EXCEPT ![slot[t]] = @ - 1]
      /\ slot' = [slot EXCEPT ![t] = NoSlot]
      /\ pc' = [pc EXCEPT ![t] = l]
      /\ slot[t] \in Slot
  BY DEF LeaveSlot, Goto, HasSlot
<1>2. SUFFICES ASSUME NEW s \in Slot
               PROVE  rslots'[s] = Cardinality(InSlot(s)') /\ rslots'[s] \in Nat
  BY <1>1
<1>3. CASE s = slot[t]
  <2>1. InSlot(s)' = InSlot(s) \ {t}
    BY <1>1, <1>3
  <2>2. t \in InSlot(s)
    BY <1>3
  <2> HIDE DEF InSlot, Inv
  <2>3. Cardinality(InSlot(s)') = Cardinality(InSlot(s)) - 1
    BY <2>1, <2>2, InSlotFinite, FS_RemoveElement
  <2>4. Cardinality(InSlot(s)) # 0
    BY <2>2, InSlotFinite
  <2> QED
    BY <1>1, <1>3, <2>3, <2>4, InSlotFinite DEF Inv
<1>4. CASE s # slot[t]
  <2>1. InSlot(s)' = InSlot(s)
    BY <1>1, <1>4
  <2> QED
    BY <1>1, <1>4, <2>1
<1> QED
  BY <1>3, <1>4

\* Every other step leaves the slots and the threads they count alone.
LEMMA SameSlots ==
  ASSUME NEW t \in Thread, NEW l, Inv, Goto(t, l),
         UNCHANGED <<rslots, slot>>,
         (pc[t] \in {"recheck", "undo", "fastread"})
           <=> (l \in {"recheck", "undo", "fastread"})
  PROVE  SlotsCount'
<1> USE DEF Inv, TypeOK, SlotsCount, InSlot
<1>1. pc' = [pc EXCEPT ![t] = l]
  BY DEF Goto
<1>2. \A s \in Slot : InSlot(s)' = InSlot(s)
  BY <1>1
<1> QED
  BY <1>2

LEMMA InitInv == Init => Inv
<1> SUFFICES ASSUME Init PROVE Inv
  OBVIOUS
<1>1. \A s \in Slot : InSlot(s) = {}
  BY DEF Init, InSlot
<1>2. SlotsCount
  BY <1>1, FS_EmptySet DEF Init, SlotsCount
<1> QED
  BY <1>2, ThreadAssumption
  DEF Init, Inv, TypeOK, HasSlot, WriterHoldsRW, ReadersHoldRW, WriterAlone,
      BiasOff, ScanFresh, FastOnlyBeforeScan

\* Every step of a thread preserves the invariant.
LEMMA NextInv == Inv /\ [Next]_vars => Inv'
<1> SUFFICES ASSUME Inv, [Next]_vars PROVE Inv'
  OBVIOUS
<1> DEFINE Rest == /\ TypeOK /\ HasSlot /\ WriterHoldsRW /\ ReadersHoldRW
                   /\ WriterAlone /\ BiasOff /\ ScanFresh /\ FastOnlyBeforeScan
<1>R. Rest
  BY DEF Inv
<1> SUFFICES SlotsCount' /\ Rest'
  BY DEF Inv
<1> USE DEF TypeOK, HasSlot, WriterHoldsRW, ReadersHoldRW, WriterAlone,
            BiasOff, ScanFresh, FastOnlyBeforeScan
<1>S. CASE UNCHANGED vars
  <2>1. \A s \in Slot : InSlot(s)' = InSlot(s)
    BY <1>S DEF vars, InSlot
  <2>2. SlotsCount'
    BY <1>S, <2>1 DEF vars, Inv, SlotsCount
  <2> QED
    BY <1>S, <1>R, <2>2 DEF vars
<1>N. CASE Next
  <2> PICK t \in Thread : Reader(t) \/ Writer(t)
    BY <1>N DEF Next
  <2>1. CASE RLock(t)
    <3>1. SlotsCount'
      BY <2>1, SameSlots DEF RLock, Goto
    <3>2. Rest'
      BY <2>1, <1>R, ThreadAssumption DEF RLock, Goto
    <3> QED
      BY <3>1, <3>2
  <2>2. CASE FastAdd(t)
    <3>1. SlotsCount'
      BY <2>2, EnterSlot
    <3>2. Rest'
      BY <2>2, <1>R, ThreadAssumption DEF FastAdd, Goto
    <3> QED
      BY <3>1, <3>2
  <2>3. CASE FastContended(t)
    <3>1. SlotsCount'
      BY <2>3, SameSlots DEF FastContended, Goto
    <3>2. Rest'
      BY <2>3, <1>R, ThreadAssumption DEF FastContended, Goto
    <3> QED
      BY <3>1, <3>2
  <2>4. CASE FastCheck(t)
    <3>1. SlotsCount'
      BY <2>4, SameSlots DEF FastCheck, Goto
    <3>2. Rest'
      BY <2>4, <1>R, ThreadAssumption DEF FastCheck, Goto
    <3> QED
      BY <3>1, <3>2
  <2>5. CASE FastUndo(t)
    <3>1. SlotsCount' /\ rslots' \in [Slot -> Nat]
      BY <2>5, ExitSlot DEF FastUndo
    <3>2. Rest'
      BY <2>5, <1>R, <3>1, ThreadAssumption DEF FastUndo, LeaveSlot, Goto
    <3> QED
      BY <3>1, <3>2
  <2>6. CASE SlowAdd(t)
    <3>1. SlotsCount'
      BY <2>6, SameSlots DEF SlowAdd, Goto
    <3>2. Rest'
      BY <2>6, <1>R, ThreadAssumption DEF SlowAdd, Goto
    <3> QED
      BY <3>1, <3>2
  <2>7. CASE SlowFail(t)
    <3>1. SlotsCount'
      BY <2>7, SameSlots DEF SlowFail, Goto
    <3>2. Rest'
      BY <2>7, <1>R, ThreadAssumption DEF SlowFail, Goto
    <3> QED
      BY <3>1, <3>2
  <2>8. CASE SlowBias(t)
    <3>1. SlotsCount'
      BY <2>8, SameSlots DEF SlowBias, Goto
    <3>2. \A w \in Thread : pc[w] \notin {"scan", "writing"}
      BY <2>8, <1>R DEF SlowBias
    <3>3. Rest'
      BY <2>8, <1>R, <3>2, ThreadAssumption DEF SlowBias, Goto
    <3> QED
      BY <3>1, <3>3
  <2>9. CASE RUnlock(t)
    <3>1. CASE pc[t] = "fastread" /\ LeaveSlot(t) /\ UNCHANGED rwReaders
      <4>1. SlotsCount' /\ rslots' \in [Slot -> Nat]
        BY <2>9, <3>1, ExitSlot DEF RUnlock
      <4>2. Rest'
        BY <2>9, <3>1, <1>R, <4>1, ThreadAssumption DEF RUnlock, LeaveSlot, Goto
      <4> QED
        BY <4>1, <4>2
    <3>2. CASE /\ pc[t] = "slowread"
               /\ rwReaders' = rwReaders \ {t} /\ UNCHANGED <<rslots, slot>>
      <4>1. SlotsCount'
        BY <2>9, <3>2, SameSlots DEF RUnlock, Goto
      <4>2. Rest'
        BY <2>9, <3>2, <1>R, ThreadAssumption DEF RUnlock, Goto
      <4> QED
        BY <4>1, <4>2
    <3> QED
      BY <2>9, <3>1, <3>2 DEF RUnlock
  <2>10. CASE Lock(t)
    <3>1. SlotsCount'
      BY <2>10, SameSlots DEF Lock, Goto
    <3>2. Rest'
      BY <2>10, <1>R, ThreadAssumption DEF Lock, Goto
    <3> QED
      BY <3>1, <3>2
  <2>11. CASE Acquire(t)
    <3>1. SlotsCount'
      BY <2>11, SameSlots DEF Acquire, Goto
    <3>2. \A w \in Thread : pc[w] # "scan"
      BY <2>11, <1>R DEF Acquire
    <3>3. rbias = 0 => \A r \in Thread : pc[r] # "fastread"
      BY <3>2, <1>R
    <3>4. Rest'
      BY <2>11, <1>R, <3>2, <3>3, ThreadAssumption DEF Acquire, Goto
    <3> QED
      BY <3>1, <3>4
  <2>12. CASE Scan(t)
    <3>1. PICK s \in Slot \ scanned : rslots[s] = 0 /\ scanned' = scanned \cup {s}
      BY <2>12 DEF Scan
    <3>2. InSlot(s) = {}
      BY <3>1, InSlotFinite DEF Inv, SlotsCount
    <3>3. \A r \in Thread : pc[r] = "fastread" => slot[r] # s
      BY <3>2 DEF InSlot
    <3>4. \A z \in Slot : InSlot(z)' = InSlot(z)
      BY <2>12 DEF Scan, InSlot
    <3>5. SlotsCount'
      BY <2>12, <3>4 DEF Scan, Inv, SlotsCount
    <3>6. Rest'
      BY <2>12, <1>R, <3>1, <3>3 DEF Scan
    <3> QED
      BY <3>5, <3>6
  <2>13. CASE ScanDone(t)
    <3>1. SlotsCount'
      BY <2>13, SameSlots DEF ScanDone, Goto
    <3>2. \A r \in Thread : pc[r] # "fastread"
      BY <2>13, <1>R DEF ScanDone
    <3>3. Rest'
      BY <2>13, <1>R, <3>2, ThreadAssumption DEF ScanDone, Goto
    <3> QED
      BY <3>1, <3>3
  <2>14. CASE ScanFail(t)
    <3>1. SlotsCount'
      BY <2>14, SameSlots DEF ScanFail, Goto
    <3>2. Rest'
      BY <2>14, <1>R, ThreadAssumption DEF ScanFail, Goto
    <3> QED
      BY <3>1, <3>2
  <2>15. CASE Unlock(t)
    <3>1. SlotsCount'
      BY <2>15, SameSlots DEF Unlock, Goto
    <3>2. Rest'
      BY <2>15, <1>R, ThreadAssumption DEF Unlock, Goto
    <3> QED
      BY <3>1, <3>2
  <2> QED
    BY <2>1, <2>2, <2>3, <2>4, <2>5, <2>6, <2>7, <2>8, <2>9, <2>10, <2>11,
       <2>12, <2>13, <2>14, <2>15 DEF Reader, Writer
<1> QED
  BY <1>S, <1>N

\* The invariant excludes a reader and a writer, and two writers.
LEMMA InvExclusion == Inv => Exclusion
BY DEF Inv, TypeOK, WriterHoldsRW, ReadersHoldRW, WriterAlone, BiasOff,
       FastOnlyBeforeScan, Exclusion, Reading, Writing

LEMMA InvHolds == Spec => []Inv
BY InitInv, NextInv, PTL DEF Spec

\* Mutual exclusion of readers and writers, on the fast path and on the slow
\* one, for any finite number of threads and any slots.
THEOREM MutualExclusion == Spec => []Exclusion
BY InvHolds, InvExclusion, PTL
-----------------------------------------------------------------------------
\* What the users of the mutex see does not change unless a thread starts or
\* stops reading or writing.
LEMMA Invisible ==
  ASSUME NEW t \in Thread, NEW l, Inv, Inv', Goto(t, l),
         pc[t] \notin {"fastread", "slowread", "writing"},
         l \notin {"fastread", "slowread", "writing"}
  PROVE  UNCHANGED <<Reading, Holder>>
<1>1. pc' = [pc EXCEPT ![t] = l] /\ pc = [w \in Thread |-> pc[w]]
  BY DEF Goto, Inv, TypeOK
<1>2. Reading' = Reading
  BY <1>1 DEF Reading
<1>3. \A w \in Thread : pc[w] = "writing" <=> pc'[w] = "writing"
  BY <1>1
<1>4. Holder' = Holder
  BY <1>3 DEF Holder, Inv, WriterHoldsRW
<1> QED
  BY <1>2, <1>4

LEMMA StepRefines ==
  Inv /\ Inv' /\ [Next]_vars => [Abstract!Next]_<<Reading, Holder>>
<1> SUFFICES ASSUME Inv, Inv', [Next]_vars
             PROVE  Abstract!Next \/ UNCHANGED <<Reading, Holder>>
  OBVIOUS
<1>X. Exclusion /\ Exclusion'
  <2>1. Exclusion
    BY InvExclusion
  <2>2. Exclusion'
    BY Inv' DEF Inv, TypeOK, WriterHoldsRW, ReadersHoldRW, WriterAlone,
       BiasOff, FastOnlyBeforeScan, Exclusion, Reading, Writing
  <2> QED
    BY <2>1, <2>2
<1>T. pc = [w \in Thread |-> pc[w]]
  BY DEF Inv, TypeOK
<1>S. CASE UNCHANGED vars
  BY <1>S DEF vars, Reading, Holder
<1>N. CASE Next
  <2> PICK t \in Thread : Reader(t) \/ Writer(t)
    BY <1>N DEF Next
  <2>1. CASE RLock(t)
    BY <2>1, Invisible DEF RLock
  <2>2. CASE FastAdd(t)
    BY <2>2, Invisible DEF FastAdd
  <2>3. CASE FastContended(t)
    BY <2>3, Invisible DEF FastContended
  <2>4. CASE FastCheck(t)
    <3>1. CASE rbias = 1
      <4>1. \A w \in Thread : pc[w] # "writing"
        BY <3>1 DEF Inv, BiasOff
      <4>2. pc' = [pc EXCEPT ![t] = "fastread"] /\ pc[t] = "recheck"
        BY <2>4, <3>1 DEF FastCheck, Goto
      <4>3. Reading' = Reading \cup {t} /\ t \notin Reading
        BY <4>2, <1>T DEF Reading
      <4>4. Holder = NoThread /\ Holder' = NoThread
        BY <4>1, <4>2, <1>T DEF Holder
      <4> QED
        BY <4>3, <4>4 DEF Abstract!Next, Abstract!RLock
    <3>2. CASE rbias # 1
      BY <2>4, <3>2, Invisible DEF FastCheck
    <3> QED
      BY <3>1, <3>2
  <2>5. CASE FastUndo(t)
    BY <2>5, Invisible DEF FastUndo
  <2>6. CASE SlowAdd(t)
    BY <2>6, Invisible DEF SlowAdd
  <2>7. CASE SlowFail(t)
    BY <2>7, Invisible DEF SlowFail
  <2>8. CASE SlowBias(t)
    <3>1. \A w \in Thread : pc[w] # "writing"
      BY <2>8 DEF SlowBias, Inv, ReadersHoldRW, WriterAlone
    <3>2. pc' = [pc EXCEPT ![t] = "slowread"] /\ pc[t] = "bias"
      BY <2>8 DEF SlowBias, Goto
    <3>3. Reading' = Reading \cup {t} /\ t \notin Reading
      BY <3>2, <1>T DEF Reading
    <3>4. Holder = NoThread /\ Holder' = NoThread
      BY <3>1, <3>2, <1>T DEF Holder
    <3> QED
      BY <3>3, <3>4 DEF Abstract!Next, Abstract!RLock
  <2>9. CASE RUnlock(t)
    <3>1. pc' = [pc EXCEPT ![t] = "idle"] /\ pc[t] \in {"fastread", "slowread"}
      BY <2>9 DEF RUnlock, Goto
    <3>2. Reading' = Reading \ {t} /\ t \in Reading
      BY <3>1, <1>T DEF Reading
    <3>3. \A w \in Thread : pc[w] # "writing"
      BY <3>2, <1>X DEF Exclusion, Writing
    <3>4. Holder = NoThread /\ Holder' = NoThread
      BY <3>1, <3>3, <1>T DEF Holder
    <3> QED
      BY <3>2, <3>4 DEF Abstract!Next, Abstract!RUnlock
  <2>10. CASE Lock(t)
    BY <2>10, Invisible DEF Lock
  <2>G. ASSUME pc[t] \in {"announced", "scan"}, pc' = [pc EXCEPT ![t] = "writing"]
        PROVE  Abstract!Next
    <3>1. Reading' = Reading /\ Reading' = {}
      BY <2>G, <1>T, <1>X DEF Reading, Exclusion, Writing
    <3>2. rwWriter = t /\ rwWriter' = t /\ pc'[t] = "writing"
      BY <2>G, <1>T DEF Inv, WriterHoldsRW
    <3>3. Holder = NoThread /\ Holder' = t
      BY <2>G, <3>2, <1>T DEF Holder
    <3> QED
      BY <3>1, <3>3 DEF Abstract!Next, Abstract!Lock
  <2>11. CASE Acquire(t)
    <3>1. CASE rbias = 1
      BY <2>11, <3>1, Invisible DEF Acquire
    <3>2. CASE rbias # 1
      BY <2>11, <3>2, <2>G DEF Acquire, Goto
    <3> QED
      BY <3>1, <3>2
  <2>12. CASE Scan(t)
    BY <2>12 DEF Scan, Reading, Holder
  <2>13. CASE ScanDone(t)
    BY <2>13, <2>G DEF ScanDone, Goto
  <2>14. CASE ScanFail(t)
    BY <2>14, Invisible DEF ScanFail
  <2>15. CASE Unlock(t)
    <3>1. CASE pc[t] = "rollback"
      BY <2>15, <3>1, Invisible DEF Unlock
    <3>2. CASE pc[t] = "writing"
      <4>1. /\ pc' = [pc EXCEPT ![t] = "idle"]
            /\ rwWriter = t /\ rwWriter' = NoThread
        BY <2>15, <3>2 DEF Unlock, Goto, Inv, WriterHoldsRW
      <4>2. Reading' = Reading
        BY <3>2, <4>1, <1>T DEF Reading
      <4>3. Holder = t /\ Holder' = NoThread
        BY <3>2, <4>1, ThreadAssumption DEF Holder
      <4> QED
        BY <4>2, <4>3 DEF Abstract!Next, Abstract!Unlock
    <3> QED
      BY <2>15, <3>1, <3>2 DEF Unlock
  <2> QED
    BY <2>1, <2>2, <2>3, <2>4, <2>5, <2>6, <2>7, <2>8, <2>9, <2>10, <2>11,
       <2>12, <2>13, <2>14, <2>15 DEF Reader, Writer
<1> QED
  BY <1>S, <1>N

\* To its users RBMutex is RWLock: the fast path, the slow path, the bias and
\* the scan are invisible.
THEOREM Refinement == Spec => ImplementsRWLock
<1>1. Init => Abstract!Init
  BY ThreadAssumption DEF Init, Abstract!Init, Reading, Holder
<1>2. Inv /\ Inv' /\ [Next]_vars => [Abstract!Next]_<<Reading, Holder>>
  BY StepRefines
<1> QED
  BY <1>1, <1>2, InvHolds, PTL DEF Spec, ImplementsRWLock, Abstract!Spec
=============================================================================
