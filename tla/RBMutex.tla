------------------------------ MODULE RBMutex ------------------------------
(***************************************************************************)
(* The reader biased mutex of internal/rbmutex.go that guards each shard.  *)
(* A reader of a biased mutex only increments one of the rslots; a writer  *)
(* first takes the sync.RWMutex rw, then clears the bias and waits for     *)
(* every slot to drain.                                                    *)
(*                                                                         *)
(* One action per atomic operation, apart from the load and the compare-   *)
(* and-swap of a slot: the swap adds one, or fails on every slot because   *)
(* of contention and the reader goes the slow way.  Whether time.Now() is  *)
(* after inhibitUntil is left open.  sync.RWMutex is external: Lock        *)
(* announces itself, which keeps new readers out, and then waits for the   *)
(* readers to leave.                                                       *)
(***************************************************************************)
EXTENDS Naturals, FiniteSets

CONSTANTS Thread, Slot, NoThread, NoSlot

ASSUME ThreadAssumption == IsFiniteSet(Thread) /\ NoThread \notin Thread
ASSUME SlotAssumption   == NoSlot \notin Slot

VARIABLES
  rslots,     \* the reader count of each slot
  rbias,      \* 1 while readers may use the slots
  rwWriter,   \* rw: the writer that announced itself
  rwReaders,  \* rw: the threads that hold it for reading
  pc, slot,   \* of a thread: where it is, the slot of its reader token
  scanned,    \* the slots the writer has found empty
  try         \* whether a thread is in TryLock or TryRLock

vars == <<rslots, rbias, rwWriter, rwReaders, pc, slot, scanned, try>>

Init ==
  /\ rslots = [s \in Slot |-> 0]
  /\ rbias = 1
  /\ rwWriter = NoThread /\ rwReaders = {}
  /\ pc = [t \in Thread |-> "idle"]
  /\ slot = [t \in Thread |-> NoSlot]
  /\ scanned = {}
  /\ try = [t \in Thread |-> FALSE]

Goto(t, l) == pc' = [pc EXCEPT ![t] = l]

-----------------------------------------------------------------------------
(* Readers: RLock, TryRLock, RUnlock.                                      *)

\* Seeded fault: fastRlock goes for a slot whatever the bias.
RLockUnchecked(t) ==
  /\ pc[t] = "idle"
  /\ Goto(t, "fast")
  /\ \E b \in BOOLEAN : try' = [try EXCEPT ![t] = b]
  /\ UNCHANGED <<rslots, rbias, rwWriter, rwReaders, slot, scanned>>

\* Entry of RLock and TryRLock: fastRlock's first look at the bias.
RLock(t) ==
  /\ pc[t] = "idle"
  /\ Goto(t, IF rbias = 1 THEN "fast" ELSE "slow")
  /\ \E b \in BOOLEAN : try' = [try EXCEPT ![t] = b]
  /\ UNCHANGED <<rslots, rbias, rwWriter, rwReaders, slot, scanned>>

FastAdd(t) ==
  /\ pc[t] = "fast"
  /\ \E s \in Slot : /\ rslots' = [rslots EXCEPT ![s] = @ + 1]
                     /\ slot' = [slot EXCEPT ![t] = s]
  /\ Goto(t, "recheck")
  /\ UNCHANGED <<rbias, rwWriter, rwReaders, scanned, try>>

FastContended(t) ==
  /\ pc[t] = "fast"
  /\ Goto(t, "slow")
  /\ UNCHANGED <<rslots, rbias, rwWriter, rwReaders, slot, scanned, try>>

\* Seeded fault: the reader does not look at the bias again.
FastCheckBlind(t) ==
  /\ pc[t] = "recheck"
  /\ Goto(t, "fastread")
  /\ UNCHANGED <<rslots, rbias, rwWriter, rwReaders, slot, scanned, try>>

\* The second look at the bias, once the slot counts this reader.
FastCheck(t) ==
  /\ pc[t] = "recheck"
  /\ Goto(t, IF rbias = 1 THEN "fastread" ELSE "undo")
  /\ UNCHANGED <<rslots, rbias, rwWriter, rwReaders, slot, scanned, try>>

LeaveSlot(t) ==
  /\ rslots' = [rslots EXCEPT ![slot[t]] = @ - 1]
  /\ slot' = [slot EXCEPT ![t] = NoSlot]

FastUndo(t) ==
  /\ pc[t] = "undo"
  /\ LeaveSlot(t)
  /\ Goto(t, "slow")
  /\ UNCHANGED <<rbias, rwWriter, rwReaders, scanned, try>>

\* rw.RLock() or a successful rw.TryRLock().
SlowAdd(t) ==
  /\ pc[t] = "slow" /\ rwWriter = NoThread
  /\ rwReaders' = rwReaders \cup {t}
  /\ Goto(t, "bias")
  /\ UNCHANGED <<rslots, rbias, rwWriter, slot, scanned, try>>

SlowFail(t) ==
  /\ pc[t] = "slow" /\ try[t] /\ rwWriter # NoThread
  /\ Goto(t, "idle")
  /\ try' = [try EXCEPT ![t] = FALSE]
  /\ UNCHANGED <<rslots, rbias, rwWriter, rwReaders, slot, scanned>>

\* The bias is restored when the inhibition has run out.
SlowBias(t) ==
  /\ pc[t] = "bias"
  /\ rbias' \in {rbias, 1}
  /\ Goto(t, "slowread")
  /\ UNCHANGED <<rslots, rwWriter, rwReaders, slot, scanned, try>>

RUnlock(t) ==
  /\ \/ pc[t] = "fastread" /\ LeaveSlot(t) /\ UNCHANGED rwReaders
     \/ /\ pc[t] = "slowread"
        /\ rwReaders' = rwReaders \ {t} /\ UNCHANGED <<rslots, slot>>
  /\ Goto(t, "idle")
  /\ try' = [try EXCEPT ![t] = FALSE]
  /\ UNCHANGED <<rbias, rwWriter, scanned>>

-----------------------------------------------------------------------------
(* Writers: Lock, TryLock, Unlock.                                         *)

\* rw.Lock() announces the writer; rw.TryLock() only if there are no readers.
Lock(t) ==
  /\ pc[t] = "idle" /\ rwWriter = NoThread
  /\ \E b \in BOOLEAN : /\ b => rwReaders = {}
                        /\ try' = [try EXCEPT ![t] = b]
  /\ rwWriter' = t
  /\ Goto(t, "announced")
  /\ UNCHANGED <<rslots, rbias, rwReaders, slot, scanned>>

\* rw is acquired; a biased mutex has its bias cleared and its slots scanned.
Acquire(t) ==
  /\ pc[t] = "announced" /\ rwReaders = {}
  /\ rbias' = 0
  /\ Goto(t, IF rbias = 1 THEN "scan" ELSE "writing")
  /\ UNCHANGED <<rslots, rwWriter, rwReaders, slot, scanned, try>>

\* The code scans the slots in order; here in any order.
Scan(t) ==
  /\ pc[t] = "scan"
  /\ \E s \in Slot \ scanned : rslots[s] = 0 /\ scanned' = scanned \cup {s}
  /\ UNCHANGED <<rslots, rbias, rwWriter, rwReaders, pc, slot, try>>

ScanDone(t) ==
  /\ pc[t] = "scan" /\ scanned = Slot
  /\ scanned' = {}
  /\ Goto(t, "writing")
  /\ UNCHANGED <<rslots, rbias, rwWriter, rwReaders, slot, try>>

\* Seeded fault: TryLock gives up without restoring the bias.
ScanFailUnbiased(t) ==
  /\ pc[t] = "scan" /\ try[t] /\ \E s \in Slot \ scanned : rslots[s] > 0
  /\ scanned' = {}
  /\ Goto(t, "rollback")
  /\ UNCHANGED <<rslots, rbias, rwWriter, rwReaders, slot, try>>

\* TryLock meets a reader and gives up: it restores the bias, then rw.Unlock().
ScanFail(t) ==
  /\ pc[t] = "scan" /\ try[t] /\ \E s \in Slot \ scanned : rslots[s] > 0
  /\ rbias' = 1 /\ scanned' = {}
  /\ Goto(t, "rollback")
  /\ UNCHANGED <<rslots, rwWriter, rwReaders, slot, try>>

\* Seeded fault: TryLock gives up without rw.Unlock().
UnlockKeepsRW(t) ==
  /\ pc[t] \in {"writing", "rollback"}
  /\ rwWriter' = IF pc[t] = "writing" THEN NoThread ELSE rwWriter
  /\ Goto(t, "idle")
  /\ try' = [try EXCEPT ![t] = FALSE]
  /\ UNCHANGED <<rslots, rbias, rwReaders, slot, scanned>>

Unlock(t) ==
  /\ pc[t] \in {"writing", "rollback"}
  /\ rwWriter' = NoThread
  /\ Goto(t, "idle")
  /\ try' = [try EXCEPT ![t] = FALSE]
  /\ UNCHANGED <<rslots, rbias, rwReaders, slot, scanned>>

-----------------------------------------------------------------------------
Reader(t) == RLock(t) \/ FastAdd(t) \/ FastContended(t) \/ FastCheck(t)
               \/ FastUndo(t) \/ SlowAdd(t) \/ SlowFail(t) \/ SlowBias(t)
               \/ RUnlock(t)

Writer(t) == Lock(t) \/ Acquire(t) \/ Scan(t) \/ ScanDone(t) \/ ScanFail(t)
               \/ Unlock(t)

Next == \E t \in Thread : Reader(t) \/ Writer(t)

Spec == Init /\ [][Next]_vars

\* A thread that holds the mutex or is acquiring it keeps running; a blocked
\* rw.RLock or rw.Lock is served in the end.
Fairness ==
  \A t \in Thread :
    /\ WF_vars(FastAdd(t) \/ FastCheck(t) \/ FastUndo(t) \/ SlowBias(t)
                 \/ RUnlock(t))
    /\ SF_vars(SlowAdd(t))
    /\ WF_vars(Acquire(t) \/ Scan(t) \/ ScanDone(t) \/ Unlock(t))

FairSpec == Spec /\ Fairness

-----------------------------------------------------------------------------
Reading == {t \in Thread : pc[t] \in {"fastread", "slowread"}}
Writing == {t \in Thread : pc[t] = "writing"}

TypeOK ==
  /\ rslots \in [Slot -> Nat]
  /\ rbias \in {0, 1}
  /\ rwWriter \in Thread \cup {NoThread} /\ rwReaders \subseteq Thread
  /\ pc \in [Thread -> {"idle", "fast", "recheck", "undo", "slow", "bias",
                        "fastread", "slowread", "announced", "scan",
                        "writing", "rollback"}]
  /\ slot \in [Thread -> Slot \cup {NoSlot}]
  /\ scanned \subseteq Slot
  /\ try \in [Thread -> BOOLEAN]

\* While a thread writes, no other thread reads or writes, whichever of the
\* fast and the slow path each of them took.
Exclusion ==
  \A t \in Writing : Reading = {} /\ Writing = {t}

\* The mutex is a read/write lock to those who use it: the readers of either
\* path share it, and RLock, RUnlock, Lock and Unlock are atomic to them.
Holder == IF rwWriter \in Thread /\ pc[rwWriter] = "writing" THEN rwWriter
                                                           ELSE NoThread
Abstract == INSTANCE RWLock WITH readers <- Reading, writer <- Holder
ImplementsRWLock == Abstract!Spec

\* A writer that has announced itself gets the mutex, or gives up in TryLock,
\* though readers keep coming.
WriterServed ==
  \A t \in Thread : pc[t] = "announced" ~> pc[t] \in {"writing", "rollback"}

\* A reader that finds no writer in its way is not turned away for ever.
ReaderServed ==
  \A t \in Thread : pc[t] = "slow" ~> pc[t] # "slow"
=============================================================================
