------------------------------- MODULE RWLock ------------------------------
(***************************************************************************)
(* What a shard's mutex promises the store: many readers or one writer.    *)
(***************************************************************************)
CONSTANTS Thread, NoThread

VARIABLES readers, writer

Init == readers = {} /\ writer = NoThread

RLock(t) ==
  /\ writer = NoThread /\ t \notin readers
  /\ readers' = readers \cup {t} /\ UNCHANGED writer

RUnlock(t) ==
  /\ t \in readers
  /\ readers' = readers \ {t} /\ UNCHANGED writer

Lock(t) ==
  /\ writer = NoThread /\ readers = {}
  /\ writer' = t /\ UNCHANGED readers

Unlock(t) ==
  /\ writer = t
  /\ writer' = NoThread /\ UNCHANGED readers

Next == \E t \in Thread : RLock(t) \/ RUnlock(t) \/ Lock(t) \/ Unlock(t)

Spec == Init /\ [][Next]_<<readers, writer>>
=============================================================================
