----------------------------- MODULE TimerWheel -----------------------------
(***************************************************************************)
(* The hierarchical timer wheel (internal/timerwheel.go).  An entry hangs  *)
(* in one bucket, chosen by its deadline and the time of the last advance; *)
(* advance walks the buckets the clock has passed since then, level by     *)
(* level, removes what has expired and schedules the rest anew.            *)
(*                                                                         *)
(* All of it runs under policyMu, but a Set stores an entry's deadline     *)
(* under the shard mutex only: deadlines change during an advance too, and *)
(* the UPDATE event that schedules the entry anew comes later or not at    *)
(* all.  Buckets are sets: an entry goes in at the front of a list, behind *)
(* the walk, so the walk visits what the bucket held when it got there.    *)
(***************************************************************************)
EXTENDS Integers, Sequences

CONSTANTS
  Entry,
  Buckets,    \* per level: how many, 64, 64, 32, 4 and 1 in the code
  Spans,      \* per level: the time one bucket covers, and one more at the end
  MaxTime,    \* bound: of the clock and of deadlines
  None

Levels == Len(Buckets)
Bucket == UNION {{i} \X (0..(Buckets[i] - 1)) : i \in 1..Levels}

ASSUME WheelAssumption ==
  /\ Buckets \in Seq(Nat \ {0}) /\ Levels > 0 /\ Buckets[Levels] = 1
  /\ Spans \in Seq(Nat \ {0}) /\ Len(Spans) = Levels + 1
  /\ \A i \in 1..Levels : Spans[i + 1] = Spans[i] * Buckets[i]
  /\ MaxTime \in Nat
  /\ None \notin Bucket
  /\ "idle" \notin Entry /\ "walk" \notin Entry

VARIABLES
  nanos,      \* the time of the last advance
  expire,     \* Entry.expire, 0 for none
  bucket,     \* <<level, slot>> of the list the entry is in, or None
  pc,         \* of the holder of policyMu: idle, or where advance is
  previous,   \* advance's local variables: the time before,
  level,      \*   the level,
  step,       \*   the buckets of it that have been begun,
  todo,       \*   what is left of the bucket,
  limit       \* per entry: the last tick at which it may still be in the wheel

walk == <<previous, level, step, todo>>
vars == <<nanos, expire, bucket, pc, walk, limit>>

Init ==
  /\ nanos = 0
  /\ expire = [e \in Entry |-> 0] /\ bucket = [e \in Entry |-> None]
  /\ pc = "idle" /\ previous = 0 /\ level = 1 /\ step = 0 /\ todo = {}
  /\ limit = [e \in Entry |-> 0]

Ticks(i, time) == time \div Spans[i]

\* findIndex: the first level that spans the time left, and its slot.
FindIndex(x) ==
  LET fits == {i \in 1..Levels : x - nanos < Spans[i + 1]}
  IN  IF fits = {} THEN <<Levels, 0>>
      ELSE LET i == CHOOSE i \in fits : \A j \in fits : i <= j
           IN  <<i, Ticks(i, x) % Buckets[i]>>

\* The tick of its deadline, or a full turn for one already past.
Limit(x) == IF Ticks(1, x) >= Ticks(1, nanos) THEN Ticks(1, x)
            ELSE Ticks(1, nanos) + Buckets[1] - 1

\* schedule, which takes the entry out of its old bucket first.
Place(e) ==
  /\ bucket' = [bucket EXCEPT ![e] = FindIndex(expire[e])]
  /\ limit' = [limit EXCEPT ![e] = Limit(expire[e])]

\* deschedule.
TakeOut(e) ==
  /\ bucket' = [bucket EXCEPT ![e] = None]
  /\ limit' = [limit EXCEPT ![e] = 0]

\* A Set stores a deadline, with what it has read off the clock before.
Store(e, x) ==
  /\ expire' = [expire EXCEPT ![e] = x]
  /\ UNCHANGED <<nanos, bucket, pc, walk, limit>>

\* A NEW or UPDATE event schedules the entry, the removal of the entry
\* deschedules it.
Schedule(e) ==
  /\ pc = "idle" /\ expire[e] # 0
  /\ Place(e)
  /\ UNCHANGED <<nanos, expire, pc, walk>>

Deschedule(e) ==
  /\ pc = "idle" /\ bucket[e] # None
  /\ TakeOut(e)
  /\ UNCHANGED <<nanos, expire, pc, walk>>

\* The ticker, late or on time.
Advance(now) ==
  /\ pc = "idle" /\ now > nanos
  /\ previous' = nanos /\ nanos' = now
  /\ level' = 1 /\ step' = 0 /\ todo' = {}
  /\ pc' = "walk"
  /\ UNCHANGED <<expire, bucket, limit>>

Delta == Ticks(level, nanos) - Ticks(level, previous)

\* Seeded fault: the bucket of the tick that has just begun is left out.
StepsShort == IF Delta < Buckets[level] THEN Delta ELSE Buckets[level]

Steps == IF 1 + Delta < Buckets[level] THEN 1 + Delta ELSE Buckets[level]

NextBucket ==
  /\ pc = "walk" /\ todo = {} /\ Delta > 0 /\ step < Steps
  /\ LET slot == (Ticks(level, previous) + step) % Buckets[level]
     IN  todo' = {e \in Entry : bucket[e] = <<level, slot>>}
  /\ step' = step + 1
  /\ UNCHANGED <<nanos, expire, bucket, pc, previous, level, limit>>

\* The deadline has passed: out of the wheel, and removeEntry is called.
Expire(e) ==
  /\ pc = "walk" /\ e \in todo /\ expire[e] <= nanos
  /\ TakeOut(e)
  /\ todo' = todo \ {e}
  /\ UNCHANGED <<nanos, expire, pc, previous, level, step>>

\* It has not, or has just been extended; schedule reads it a second time.
Visit(e) ==
  /\ pc = "walk" /\ e \in todo /\ expire[e] > nanos
  /\ pc' = e
  /\ UNCHANGED <<nanos, expire, bucket, walk, limit>>

Reschedule(e) ==
  /\ pc = e /\ pc' = "walk"
  /\ Place(e)
  /\ todo' = todo \ {e}
  /\ UNCHANGED <<nanos, expire, previous, level, step>>

NextLevel ==
  /\ pc = "walk" /\ todo = {} /\ Delta > 0 /\ step >= Steps
  /\ level < Levels
  /\ level' = level + 1 /\ step' = 0
  /\ UNCHANGED <<nanos, expire, bucket, pc, previous, todo, limit>>

\* No tick of this level has passed, or it was the last one.
AdvanceDone ==
  /\ pc = "walk" /\ todo = {}
  /\ Delta = 0 \/ (level = Levels /\ step >= Steps)
  /\ pc' = "idle" /\ previous' = 0 /\ level' = 1 /\ step' = 0
  /\ UNCHANGED <<nanos, expire, bucket, todo, limit>>

Walk == \/ NextBucket \/ NextLevel \/ AdvanceDone
        \/ \E e \in Entry : Expire(e) \/ Visit(e) \/ Reschedule(e)

Next ==
  \/ \E e \in Entry : \/ \E x \in 1..MaxTime : Store(e, x)
                      \/ Schedule(e) \/ Deschedule(e)
  \/ \E now \in 0..MaxTime : Advance(now)
  \/ Walk

Spec == Init /\ [][Next]_vars

-----------------------------------------------------------------------------
\* No deadline is missed: once advance is through, an entry that was in the
\* wheel with its deadline before the current tick is out of it, whatever
\* level it was scheduled on, however far the clock jumped and however its
\* deadline was changed on the way.  An entry scheduled when its deadline was
\* already past goes within one turn of the first level.
OnTime ==
  pc = "idle" =>
    \A e \in Entry : bucket[e] # None => Ticks(1, nanos) <= limit[e]
=============================================================================
