-------------------------- MODULE TimerWheelProofs --------------------------
(***************************************************************************)
(* No deadline is missed, on a wheel of any number of levels with any      *)
(* spans, however far the clock jumps between two ticks and however        *)
(* deadlines are changed during an advance.                                *)
(*                                                                         *)
(* An entry hangs in the slot of some tick T of its level, and T is still  *)
(* to come.  On the first level the tick may have begun, on the others it  *)
(* has not: an entry goes to a higher level only if its deadline is at     *)
(* least a whole tick of that level away.  When T comes, advance reaches   *)
(* the slot, because it either walks every tick since the last time or     *)
(* walks the whole turn; and when no tick of a level has passed, none of   *)
(* a higher level has.                                                     *)
(***************************************************************************)
EXTENDS TimerWheel, NaturalsInduction, WellFoundedInduction, TLAPS

\* Entry e hangs on level i, in the slot of a tick T that was still to come, or
\* had just begun, at the given time; and T comes before e's limit is over.
DueAt(e, i, time) ==
  \E T \in Nat :
    /\ bucket[e] = <<i, T % Buckets[i]>>
    /\ IF i = 1 THEN Ticks(1, time) <= T /\ T <= limit[e]
       ELSE Ticks(i, time) < T /\ Ticks(1, T * Spans[i]) <= limit[e]

\* The buckets of the level that advance has come to so far.
Visited == {<<level, (Ticks(level, previous) + j) % Buckets[level]>> : j \in 0..(step - 1)}

\* Advance will still come to the bucket of e, on level i.
Ahead(e, i) ==
  /\ pc # "idle"
  /\ i > level \/ (i = level /\ (e \in todo \/ bucket[e] \notin Visited))

\* What hangs in the wheel hangs right for the present time, or for the time
\* of the advance before while the present one has not come to it.
HangsRight ==
  \A e \in Entry : bucket[e] # None =>
    \E i \in 1..Levels : \/ DueAt(e, i, nanos)
                         \/ DueAt(e, i, previous) /\ Ahead(e, i)

Typed ==
  /\ nanos \in Nat /\ previous \in Nat /\ previous <= nanos
  /\ expire \in [Entry -> Nat] /\ limit \in [Entry -> Nat]
  /\ bucket = [e \in Entry |-> bucket[e]]
  /\ pc \in {"idle", "walk"} \cup Entry
  /\ level \in 1..Levels /\ step \in Nat

Inv == Typed /\ HangsRight

-----------------------------------------------------------------------------
(* Division.                                                               *)

LEMMA DivMod ==
  ASSUME NEW x \in Int, NEW d \in Int, d > 0
  PROVE  x = d * (x \div d) + (x % d) /\ x % d \in 0..(d - 1) /\ x \div d \in Int
<1>1. x = d * (x \div d) + (x % d)
  BY Z3
<1>2. x % d \in 0..(d - 1) /\ x \div d \in Int
  OBVIOUS
<1> QED
  BY <1>1, <1>2

LEMMA DivMono ==
  ASSUME NEW x \in Nat, NEW y \in Nat, NEW d \in Nat \ {0}, x <= y
  PROVE  x \div d <= y \div d
  OBVIOUS

LEMMA DivLess ==
  ASSUME NEW x \in Nat, NEW t \in Nat, NEW d \in Nat \ {0}
  PROVE  x \div d < t <=> x < t * d
  OBVIOUS

LEMMA DivNest ==
  ASSUME NEW x \in Nat, NEW d \in Nat \ {0}, NEW b \in Nat \ {0}
  PROVE  (x \div d) \div b = x \div (d * b)
  OBVIOUS

LEMMA ModUnique ==
  ASSUME NEW d \in Int, d > 0, NEW q \in Int, NEW r \in 0..(d - 1)
  PROVE  (d * q + r) % d = r
<1> DEFINE x == d * q + r
<1>1. x \in Int /\ d * q <= x /\ x < d * (q + 1)
  OBVIOUS
<1> HIDE DEF x
<1>2. x \div d \in Int /\ x = d * (x \div d) + (x % d) /\ x % d \in 0..(d - 1)
  BY <1>1, DivMod
<1>3. x \div d < q + 1 /\ ~(x \div d < q)
  BY <1>1, <1>2
<1>4. x \div d = q
  BY <1>2, <1>3
<1>5. x % d = x - d * q
  BY <1>1, <1>2, <1>4
<1> QED
  BY <1>5 DEF x

\* A turn of d ticks from any tick on comes to every slot.
LEMMA FullTurn ==
  ASSUME NEW a \in Nat, NEW d \in Nat \ {0}, NEW s \in 0..(d - 1)
  PROVE  \E j \in 0..(d - 1) : (a + j) % d = s
<1> DEFINE q == a \div d
           r == a % d
<1>1. a = d * q + r /\ r \in 0..(d - 1) /\ q \in Int
  BY DivMod
<1> HIDE DEF q, r
<1>2. CASE s >= r
  <2>1. s - r \in 0..(d - 1) /\ a + (s - r) = d * q + s
    BY <1>1, <1>2
  <2>2. (d * q + s) % d = s
    BY <1>1, ModUnique
  <2> QED
    BY <2>1, <2>2
<1>3. CASE s < r
  <2>1. s - r + d \in 0..(d - 1) /\ a + (s - r + d) = d * (q + 1) + s
    BY <1>1, <1>3
  <2>2. (d * (q + 1) + s) % d = s
    BY <1>1, ModUnique
  <2> QED
    BY <2>1, <2>2
<1> QED
  BY <1>1, <1>2, <1>3

\* A set of naturals that is not empty has a least element.
LEMMA Least ==
  ASSUME NEW S \in SUBSET Nat, S # {}
  PROVE  \E x \in S : \A y \in S : x <= y
<1> DEFINE R == OpToRel(<, Nat)
<1>1. PICK x \in S : \A y \in S : ~(<<y, x>> \in R)
  <2>1. IsWellFoundedOn(R, Nat)
    BY NatLessThanWellFounded
  <2> HIDE DEF R
  <2> QED
    BY <2>1, WFMin
<1>2. \A y \in S : ~(y < x)
  BY <1>1 DEF OpToRel
<1> QED
  BY <1>2

-----------------------------------------------------------------------------
(* The levels.                                                             *)

LEMMA Wheel ==
  /\ Levels \in Nat \ {0}
  /\ \A i \in 1..Levels : Buckets[i] \in Nat \ {0}
  /\ \A i \in 1..(Levels + 1) : Spans[i] \in Nat \ {0}
  /\ \A i \in 1..Levels : Spans[i + 1] = Spans[i] * Buckets[i]
  /\ Buckets[Levels] = 1
<1>1. \A s \in Seq(Nat \ {0}) : Len(s) \in Nat /\ \A i \in 1..Len(s) : s[i] \in Nat \ {0}
  OBVIOUS
<1> QED
  BY <1>1, WheelAssumption DEF Levels

LEMMA TicksNat ==
  ASSUME NEW i \in 1..Levels, NEW x \in Nat PROVE Ticks(i, x) \in Nat
<1>1. Spans[i] \in Nat \ {0}
  BY Wheel
<1> QED
  BY <1>1 DEF Ticks

\* A tick of the next level is a number of whole ticks of this one.
LEMMA TicksNest ==
  ASSUME NEW i \in 1..Levels, i + 1 \in 1..Levels, NEW x \in Nat
  PROVE  Ticks(i + 1, x) = Ticks(i, x) \div Buckets[i]
<1>1. /\ Spans[i] \in Nat \ {0} /\ Buckets[i] \in Nat \ {0}
      /\ Spans[i + 1] = Spans[i] * Buckets[i]
  BY Wheel
<1> QED
  BY <1>1, DivNest DEF Ticks

\* When no tick of a level has passed, none of a higher level has.
LEMMA NoTickAbove ==
  ASSUME NEW i \in 1..Levels, NEW x \in Nat, NEW y \in Nat,
         Ticks(i, x) = Ticks(i, y)
  PROVE  \A j \in 1..Levels : j >= i => Ticks(j, x) = Ticks(j, y)
<1> DEFINE S == {j \in 1..Levels : j >= i /\ Ticks(j, x) # Ticks(j, y)}
<1>1. SUFFICES ASSUME S # {} PROVE FALSE
  OBVIOUS
<1>2. S \in SUBSET Nat
  BY Wheel
<1>3. PICK j \in S : \A k \in S : j <= k
  <2> HIDE DEF S
  <2> QED
    BY <1>1, <1>2, Least
<1>4. j \in 1..Levels /\ j > i /\ j - 1 \in 1..Levels /\ j - 1 >= i
      /\ Ticks(j, x) # Ticks(j, y)
  BY Wheel
<1>5. Ticks(j - 1, x) = Ticks(j - 1, y)
  BY <1>3, <1>4
<1>6. /\ Ticks((j - 1) + 1, x) = Ticks(j - 1, x) \div Buckets[j - 1]
      /\ Ticks((j - 1) + 1, y) = Ticks(j - 1, y) \div Buckets[j - 1]
  <2>1. (j - 1) + 1 \in 1..Levels
    BY <1>4
  <2> QED
    BY <1>4, <2>1, TicksNest
<1>7. (j - 1) + 1 = j
  BY <1>4
<1> QED
  BY <1>4, <1>5, <1>6, <1>7

\* schedule hangs an entry right for the present time.
LEMMA PlaceDue ==
  ASSUME Typed, NEW e \in Entry, Place(e), nanos' = nanos
  PROVE  /\ \E i \in 1..Levels : DueAt(e, i, nanos)'
         /\ \A f \in Entry : f # e => bucket'[f] = bucket[f] /\ limit'[f] = limit[f]
         /\ limit' \in [Entry -> Nat] /\ bucket' = [f \in Entry |-> bucket'[f]]
<1> DEFINE x == expire[e]
           fits == {i \in 1..Levels : x - nanos < Spans[i + 1]}
<1>1. /\ x \in Nat /\ nanos \in Nat
      /\ bucket' = [bucket EXCEPT ![e] = FindIndex(x)]
      /\ limit' = [limit EXCEPT ![e] = Limit(x)]
      /\ bucket = [f \in Entry |-> bucket[f]] /\ limit \in [Entry -> Nat]
  BY DEF Place, Typed
<1>2. bucket'[e] = FindIndex(x) /\ limit'[e] = Limit(x)
  BY <1>1
<1>3. /\ 1 \in 1..Levels /\ Ticks(1, x) \in Nat /\ Ticks(1, nanos) \in Nat
      /\ Buckets[1] \in Nat \ {0}
  BY <1>1, Wheel, TicksNat
<1>4. Limit(x) \in Nat
  BY <1>3 DEF Limit
<1>5. \A f \in Entry : f # e => bucket'[f] = bucket[f] /\ limit'[f] = limit[f]
  BY <1>1
<1>6. limit' \in [Entry -> Nat] /\ bucket' = [f \in Entry |-> bucket'[f]]
  BY <1>1, <1>4
\* An entry on a level above the first.
<1>7. ASSUME NEW i \in 1..Levels, i # 1, x - nanos >= Spans[i],
             bucket'[e] = <<i, Ticks(i, x) % Buckets[i]>>
      PROVE  DueAt(e, i, nanos)'
  <2>1. Spans[i] \in Nat \ {0} /\ Spans[1] \in Nat \ {0}
    BY Wheel
  <2>2. Ticks(i, x) \in Nat /\ Ticks(i, nanos) < Ticks(i, x)
    <3>1. (x - nanos >= Spans[i]) /\ Ticks(i, x) \in Nat /\ Ticks(i, nanos) \in Nat
      BY <1>1, <1>7, TicksNat
    <3>a. Ticks(i, nanos) + 1 \in Nat
      BY <3>1
    <3>2. /\ x \div Spans[i] < Ticks(i, nanos) + 1 <=> x < (Ticks(i, nanos) + 1) * Spans[i]
          /\ nanos \div Spans[i] < Ticks(i, nanos) <=> nanos < Ticks(i, nanos) * Spans[i]
      BY <1>1, <2>1, <3>1, <3>a, DivLess, Zenon
    <3>3. (Ticks(i, nanos) + 1) * Spans[i] = Ticks(i, nanos) * Spans[i] + Spans[i]
          /\ Ticks(i, nanos) * Spans[i] \in Nat
      BY <2>1, <3>1
    <3> QED
      BY <1>1, <2>1, <3>1, <3>2, <3>3 DEF Ticks
  <2>3. Ticks(i, x) * Spans[i] \in Nat /\ Ticks(i, x) * Spans[i] <= x
    <3>1. ~(x \div Spans[i] < Ticks(i, x))
      BY <2>2 DEF Ticks
    <3>2. ~(x < Ticks(i, x) * Spans[i])
      BY <1>1, <2>1, <2>2, <3>1, DivLess
    <3>3. Ticks(i, x) * Spans[i] \in Nat
      BY <2>1, <2>2
    <3> QED
      BY <1>1, <3>2, <3>3
  <2>4. Ticks(1, Ticks(i, x) * Spans[i]) <= Ticks(1, x)
    BY <1>1, <2>1, <2>3, DivMono DEF Ticks
  <2>5. Limit(x) = Ticks(1, x)
    <3>1. nanos <= x
      BY <1>1, <1>7, <2>1
    <3>2. Ticks(1, nanos) <= Ticks(1, x)
      BY <1>1, <2>1, <3>1, DivMono DEF Ticks
    <3> QED
      BY <1>3, <3>2 DEF Limit
  <2> QED
    BY <1>2, <1>7, <2>2, <2>4, <2>5 DEF DueAt, Ticks
\* An entry on the first level: its deadline's tick is to come, has begun, or
\* is over, and then its slot comes again within a turn.
<1>8. ASSUME bucket'[e] = <<1, Ticks(1, x) % Buckets[1]>>
      PROVE  DueAt(e, 1, nanos)'
  <2>1. CASE Ticks(1, x) >= Ticks(1, nanos)
    BY <1>2, <1>3, <1>8, <2>1 DEF DueAt, Limit, Ticks
  <2>2. CASE ~(Ticks(1, x) >= Ticks(1, nanos))
    <3>1. Ticks(1, x) % Buckets[1] \in 0..(Buckets[1] - 1)
      BY <1>3, DivMod
    <3>2. PICK j \in 0..(Buckets[1] - 1) :
                 (Ticks(1, nanos) + j) % Buckets[1] = Ticks(1, x) % Buckets[1]
      BY <1>3, <3>1, FullTurn
    <3>3. limit'[e] = Ticks(1, nanos) + Buckets[1] - 1
      BY <1>2, <2>2 DEF Limit
    <3>4. /\ Ticks(1, nanos) + j \in Nat /\ Ticks(1, nanos) <= Ticks(1, nanos) + j
          /\ Ticks(1, nanos) + j <= limit'[e]
          /\ bucket'[e] = <<1, (Ticks(1, nanos) + j) % Buckets[1]>>
      BY <1>3, <1>8, <3>2, <3>3
    <3> QED
      BY <3>4 DEF DueAt, Ticks
  <2> QED
    BY <2>1, <2>2
<1>9. CASE fits = {}
  <2>1. FindIndex(x) = <<Levels, 0>>
    BY <1>9 DEF FindIndex
  <2>2. Levels \in 1..Levels /\ Buckets[Levels] = 1 /\ Spans[Levels] \in Nat \ {0}
        /\ Spans[Levels + 1] = Spans[Levels] * Buckets[Levels]
    BY Wheel
  <2>3. x - nanos >= Spans[Levels]
    <3>1. Spans[Levels + 1] = Spans[Levels]
      BY <2>2
    <3>2. ~(x - nanos < Spans[Levels + 1])
      BY <1>9, <2>2
    <3> QED
      BY <1>1, <2>2, <3>1, <3>2
  <2>4. Ticks(Levels, x) % Buckets[Levels] = 0
    BY <1>1, <2>2, TicksNat
  <2> QED
    BY <1>2, <1>5, <1>6, <1>7, <1>8, <2>1, <2>2, <2>3, <2>4
<1>10. CASE fits # {}
  <2>1. \E i \in fits : \A j \in fits : i <= j
    <3>1. fits \in SUBSET Nat
      BY Wheel
    <3> HIDE DEF fits
    <3> QED
      BY <1>10, <3>1, Least
  <2>2. PICK i \in fits : /\ \A j \in fits : i <= j
                          /\ FindIndex(x) = <<i, Ticks(i, x) % Buckets[i]>>
    <3> DEFINE k == CHOOSE i \in fits : \A j \in fits : i <= j
    <3>1. k \in fits /\ \A j \in fits : k <= j
      BY <2>1
    <3>2. FindIndex(x) = <<k, Ticks(k, x) % Buckets[k]>>
      BY <1>10 DEF FindIndex
    <3> QED
      BY <3>1, <3>2
  <2>3. CASE i = 1
    BY <1>2, <1>3, <1>5, <1>6, <1>8, <2>2, <2>3
  <2>4. CASE i # 1
    <3>1. i \in 1..Levels /\ i - 1 \in 1..Levels /\ (i - 1) + 1 = i
      BY <2>4, Wheel
    <3>2. i - 1 \notin fits
      <4>1. i - 1 \in fits => i <= i - 1
        BY <2>2
      <4> QED
        BY <3>1, <4>1
    <3>3. ~(x - nanos < Spans[i])
      BY <3>1, <3>2
    <3>4. x - nanos >= Spans[i]
      BY <1>1, <3>1, <3>3, Wheel
    <3> QED
      BY <1>2, <1>5, <1>6, <1>7, <2>2, <2>4, <3>1, <3>4
  <2> QED
    BY <2>3, <2>4
<1> QED
  BY <1>9, <1>10

-----------------------------------------------------------------------------
(* The steps.                                                              *)

LEMMA InitInv == Init => Inv
<1> SUFFICES ASSUME Init PROVE Inv
  OBVIOUS
<1>1. Typed
  BY Wheel DEF Init, Typed
<1>2. HangsRight
  BY DEF Init, HangsRight
<1> QED
  BY <1>1, <1>2 DEF Inv

\* Once all buckets of a level that the clock has passed are done, an entry
\* advance has not met hangs right for the present time.
LEMMA Swept ==
  ASSUME Inv, step >= Steps, NEW e \in Entry, DueAt(e, level, previous),
         bucket[e] \notin Visited
  PROVE  DueAt(e, level, nanos)
<1> DEFINE tp == Ticks(level, previous)
           tn == Ticks(level, nanos)
           b == Buckets[level]
<1>1. /\ level \in 1..Levels /\ step \in Nat /\ b \in Nat \ {0}
      /\ tp \in Nat /\ tn \in Nat /\ tp <= tn
  <2>1. Spans[level] \in Nat \ {0} /\ b \in Nat \ {0}
    BY Wheel DEF Inv, Typed
  <2>2. tp <= tn
    BY <2>1, DivMono DEF Inv, Typed, Ticks
  <2> QED
    BY <2>1, <2>2, TicksNat DEF Inv, Typed
<1>2. PICK T \in Nat :
        /\ bucket[e] = <<level, T % b>>
        /\ IF level = 1 THEN tp <= T /\ T <= limit[e]
           ELSE tp < T /\ Ticks(1, T * Spans[level]) <= limit[e]
  <2>1. \A i : i = level => (i = 1 => Ticks(1, previous) = Ticks(level, previous))
    OBVIOUS
  <2> QED
    BY <2>1 DEF DueAt
<1>3. Steps = IF 1 + (tn - tp) < b THEN 1 + (tn - tp) ELSE b
  BY DEF Steps, Delta
<1> HIDE DEF tp, tn, b
<1>4. \A j \in Nat : j < step => (tp + j) % b # T % b
  BY <1>1, <1>2 DEF Visited, tp, b
<1>5. CASE T <= tn
  <2>1. T - tp \in Nat /\ tp + (T - tp) = T /\ T - tp <= tn - tp
    BY <1>1, <1>2, <1>5
  <2>2. ~(1 + (tn - tp) < b)
    <3> SUFFICES ASSUME 1 + (tn - tp) < b PROVE FALSE
      OBVIOUS
    <3>1. Steps = 1 + (tn - tp)
      BY <1>3
    <3>2. T - tp < step
      BY <1>1, <2>1, <3>1
    <3>3. (tp + (T - tp)) % b # T % b
      BY <1>4, <2>1, <3>2
    <3> QED
      BY <2>1, <3>3
  <2>3. T % b \in 0..(b - 1)
    BY <1>1, DivMod
  <2>4. PICK j \in 0..(b - 1) : (tp + j) % b = T % b
    BY <1>1, <2>3, FullTurn
  <2> QED
    BY <1>1, <1>3, <1>4, <2>2, <2>4
<1>6. CASE T > tn
  <2>1. IF level = 1 THEN tn <= T /\ T <= limit[e]
        ELSE tn < T /\ Ticks(1, T * Spans[level]) <= limit[e]
    BY <1>1, <1>2, <1>6
  <2> QED
    BY <1>2, <2>1 DEF DueAt, tn, b
<1> QED
  BY <1>1, <1>5, <1>6

LEMMA StepInv == Inv /\ [Next]_vars => Inv'
<1> SUFFICES ASSUME Inv, [Next]_vars PROVE Inv'
  OBVIOUS
<1> USE DEF Inv
<1>t. "idle" \notin Entry /\ "walk" \notin Entry /\ Levels \in Nat \ {0}
  BY Wheel, WheelAssumption
<1>1. ASSUME NEW e \in Entry, NEW x \in 1..MaxTime, Store(e, x) PROVE Inv'
  <2>1. Typed'
    BY <1>1 DEF Store, walk, Typed
  <2>2. HangsRight'
    BY <1>1 DEF Store, walk, HangsRight, DueAt, Ahead, Visited, Ticks
  <2> QED
    BY <2>1, <2>2
<1>2. ASSUME NEW e \in Entry, Schedule(e) PROVE Inv'
  <2>0. /\ UNCHANGED <<nanos, expire, pc, previous, level, step, todo>>
        /\ pc = "idle" /\ Place(e)
    BY <1>2 DEF Schedule, walk
  <2>1. /\ \E i \in 1..Levels : DueAt(e, i, nanos)'
        /\ \A f \in Entry : f # e => bucket'[f] = bucket[f] /\ limit'[f] = limit[f]
        /\ limit' \in [Entry -> Nat] /\ bucket' = [f \in Entry |-> bucket'[f]]
    BY <2>0, PlaceDue
  <2>2. Typed'
    BY <2>0, <2>1 DEF Typed
  <2>3. \A f \in Entry : f # e /\ bucket'[f] # None =>
          \E i \in 1..Levels : DueAt(f, i, nanos)'
    BY <2>0, <2>1 DEF HangsRight, Ahead, DueAt, Ticks
  <2>4. HangsRight'
    BY <2>1, <2>3 DEF HangsRight
  <2> QED
    BY <2>2, <2>4
<1>3. ASSUME NEW e \in Entry, Deschedule(e) PROVE Inv'
  <2>0. /\ UNCHANGED <<nanos, expire, pc, previous, level, step, todo>>
        /\ pc = "idle"
        /\ bucket' = [bucket EXCEPT ![e] = None] /\ limit' = [limit EXCEPT ![e] = 0]
    BY <1>3 DEF Deschedule, TakeOut, walk
  <2>1. Typed'
    BY <2>0 DEF Typed
  <2>2. \A f \in Entry : bucket'[f] # None => bucket'[f] = bucket[f] /\ limit'[f] = limit[f]
    BY <2>0 DEF Typed
  <2>3. HangsRight'
    BY <2>0, <2>2 DEF HangsRight, Ahead, DueAt, Ticks
  <2> QED
    BY <2>1, <2>3
<1>4. ASSUME NEW now \in 0..MaxTime, Advance(now) PROVE Inv'
  <2>0. /\ pc = "idle" /\ pc' = "walk" /\ now > nanos /\ now \in Nat
        /\ previous' = nanos /\ nanos' = now /\ level' = 1 /\ step' = 0 /\ todo' = {}
        /\ UNCHANGED <<expire, bucket, limit>>
    BY <1>4, WheelAssumption DEF Advance
  <2>1. Typed'
    BY <1>t, <2>0 DEF Typed
  <2>2. Visited' = {}
    BY <2>0 DEF Visited
  <2>3. \A e \in Entry, i \in 1..Levels : Ahead(e, i)'
    BY <1>t, <2>0, <2>2 DEF Ahead
  <2>4. \A e \in Entry, i \in 1..Levels : DueAt(e, i, nanos) => DueAt(e, i, previous)'
    BY <2>0 DEF DueAt, Ticks
  <2>5. HangsRight'
    BY <2>0, <2>3, <2>4 DEF HangsRight, Ahead
  <2> QED
    BY <2>1, <2>5
<1>5. ASSUME NextBucket PROVE Inv'
  <2> DEFINE here == <<level, (Ticks(level, previous) + step) % Buckets[level]>>
  <2>0. /\ pc = "walk" /\ todo = {} /\ step' = step + 1
        /\ todo' = {e \in Entry : bucket[e] = here}
        /\ UNCHANGED <<nanos, expire, bucket, pc, previous, level, limit>>
    BY <1>5 DEF NextBucket
  <2>1. Typed'
    BY <2>0 DEF Typed
  <2>2. \A b : b \in Visited' => b \in Visited \/ b = here
    <3>1. \A j \in 0..(step' - 1) : j \in 0..(step - 1) \/ j = step
      BY <2>0 DEF Typed
    <3> QED
      BY <2>0, <3>1 DEF Visited, Ticks
  <2>3. \A e \in Entry, i \in 1..Levels : Ahead(e, i) => Ahead(e, i)'
    BY <2>0, <2>2 DEF Ahead
  <2>4. HangsRight'
    BY <2>0, <2>3 DEF HangsRight, DueAt, Ticks
  <2> QED
    BY <2>1, <2>4
<1>6. ASSUME NEW e \in Entry, Expire(e) PROVE Inv'
  <2>0. /\ UNCHANGED <<nanos, expire, pc, previous, level, step>>
        /\ pc = "walk" /\ todo' = todo \ {e}
        /\ bucket' = [bucket EXCEPT ![e] = None] /\ limit' = [limit EXCEPT ![e] = 0]
    BY <1>6 DEF Expire, TakeOut
  <2>1. Typed'
    BY <2>0 DEF Typed
  <2>2. \A f \in Entry : bucket'[f] # None =>
          f # e /\ bucket'[f] = bucket[f] /\ limit'[f] = limit[f]
    BY <2>0 DEF Typed
  <2>3. HangsRight'
    BY <2>0, <2>2 DEF HangsRight, Ahead, DueAt, Ticks, Visited
  <2> QED
    BY <2>1, <2>3
<1>7. ASSUME NEW e \in Entry, Visit(e) PROVE Inv'
  <2>0. /\ pc' = e /\ pc' # "idle" /\ pc = "walk"
        /\ UNCHANGED <<nanos, expire, bucket, previous, level, step, todo, limit>>
    BY <1>t, <1>7 DEF Visit, walk
  <2>1. Typed'
    BY <2>0 DEF Typed
  <2>2. HangsRight'
    BY <2>0 DEF HangsRight, Ahead, DueAt, Ticks, Visited
  <2> QED
    BY <2>1, <2>2
<1>8. ASSUME NEW e \in Entry, Reschedule(e) PROVE Inv'
  <2>0. /\ UNCHANGED <<nanos, expire, previous, level, step>>
        /\ pc # "idle" /\ pc' = "walk" /\ todo' = todo \ {e} /\ Place(e)
    BY <1>t, <1>8 DEF Reschedule
  <2>1. /\ \E i \in 1..Levels : DueAt(e, i, nanos)'
        /\ \A f \in Entry : f # e => bucket'[f] = bucket[f] /\ limit'[f] = limit[f]
        /\ limit' \in [Entry -> Nat] /\ bucket' = [f \in Entry |-> bucket'[f]]
    BY <2>0, PlaceDue
  <2>2. Typed'
    BY <2>0, <2>1 DEF Typed
  <2>3. \A f \in Entry : f # e /\ bucket'[f] # None =>
          \E i \in 1..Levels : DueAt(f, i, nanos)' \/ (DueAt(f, i, previous)' /\ Ahead(f, i)')
    BY <2>0, <2>1 DEF HangsRight, Ahead, DueAt, Ticks, Visited
  <2>4. HangsRight'
    BY <2>1, <2>3 DEF HangsRight
  <2> QED
    BY <2>2, <2>4
<1>9. ASSUME NextLevel PROVE Inv'
  <2>0. /\ pc = "walk" /\ todo = {} /\ step >= Steps /\ level < Levels
        /\ level' = level + 1 /\ step' = 0
        /\ UNCHANGED <<nanos, expire, bucket, pc, previous, todo, limit>>
    BY <1>9 DEF NextLevel
  <2>1. Typed'
    BY <1>t, <2>0 DEF Typed
  <2>2. Visited' = {}
    BY <2>0 DEF Visited
  <2>3. \A e \in Entry, i \in 1..Levels : i > level => Ahead(e, i)'
    BY <1>t, <2>0, <2>2 DEF Ahead, Typed
  <2>4. \A e \in Entry, i \in 1..Levels :
          /\ DueAt(e, i, nanos) => DueAt(e, i, nanos)'
          /\ DueAt(e, i, previous) => DueAt(e, i, previous)'
    BY <2>0 DEF DueAt, Ticks
  <2>5. \A e \in Entry, i \in 1..Levels :
          DueAt(e, i, previous) /\ Ahead(e, i) /\ ~(i > level) => DueAt(e, i, nanos)
    BY <2>0, Swept DEF Ahead
  <2>6. HangsRight'
    BY <2>0, <2>3, <2>4, <2>5 DEF HangsRight
  <2> QED
    BY <2>1, <2>6
<1>10. ASSUME AdvanceDone PROVE Inv'
  <2>0. /\ pc = "walk" /\ todo = {} /\ pc' = "idle" /\ previous' = 0 /\ level' = 1
        /\ step' = 0 /\ UNCHANGED <<nanos, expire, bucket, todo, limit>>
        /\ Delta = 0 \/ (level = Levels /\ step >= Steps)
    BY <1>10 DEF AdvanceDone
  <2>1. Typed'
    BY <1>t, <2>0 DEF Typed
  <2>2. ASSUME NEW e \in Entry, NEW i \in 1..Levels, DueAt(e, i, previous), Ahead(e, i)
        PROVE  DueAt(e, i, nanos)
    <3>1. CASE Delta = 0
      <4>1. /\ Ticks(level, nanos) = Ticks(level, previous) /\ level \in 1..Levels
            /\ nanos \in Nat /\ previous \in Nat
        BY <3>1, TicksNat DEF Delta, Typed
      <4>2. i >= level
        BY <1>t, <2>2 DEF Ahead, Typed
      <4>3. Ticks(i, nanos) = Ticks(i, previous)
        BY <4>1, <4>2, NoTickAbove
      <4> QED
        BY <2>2, <4>3 DEF DueAt
    <3>2. CASE level = Levels /\ step >= Steps
      <4>1. i = level /\ bucket[e] \notin Visited
        BY <1>t, <2>0, <2>2, <3>2 DEF Ahead, Typed
      <4> QED
        BY <2>2, <3>2, <4>1, Swept
    <3> QED
      BY <2>0, <3>1, <3>2
  <2>3. \A e \in Entry, i \in 1..Levels : DueAt(e, i, nanos) => DueAt(e, i, nanos)'
    BY <2>0 DEF DueAt, Ticks
  <2>4. HangsRight'
    BY <2>0, <2>2, <2>3 DEF HangsRight
  <2> QED
    BY <2>1, <2>4
<1>11. CASE UNCHANGED vars
  <2>1. Typed'
    BY <1>11 DEF vars, walk, Typed
  <2>2. HangsRight'
    BY <1>11 DEF vars, walk, HangsRight, Ahead, DueAt, Ticks, Visited
  <2> QED
    BY <2>1, <2>2
<1> QED
  BY <1>1, <1>2, <1>3, <1>4, <1>5, <1>6, <1>7, <1>8, <1>9, <1>10, <1>11
     DEF Next, Walk

\* After every advance of TimerWheel no entry is left in the wheel past the
\* tick of its deadline, for any levels, spans and jumps of the clock.
THEOREM NoDeadlineMissed == Spec => []OnTime
<1>1. Inv => OnTime
  <2> SUFFICES ASSUME Inv, pc = "idle", NEW e \in Entry, bucket[e] # None
               PROVE  Ticks(1, nanos) <= limit[e]
    BY DEF OnTime
  <2>1. PICK i \in 1..Levels : DueAt(e, i, nanos)
    BY DEF Inv, HangsRight, Ahead
  <2>2. PICK T \in Nat : IF i = 1 THEN Ticks(1, nanos) <= T /\ T <= limit[e]
                         ELSE Ticks(i, nanos) < T /\ Ticks(1, T * Spans[i]) <= limit[e]
    BY <2>1 DEF DueAt
  <2>3. /\ nanos \in Nat /\ limit[e] \in Nat /\ 1 \in 1..Levels
        /\ Spans[i] \in Nat \ {0} /\ Spans[1] \in Nat \ {0}
    BY Wheel DEF Inv, Typed
  <2>4. Ticks(1, nanos) \in Nat
    BY <2>3, TicksNat
  <2>5. CASE i = 1
    BY <2>2, <2>3, <2>4, <2>5
  <2>6. CASE i # 1
    <3>1. nanos < T * Spans[i]
      BY <2>2, <2>3, <2>6, DivLess DEF Ticks
    <3>2. T * Spans[i] \in Nat
      BY <2>3
    <3>3. Ticks(1, nanos) <= Ticks(1, T * Spans[i])
      BY <2>3, <3>1, <3>2, DivMono DEF Ticks
    <3>4. Ticks(1, T * Spans[i]) \in Nat
      BY <2>3, <3>2, TicksNat
    <3> QED
      BY <2>2, <2>3, <2>4, <2>6, <3>3, <3>4
  <2> QED
    BY <2>5, <2>6
<1> QED
  BY <1>1, InitInv, StepInv, PTL DEF Spec
=============================================================================
