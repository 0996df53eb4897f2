------------------------- MODULE PersistenceProofs -------------------------
(***************************************************************************)
(* The admission filters on their own, then the store that runs them and   *)
(* saves and loads itself.  For any number of rows, counters, words and    *)
(* bits and any hash functions within the named assumptions the sketch     *)
(* never underestimates and keeps ageing and the doorkeeper has no false   *)
(* negative; the store's calls, events and restarts are operations of      *)
(* those filters; and for any capacities, costs, deadlines and block size  *)
(* a restart leaves the store whole, with the entries the lists have room  *)
(* for, and no read returns a value past its deadline.                     *)
(***************************************************************************)
EXTENDS Persistence, FiniteSetTheorems, WellFoundedInduction, TLAPS

\* None of a key's counters is below the key's own count.
CountersCover == \A k \in Key : \A p \in Places(k) : count[k] <= table[p]

SketchInv == SketchTypeOK /\ CountersCover /\ SampleBounded
DoorInv == DoorTypeOK /\ NoFalseNegative

-----------------------------------------------------------------------------
(* Arithmetic and sets.                                                    *)

LEMMA TimesMonotone == \A a, b, c \in Nat : a <= b => a * c <= b * c
  OBVIOUS

LEMMA HalfMonotone == \A a, b \in Nat : a <= b => a \div 2 <= b \div 2
  OBVIOUS

LEMMA DivTimes == \A a \in Nat, b \in Nat \ {0} : (a \div b) * b <= a
  OBVIOUS

\* A set of naturals that is not empty has a least element.
LEMMA Least ==
  ASSUME NEW T \in SUBSET Nat, T # {}
  PROVE  \E x \in T : \A y \in T : x <= y
<1> DEFINE R == OpToRel(<, Nat)
<1>1. PICK x \in T : \A y \in T : ~ (<<y, x>> \in R)
  <2>1. IsWellFoundedOn(R, Nat)
    BY NatLessThanWellFounded
  <2> HIDE DEF R
  <2> QED
    BY <2>1, WFMin
<1>2. \A y \in T : ~ (y < x)
  BY <1>1 DEF OpToRel
<1> QED
  BY <1>2

-----------------------------------------------------------------------------
(* The operators of the sketch.                                            *)

\* A key's counters are counters of the table.
LEMMA PlacesIn ==
  ASSUME SketchTypeOK, NEW k \in Key
  PROVE  Places(k) \subseteq Counters(size) /\ Places(k) # {}
<1> DEFINE q == size \div Block
           b == blockHash[k] % q
<1>1. Block \in Nat \ {0} /\ Block = 2 * Rows /\ Rows \in Nat \ {0}
  BY SketchAssumption DEF Block
<1>2. size \in Nat /\ size >= Block
  BY SketchAssumption DEF SketchTypeOK
<1>3. q \in Nat \ {0} /\ q * Block <= size
  <2>1. q \in Nat /\ q * Block <= size
    BY <1>1, <1>2, DivTimes
  <2>2. q # 0
    BY <1>1, <1>2
  <2> QED
    BY <2>1, <2>2
<1> HIDE DEF q
<1>4. b \in 0..(q - 1)
  BY <1>3, HashAssumption
<1> HIDE DEF b
<1>5. b * Block \in Nat /\ b * Block + Block <= size
  <2>1. b * Block <= (q - 1) * Block
    BY <1>1, <1>3, <1>4, TimesMonotone
  <2>2. (q - 1) * Block = q * Block - Block
    BY <1>1, <1>3
  <2> QED
    BY <1>1, <1>2, <1>3, <1>4, <2>1, <2>2
<1>6. ASSUME NEW r \in Row PROVE IndexOf(k, r) \in Counters(size)
  <2>1. wordHash[k][r] \in 0..1 /\ nibbleHash[k][r] \in 0..(Nibbles - 1)
    BY HashAssumption
  <2>2. r \in 0..(Rows - 1)
    BY DEF Row
  <2>3. b * Block + wordHash[k][r] + 2 * r \in 0..(size - 1)
    BY <1>1, <1>2, <1>5, <2>1, <2>2
  <2> QED
    BY <2>1, <2>3 DEF IndexOf, Counters, q, b
<1>7. 0 \in Row
  BY <1>1 DEF Row
<1> QED
  BY <1>6, <1>7 DEF Places

PlacesFit == \A k \in Key : Places(k) \subseteq Counters(size)

LEMMA PlacesAlways == SketchTypeOK => PlacesFit
  BY PlacesIn DEF PlacesFit

\* What Estimate returns is the least of the key's counters.
LEMMA EstimateLeast ==
  ASSUME SketchTypeOK, NEW k \in Key
  PROVE  Estimate(k) \in {table[p] : p \in Places(k)}
<1> DEFINE T == {table[p] : p \in Places(k)}
<1>1. T \subseteq Nat /\ T # {}
  BY PlacesIn, SketchAssumption DEF SketchTypeOK
<1>2. \E n \in T : \A m \in T : n <= m
  <2> HIDE DEF T
  <2> QED
    BY <1>1, Least
<1> QED
  BY <1>2 DEF Estimate

\* No table has more odd counters than the additions that make it full, times
\* the rows: what reset takes off is never more than there is.
LEMMA OddBounded ==
  ASSUME SketchTypeOK, NEW t
  PROVE  LET odd == Cardinality({p \in Counters(size) : t[p] % 2 = 1}) \div Rows
         IN  odd \in 0..SampleSize
<1> DEFINE S == {p \in Counters(size) : t[p] % 2 = 1}
<1>1. size \in Nat \ {0} /\ Nibbles \in Nat \ {0} /\ Rows \in Nat \ {0}
      /\ Factor \in Nat \ {0} /\ Nibbles <= Rows * Factor
  BY SketchAssumption DEF SketchTypeOK, Block
<1>2. /\ IsFiniteSet(0..(size - 1)) /\ Cardinality(0..(size - 1)) = size
      /\ IsFiniteSet(0..(Nibbles - 1)) /\ Cardinality(0..(Nibbles - 1)) = Nibbles
  BY <1>1, FS_Interval
<1>3. IsFiniteSet(Counters(size)) /\ Cardinality(Counters(size)) = size * Nibbles
  <2> DEFINE A == 0..(size - 1)
             B == 0..(Nibbles - 1)
  <2>1. Counters(size) = A \X B
    BY DEF Counters
  <2>2. IsFiniteSet(A) /\ IsFiniteSet(B)
    BY <1>2
  <2>3. Cardinality(A) = size /\ Cardinality(B) = Nibbles
    BY <1>2
  <2> HIDE DEF A, B
  <2>4. IsFiniteSet(A \X B) /\ Cardinality(A \X B) = Cardinality(A) * Cardinality(B)
    BY <2>2, FS_Product
  <2> QED
    BY <2>1, <2>3, <2>4
<1>4. IsFiniteSet(S) /\ Cardinality(S) <= size * Nibbles
  BY <1>3, FS_Subset
<1>5. Cardinality(S) \in Nat
  BY <1>4, FS_CardinalityType
<1>6. size * Nibbles <= (Factor * size) * Rows
  <2>1. Nibbles * size <= (Rows * Factor) * size
    BY <1>1, TimesMonotone
  <2>2. (Rows * Factor) * size = (Factor * size) * Rows
    BY <1>1
  <2> QED
    BY <1>1, <2>1, <2>2
<1> DEFINE c == Cardinality(S)
           f == Factor * size
<1>7. c \in Nat /\ f \in Nat /\ c <= f * Rows
  BY <1>1, <1>4, <1>5, <1>6
<1> HIDE DEF c, f
<1>8. c \div Rows \in 0..f
  BY <1>1, <1>7
<1> QED
  BY <1>8 DEF c, f, SampleSize

\* reset leaves Additions a natural number short of the sample size.
LEMMA AgedBounded ==
  ASSUME SketchTypeOK, NEW t
  PROVE  Aged(t, SampleSize) \in Nat /\ Aged(t, SampleSize) < SampleSize
<1> DEFINE odd == Cardinality({p \in Counters(size) : t[p] % 2 = 1}) \div Rows
<1>1. odd \in 0..SampleSize
  BY OddBounded
<1>2. SampleSize \in Nat \ {0} /\ SampleSize < Wrap /\ Wrap \in Nat
  BY SketchAssumption DEF SketchTypeOK, SampleSize, Block
<1> HIDE DEF odd
<1>3. (SampleSize - odd) % Wrap = SampleSize - odd
  BY <1>1, <1>2
<1>4. Aged(t, SampleSize) = (SampleSize - odd) \div 2
  BY <1>3 DEF Aged, odd
<1> QED
  BY <1>1, <1>2, <1>4

-----------------------------------------------------------------------------
(* Steps of the sketch.                                                    *)

\* A new sketch of s words has counted nothing.
LEMMA NewSketchInv ==
  ASSUME NEW s \in Power \cup {InitSize}, s >= Block, NewSketch(s)
  PROVE  SketchInv'
<1>1. size' = s /\ s \in Nat \ {0} /\ Factor \in Nat \ {0} /\ MaxCount \in Nat
  BY SketchAssumption DEF NewSketch, Block
<1>2. table' = [p \in Counters(s) |-> 0] /\ additions' = 0
      /\ count' = [k \in Key |-> 0]
  BY DEF NewSketch
<1>3. SketchTypeOK'
  BY <1>1, <1>2 DEF SketchTypeOK
<1>4. SampleBounded'
  BY <1>1, <1>2 DEF SampleBounded, SampleSize
<1>5. CountersCover'
  <2>1. \A k \in Key : Places(k)' \subseteq Counters(s)
    <3>1. SketchTypeOK' => PlacesFit'
      BY PlacesAlways, PTL
    <3> QED
      BY <1>1, <1>3, <3>1 DEF PlacesFit, Counters
  <2> QED
    BY <1>2, <2>1 DEF CountersCover
<1> QED
  BY <1>3, <1>4, <1>5 DEF SketchInv

\* n increments of the counters of a key and of its own count.
LEMMA IncCovers ==
  ASSUME SketchInv, NEW k \in Key, NEW n \in Nat
  PROVE  /\ Inc(n, k) \in [Counters(size) -> 0..MaxCount]
         /\ CountUp(n, k) \in [Key -> 0..MaxCount]
         /\ \A j \in Key : \A p \in Places(j) : CountUp(n, k)[j] <= Inc(n, k)[p]
<1> USE SketchAssumption DEF SketchInv, SketchTypeOK
<1>1. Inc(n, k) \in [Counters(size) -> 0..MaxCount]
  BY DEF Inc, AtMost
<1>2. CountUp(n, k) \in [Key -> 0..MaxCount]
  BY DEF CountUp, AtMost
<1>3. ASSUME NEW j \in Key, NEW p \in Places(j)
      PROVE  CountUp(n, k)[j] <= Inc(n, k)[p]
  <2>1. p \in Counters(size)
    BY PlacesIn
  <2>2. count[j] <= table[p]
    BY DEF CountersCover
  <2>3. CASE j = k
    BY <2>1, <2>2, <2>3 DEF Inc, CountUp, AtMost
  <2>4. CASE j # k
    BY <2>1, <2>2, <2>4 DEF Inc, CountUp, AtMost
  <2> QED
    BY <2>3, <2>4
<1> QED
  BY <1>1, <1>2, <1>3

LEMMA SamePlaces ==
  ASSUME UNCHANGED size
  PROVE  /\ \A j \in Key : Places(j)' = Places(j)
         /\ Counters(size') = Counters(size) /\ SampleSize' = SampleSize
  BY DEF Places, IndexOf, Counters, SampleSize

LEMMA AddInv ==
  ASSUME SketchInv, NEW k \in Key, Add(k)
  PROVE  SketchInv'
<1> DEFINE t == Inc(1, k)
           c == CountUp(1, k)
           added == t # table
           full == added /\ additions + 1 = SampleSize
<1>1. /\ t \in [Counters(size) -> 0..MaxCount] /\ c \in [Key -> 0..MaxCount]
      /\ \A j \in Key : \A p \in Places(j) : c[j] <= t[p] /\ p \in Counters(size)
  BY IncCovers, PlacesIn DEF SketchInv
<1>2. /\ UNCHANGED size
      /\ table' = IF full THEN [p \in Counters(size) |-> t[p] \div 2] ELSE t
      /\ additions' = IF full THEN Aged(t, additions + 1)
                      ELSE IF added THEN additions + 1 ELSE additions
      /\ count' = IF full THEN [j \in Key |-> c[j] \div 2] ELSE c
  BY DEF Add
<1>3. Aged(t, SampleSize) \in Nat /\ Aged(t, SampleSize) < SampleSize
  BY AgedBounded DEF SketchInv
<1>4. /\ additions \in Nat /\ additions < SampleSize /\ SampleSize \in Nat
      /\ MaxCount \in Nat /\ size \in Power \cup {InitSize} /\ size >= Block
  BY SketchAssumption DEF SketchInv, SketchTypeOK, SampleBounded, SampleSize
<1> HIDE DEF t, c
<1>5. additions' \in Nat /\ additions' < SampleSize
  BY <1>2, <1>3, <1>4
<1>6. CASE full
  <2>1. table' \in [Counters(size) -> 0..MaxCount] /\ count' \in [Key -> 0..MaxCount]
    BY <1>1, <1>2, <1>4, <1>6
  <2>2. \A j \in Key : \A p \in Places(j) : count'[j] <= table'[p]
    <3> SUFFICES ASSUME NEW j \in Key, NEW p \in Places(j)
                 PROVE  count'[j] <= table'[p]
      OBVIOUS
    <3>1. c[j] \in Nat /\ t[p] \in Nat /\ c[j] <= t[p]
      BY <1>1, <1>4
    <3>2. c[j] \div 2 <= t[p] \div 2
      BY <3>1, HalfMonotone
    <3> QED
      BY <1>1, <1>2, <1>6, <3>2
  <2> QED
    BY <1>2, <1>4, <1>5, <2>1, <2>2, SamePlaces
    DEF SketchInv, SketchTypeOK, CountersCover, SampleBounded
<1>7. CASE ~full
  <2>1. table' = t /\ count' = c
    BY <1>2, <1>7
  <2> QED
    BY <1>1, <1>2, <1>4, <1>5, <2>1, SamePlaces
    DEF SketchInv, SketchTypeOK, CountersCover, SampleBounded
<1> QED
  BY <1>6, <1>7

LEMMA AddnInv ==
  ASSUME SketchInv, NEW k \in Key, NEW n \in Nat, Addn(k, n)
  PROVE  SketchInv'
<1>1. UNCHANGED <<size, additions>> /\ table' = Inc(n, k) /\ count' = CountUp(n, k)
  BY DEF Addn
<1> QED
  BY <1>1, IncCovers, SamePlaces
  DEF SketchInv, SketchTypeOK, CountersCover, SampleBounded

LEMMA EnsureCapacityInv ==
  ASSUME SketchInv, NEW n \in Nat, EnsureCapacity(n)
  PROVE  SketchInv'
<1>1. CASE size >= n
  BY <1>1, SamePlaces DEF EnsureCapacity, sketchVars, SketchInv, SketchTypeOK,
     CountersCover, SampleBounded
<1>2. CASE ~(size >= n)
  <2>1. PICK s \in Power : RoundsTo(AtLeast(n, MinSize), s) /\ NewSketch(s)
    BY <1>2 DEF EnsureCapacity
  <2>2. s >= Block
    <3>1. AtLeast(n, MinSize) \in Nat /\ AtLeast(n, MinSize) >= Block
      BY SketchAssumption DEF AtLeast, Block
    <3>2. AtLeast(n, MinSize) <= s
      BY <2>1 DEF RoundsTo
    <3> QED
      BY <3>1, <3>2, SketchAssumption DEF Block
  <2> QED
    BY <2>1, <2>2, NewSketchInv
<1> QED
  BY <1>1, <1>2

LEMMA SketchStepInv == SketchInv /\ SketchStep => SketchInv'
<1> SUFFICES ASSUME SketchInv, SketchStep PROVE SketchInv'
  OBVIOUS
<1>1. CASE UNCHANGED sketchVars
  BY <1>1, SamePlaces DEF sketchVars, SketchInv, SketchTypeOK, CountersCover,
     SampleBounded
<1>2. ASSUME NEW k \in Key, Add(k) PROVE SketchInv'
  BY <1>2, AddInv
<1>3. ASSUME NEW k \in Key, NEW n \in 0..MaxCount, Addn(k, n) PROVE SketchInv'
  BY <1>3, AddnInv, SketchAssumption
<1>4. ASSUME NEW n \in Wanted, EnsureCapacity(n) PROVE SketchInv'
  BY <1>4, EnsureCapacityInv, SketchAssumption
<1>5. CASE NewSketch(InitSize)
  BY <1>5, NewSketchInv, SketchAssumption
<1> QED
  BY <1>1, <1>2, <1>3, <1>4, <1>5 DEF SketchStep

-----------------------------------------------------------------------------
(* Steps of the doorkeeper.                                                *)

LEMMA BitsNat ==
  ASSUME DoorTypeOK, NEW k \in Key
  PROVE  BitsOf(k) \subseteq Nat
<1>1. BitsPer * capacity \in Nat \ {0}
  BY DoorAssumption DEF DoorTypeOK
<1>2. ASSUME NEW i \in 0..(Hashes - 1) PROVE Bit(k, i) \in Nat
  <2>1. h1[k] + i * h2[k] \in Nat
    BY DoorAssumption
  <2> QED
    BY <1>1, <2>1 DEF Bit
<1> QED
  BY <1>2 DEF BitsOf

\* A new filter has no bit set and promises nothing.
LEMMA NewDoorInv ==
  ASSUME NEW c \in Nat \ {0}, NewDoor(c), counter' \in Nat
  PROVE  DoorInv'
  BY DEF NewDoor, DoorInv, DoorTypeOK, NoFalseNegative

LEMMA EnsureDoorInv ==
  ASSUME DoorInv, NEW n \in Nat, EnsureDoor(n), counter' \in Nat
  PROVE  DoorInv'
<1>1. CASE Grows(n)
  BY <1>1, NewDoorInv, SketchAssumption DEF EnsureDoor
<1>2. CASE ~Grows(n)
  BY <1>2 DEF EnsureDoor, DoorInv, DoorTypeOK, NoFalseNegative, Exist, BitsOf, Bit
<1> QED
  BY <1>1, <1>2

LEMMA AskInv ==
  ASSUME DoorInv, NEW k \in Key, NEW admit \in BOOLEAN, NEW n \in Nat,
         Ask(k, admit, n)
  PROVE  DoorInv'
<1> DEFINE stale == counter > capacity
           before == IF stale THEN {} ELSE bits
           known == IF stale THEN {} ELSE seen
<1>1. counter' \in Nat
  BY DEF Ask, DoorInv, DoorTypeOK
<1>2. CASE admit /\ Grows(n)
  BY <1>1, <1>2, EnsureDoorInv DEF Ask
<1>3. CASE ~(admit /\ Grows(n))
  <2>1. bits' = before \cup BitsOf(k) /\ seen' = known \cup {k} /\ UNCHANGED capacity
    BY <1>3 DEF Ask
  <2>2. \A j \in Key : BitsOf(j)' = BitsOf(j)
    BY <2>1 DEF BitsOf, Bit
  <2>3. \A j \in known : BitsOf(j) \subseteq before
    BY DEF DoorInv, NoFalseNegative, Exist
  <2>4. known \subseteq Key /\ before \subseteq Nat
    BY DEF DoorInv, DoorTypeOK
  <2>5. DoorTypeOK'
    BY <1>1, <2>1, <2>4, BitsNat DEF DoorInv, DoorTypeOK
  <2>6. NoFalseNegative'
    BY <2>1, <2>2, <2>3, <2>4 DEF NoFalseNegative, Exist
  <2> QED
    BY <2>5, <2>6 DEF DoorInv
<1> QED
  BY <1>2, <1>3

LEMMA DoorStepInv == DoorInv /\ DoorStep => DoorInv'
<1> SUFFICES ASSUME DoorInv, DoorStep PROVE DoorInv'
  OBVIOUS
<1>1. CASE UNCHANGED doorVars
  BY <1>1 DEF doorVars, DoorInv, DoorTypeOK, NoFalseNegative, Exist, BitsOf, Bit
<1>2. ASSUME NEW k \in Key, NEW admit \in BOOLEAN, NEW n \in Wanted,
             Ask(k, admit, n)
      PROVE  DoorInv'
  BY <1>2, AskInv, SketchAssumption
<1>3. ASSUME NEW n \in Wanted, EnsureDoor(n), UNCHANGED counter PROVE DoorInv'
  BY <1>3, EnsureDoorInv, SketchAssumption DEF DoorInv, DoorTypeOK
<1>4. CASE NewDoor(InitCapacity) /\ counter' = 0
  BY <1>4, NewDoorInv, DoorAssumption
<1> QED
  BY <1>1, <1>2, <1>3, <1>4 DEF DoorStep

-----------------------------------------------------------------------------
FiltersInv == SketchInv /\ DoorInv

LEMMA FiltersInit == AdmissionInit => FiltersInv
<1> SUFFICES ASSUME AdmissionInit PROVE FiltersInv
  OBVIOUS
<1> USE DEF AdmissionInit
<1>1. InitSize \in Nat \ {0} /\ Factor \in Nat \ {0} /\ MaxCount \in Nat
      /\ InitSize >= Block
  BY SketchAssumption DEF Block
<1>2. SketchTypeOK
  BY <1>1 DEF SketchTypeOK
<1>3. CountersCover
  BY <1>2, PlacesIn DEF CountersCover
<1>4. SampleBounded
  BY <1>1 DEF SampleBounded, SampleSize
<1>5. DoorInv
  BY DoorAssumption DEF DoorInv, DoorTypeOK, NoFalseNegative
<1> QED
  BY <1>2, <1>3, <1>4, <1>5 DEF FiltersInv, SketchInv

LEMMA FiltersStep == FiltersInv /\ [AdmissionNext]_<<sketchVars, doorVars>> => FiltersInv'
<1>1. FiltersInv /\ AdmissionNext => FiltersInv'
  BY SketchStepInv, DoorStepInv DEF FiltersInv, AdmissionNext
<1>2. FiltersInv /\ UNCHANGED <<sketchVars, doorVars>> => FiltersInv'
  BY SketchStepInv, DoorStepInv DEF FiltersInv, SketchStep, DoorStep
<1> QED
  BY <1>1, <1>2

LEMMA FiltersHold == AdmissionSpec => []FiltersInv
  BY FiltersInit, FiltersStep, PTL DEF AdmissionSpec

\* Every counter keeps to its four bits and every index to its table, whatever
\* the sizes the sketch and the filter grow to (CountMinSketch, Bloomfilter).
THEOREM AdmissionTyped == AdmissionSpec => [](SketchTypeOK /\ DoorTypeOK)
<1>1. FiltersInv => SketchTypeOK /\ DoorTypeOK
  BY DEF FiltersInv, SketchInv, DoorInv
<1> QED
  BY <1>1, FiltersHold, PTL

\* CountMinSketch.Estimate never falls short of a key's own count: sharing
\* counters, filling them, halving them and restoring them only adds to it.
THEOREM NeverUnderestimates == AdmissionSpec => []EstimateCovers
<1>1. FiltersInv => EstimateCovers
  <2> SUFFICES ASSUME FiltersInv, NEW k \in Key PROVE Estimate(k) >= count[k]
    BY DEF EstimateCovers
  <2>1. PICK p \in Places(k) : Estimate(k) = table[p]
    BY EstimateLeast DEF FiltersInv, SketchInv
  <2>2. p \in Counters(size) /\ count[k] <= table[p]
    BY PlacesIn DEF FiltersInv, SketchInv, CountersCover
  <2> QED
    BY <2>1, <2>2, SketchAssumption DEF FiltersInv, SketchInv, SketchTypeOK
<1> QED
  BY <1>1, FiltersHold, PTL

\* CountMinSketch.Additions never passes SampleSize, and reset never takes it
\* below 0: the equality the code tests for comes again and again.
THEOREM KeepsAgeing == AdmissionSpec => []SampleBounded
<1>1. FiltersInv => SampleBounded
  BY DEF FiltersInv, SketchInv
<1> QED
  BY <1>1, FiltersHold, PTL

\* Bloomfilter.Exist holds for every key inserted since the filter was made or
\* reset, however the shard makes it grow.
THEOREM DoorRemembers == AdmissionSpec => []NoFalseNegative
<1>1. FiltersInv => NoFalseNegative
  BY DEF FiltersInv, DoorInv
<1> QED
  BY <1>1, FiltersHold, PTL

-----------------------------------------------------------------------------
(* Sums over finite sets.  MapThenSumSet adds up a set by taking out one   *)
(* element after the other; which one comes next does not matter.          *)

Pick(s) == CHOOSE x \in s : TRUE

IsSum(g, f, S) ==
  g = [s \in SUBSET S |->
         IF s = {} THEN 0 ELSE f[Pick(s)] + g[s \ {Pick(s)}]]

SumOver(f, S) == (CHOOSE g : IsSum(g, f, S))[S]

LEMMA Unfold ==
  ASSUME NEW f, NEW S
  PROVE  MapThenSumSet(LAMBDA e : f[e], S) = SumOver(f, S)
BY DEF MapThenSumSet, MapThenFoldSet, SumOver, IsSum, Pick

\* What is wrong for some part of a finite set is wrong for a smallest part.
LEMMA Smallest ==
  ASSUME NEW S, IsFiniteSet(S), NEW Bad \in SUBSET (SUBSET S), Bad # {}
  PROVE  \E s \in Bad : \A x \in s : s \ {x} \notin Bad
<1> DEFINE Counts == {Cardinality(s) : s \in Bad}
           R == OpToRel(<, Nat)
<1>1. \A s \in Bad : IsFiniteSet(s) /\ Cardinality(s) \in Nat
  BY FS_Subset, FS_CardinalityType
<1>2. Counts \in SUBSET Nat /\ Counts # {}
  BY <1>1
<1>3. PICK n \in Counts : \A m \in Counts : ~(<<m, n>> \in R)
  <2>1. IsWellFoundedOn(R, Nat)
    BY NatLessThanWellFounded
  <2> HIDE DEF R, Counts
  <2> QED
    BY <1>2, <2>1, WFMin
<1>4. \A m \in Counts : ~(m < n)
  BY <1>2, <1>3 DEF OpToRel
<1>5. PICK s \in Bad : Cardinality(s) = n
  OBVIOUS
<1>6. ASSUME NEW x \in s, s \ {x} \in Bad PROVE FALSE
  <2>1. Cardinality(s \ {x}) = Cardinality(s) - 1
    BY <1>1, FS_RemoveElement
  <2>2. Cardinality(s \ {x}) \in Counts
    BY <1>6
  <2> HIDE DEF Counts, R
  <2>3. ~(Cardinality(s) - 1 < Cardinality(s))
    BY <1>4, <1>5, <2>1, <2>2
  <2> QED
    BY <1>1, <2>3
<1> QED
  BY <1>6

\* A sum depends on nothing but the numbers that are added.
LEMMA SumSame ==
  ASSUME NEW S, IsFiniteSet(S), NEW T, NEW f, NEW h, NEW g, NEW i,
         IsSum(g, f, S), IsSum(i, h, T),
         NEW s \in SUBSET S, s \subseteq T, \A x \in s : f[x] = h[x]
  PROVE  g[s] = i[s]
<1> SUFFICES ASSUME g[s] # i[s] PROVE FALSE
  OBVIOUS
<1> DEFINE Bad == {t \in SUBSET s : g[t] # i[t]}
<1>1. IsFiniteSet(s) /\ Bad \in SUBSET (SUBSET s) /\ Bad # {}
  BY FS_Subset
<1>2. PICK t \in Bad : \A x \in t : t \ {x} \notin Bad
  <2> HIDE DEF Bad
  <2> QED
    BY <1>1, Smallest
<1>3. /\ g[t] = IF t = {} THEN 0 ELSE f[Pick(t)] + g[t \ {Pick(t)}]
      /\ i[t] = IF t = {} THEN 0 ELSE h[Pick(t)] + i[t \ {Pick(t)}]
  <2>1. t \in SUBSET S /\ t \in SUBSET T
    OBVIOUS
  <2> QED
    BY <2>1 DEF IsSum
<1>4. CASE t = {}
  BY <1>3, <1>4
<1>5. CASE t # {}
  <2>1. Pick(t) \in t
    BY <1>5 DEF Pick
  <2>2. g[t \ {Pick(t)}] = i[t \ {Pick(t)}]
    BY <1>2, <2>1
  <2> QED
    BY <1>3, <1>5, <2>1, <2>2
<1> QED
  BY <1>4, <1>5

LEMMA SumExists ==
  ASSUME NEW S, IsFiniteSet(S), NEW f
  PROVE  \E g : IsSum(g, f, S)
<1> SUFFICES ASSUME \A g : ~IsSum(g, f, S) PROVE FALSE
  OBVIOUS
<1> DEFINE Bad == {t \in SUBSET S : \A g : ~IsSum(g, f, t)}
<1>1. Bad \in SUBSET (SUBSET S) /\ Bad # {}
  OBVIOUS
<1>2. PICK t \in Bad : \A x \in t : t \ {x} \notin Bad
  <2> HIDE DEF Bad
  <2> QED
    BY <1>1, Smallest
<1>3. \A x \in t : \E g : IsSum(g, f, t \ {x})
  BY <1>2
<1> DEFINE G(x) == CHOOSE g : IsSum(g, f, t \ {x})
<1>4. \A x \in t : IsSum(G(x), f, t \ {x})
  BY <1>3
<1> HIDE DEF G
<1> DEFINE i == [s \in SUBSET t |->
                   IF s = {} THEN 0
                   ELSE f[Pick(s)] + G(Pick(s))[s \ {Pick(s)}]]
<1>5. ASSUME NEW s \in SUBSET t, s # {}
      PROVE  i[s \ {Pick(s)}] = G(Pick(s))[s \ {Pick(s)}]
  <2> DEFINE x == Pick(s)
             r == s \ {x}
             y == Pick(r)
  <2>1. x \in s /\ r \in SUBSET t /\ r \in SUBSET (t \ {x})
    BY <1>5 DEF Pick
  <2>2. i[r] = IF r = {} THEN 0 ELSE f[y] + G(y)[r \ {y}]
    BY <2>1
  <2>3. G(x)[r] = IF r = {} THEN 0 ELSE f[y] + G(x)[r \ {y}]
    <3>1. IsSum(G(x), f, t \ {x})
      BY <1>4, <2>1
    <3> QED
      BY <2>1, <3>1 DEF IsSum
  <2>4. ASSUME r # {} PROVE G(y)[r \ {y}] = G(x)[r \ {y}]
    <3>1. y \in r
      BY <2>4 DEF Pick
    <3>2. IsSum(G(x), f, t \ {x}) /\ IsSum(G(y), f, t \ {y})
      BY <1>4, <2>1, <3>1
    <3>3. IsFiniteSet(t \ {y})
      BY FS_Subset
    <3>4. r \ {y} \in SUBSET (t \ {y}) /\ r \ {y} \subseteq t \ {x}
      BY <2>1
    <3> HIDE DEF x, y, r
    <3> QED
      BY <3>2, <3>3, <3>4, SumSame
  <2> QED
    BY <2>2, <2>3, <2>4
<1>6. i = [s \in SUBSET t |->
             IF s = {} THEN 0 ELSE f[Pick(s)] + i[s \ {Pick(s)}]]
  BY <1>5
<1> HIDE DEF i
<1>7. IsSum(i, f, t)
  BY <1>6 DEF IsSum
<1> QED
  BY <1>2, <1>7

\* The sum over the parts of S.
LEMMA SumOf ==
  ASSUME NEW S, IsFiniteSet(S), NEW f
  PROVE  \E g : IsSum(g, f, S) /\ \A s \in SUBSET S : g[s] = SumOver(f, s)
<1>1. PICK g : IsSum(g, f, S)
  BY SumExists
<1>2. ASSUME NEW s \in SUBSET S PROVE g[s] = SumOver(f, s)
  <2>1. IsFiniteSet(s)
    BY FS_Subset
  <2>2. PICK i : i = (CHOOSE j : IsSum(j, f, s))
    OBVIOUS
  <2>3. IsSum(i, f, s)
    BY <2>1, <2>2, SumExists
  <2>4. g[s] = i[s]
    BY <1>1, <2>3, SumSame
  <2> QED
    BY <2>2, <2>4 DEF SumOver
<1> QED
  BY <1>1, <1>2

LEMMA SumEmpty == ASSUME NEW f PROVE SumOver(f, {}) = 0
<1>1. IsFiniteSet({})
  BY FS_EmptySet
<1>2. PICK g : IsSum(g, f, {}) /\ \A s \in SUBSET {} : g[s] = SumOver(f, s)
  BY <1>1, SumOf
<1> QED
  BY <1>2 DEF IsSum

LEMMA SumEqual ==
  ASSUME NEW S, IsFiniteSet(S), NEW f, NEW h, \A x \in S : f[x] = h[x]
  PROVE  SumOver(f, S) = SumOver(h, S)
<1>1. PICK g : IsSum(g, f, S) /\ \A s \in SUBSET S : g[s] = SumOver(f, s)
  BY SumOf
<1>2. PICK i : IsSum(i, h, S) /\ \A s \in SUBSET S : i[s] = SumOver(h, s)
  BY SumOf
<1>3. g[S] = i[S]
  BY <1>1, <1>2, SumSame
<1> QED
  BY <1>1, <1>2, <1>3

\* A sum stays within a set that has 0 and is closed under addition.
LEMMA SumWithin ==
  ASSUME NEW S, IsFiniteSet(S), NEW f, NEW N, 0 \in N,
         \A a, b \in N : a + b \in N, \A x \in S : f[x] \in N
  PROVE  SumOver(f, S) \in N
<1>1. PICK g : IsSum(g, f, S) /\ \A s \in SUBSET S : g[s] = SumOver(f, s)
  BY SumOf
<1> SUFFICES ASSUME g[S] \notin N PROVE FALSE
  BY <1>1
<1> DEFINE Bad == {t \in SUBSET S : g[t] \notin N}
<1>2. Bad \in SUBSET (SUBSET S) /\ Bad # {}
  OBVIOUS
<1>3. PICK t \in Bad : \A x \in t : t \ {x} \notin Bad
  <2> HIDE DEF Bad
  <2> QED
    BY <1>2, Smallest
<1>4. g[t] = IF t = {} THEN 0 ELSE f[Pick(t)] + g[t \ {Pick(t)}]
  BY <1>1 DEF IsSum
<1>5. t # {}
  BY <1>4
<1>6. Pick(t) \in t
  BY <1>5 DEF Pick
<1>7. g[t \ {Pick(t)}] \in N /\ f[Pick(t)] \in N
  BY <1>3, <1>6
<1> QED
  BY <1>4, <1>5, <1>7

LEMMA SumInt ==
  ASSUME NEW S, IsFiniteSet(S), NEW f, \A x \in S : f[x] \in Int
  PROVE  SumOver(f, S) \in Int
<1>1. 0 \in Int /\ \A a, b \in Int : a + b \in Int
  OBVIOUS
<1> QED
  BY <1>1, SumWithin

LEMMA SumNat ==
  ASSUME NEW S, IsFiniteSet(S), NEW f, \A x \in S : f[x] \in Nat
  PROVE  SumOver(f, S) \in Nat
<1>1. 0 \in Nat /\ \A a, b \in Nat : a + b \in Nat
  OBVIOUS
<1> QED
  BY <1>1, SumWithin

\* An element may be taken out first.
LEMMA SumWithout ==
  ASSUME NEW S, IsFiniteSet(S), NEW f, \A x \in S : f[x] \in Int, NEW e \in S
  PROVE  SumOver(f, S) = f[e] + SumOver(f, S \ {e})
<1>1. PICK g : IsSum(g, f, S) /\ \A s \in SUBSET S : g[s] = SumOver(f, s)
  BY SumOf
<1>2. \A s \in SUBSET S : g[s] \in Int
  BY <1>1, SumInt, FS_Subset
<1> DEFINE Bad == {t \in SUBSET S : \E x \in t : g[t] # f[x] + g[t \ {x}]}
<1> SUFFICES ASSUME Bad # {} PROVE FALSE
  BY <1>1
<1>3. PICK t \in Bad : \A x \in t : t \ {x} \notin Bad
  <2>1. Bad \in SUBSET (SUBSET S)
    OBVIOUS
  <2> HIDE DEF Bad
  <2> QED
    BY <2>1, Smallest
<1>4. PICK x \in t : g[t] # f[x] + g[t \ {x}]
  BY <1>3
<1> DEFINE y == Pick(t)
<1>5. y \in t /\ g[t] = f[y] + g[t \ {y}]
  BY <1>1, <1>4 DEF IsSum, Pick
<1>6. CASE x = y
  BY <1>4, <1>5, <1>6
<1>7. CASE x # y
  <2>1. t \ {y} \notin Bad /\ t \ {x} \notin Bad
    BY <1>3, <1>5
  <2>2. g[t \ {y}] = f[x] + g[(t \ {y}) \ {x}]
    BY <1>4, <1>7, <2>1
  <2>3. g[t \ {x}] = f[y] + g[(t \ {x}) \ {y}]
    BY <1>5, <1>7, <2>1
  <2>4. (t \ {x}) \ {y} = (t \ {y}) \ {x}
    OBVIOUS
  <2>5. g[(t \ {y}) \ {x}] \in Int /\ f[x] \in Int /\ f[y] \in Int
    BY <1>2, <1>5
  <2>6. \A a, b, c \in Int : a + (b + c) = b + (a + c)
    OBVIOUS
  <2>7. g[t] = f[y] + (f[x] + g[(t \ {y}) \ {x}])
    BY <1>5, <2>2
  <2>8. g[t] = f[x] + (f[y] + g[(t \ {y}) \ {x}])
    BY <2>5, <2>6, <2>7
  <2> QED
    BY <1>4, <2>3, <2>4, <2>8
<1> QED
  BY <1>6, <1>7

-----------------------------------------------------------------------------
(* Sequences.                                                              *)

LEMMA SetOfIs ==
  ASSUME NEW S, NEW s \in Seq(S)
  PROVE  /\ DOMAIN s = 1..Len(s) /\ Len(s) \in Nat
         /\ ToSet(s) \subseteq S
         /\ \A x : x \in ToSet(s) <=> \E i \in 1..Len(s) : s[i] = x
         /\ s = << >> <=> Len(s) = 0
         /\ s = << >> <=> ToSet(s) = {}
<1>1. DOMAIN s = 1..Len(s) /\ Len(s) \in Nat /\ \A i \in 1..Len(s) : s[i] \in S
  OBVIOUS
<1>2. s = << >> <=> Len(s) = 0
  OBVIOUS
<1>3. \A x : x \in ToSet(s) <=> \E i \in 1..Len(s) : s[i] = x
  BY <1>1 DEF ToSet
<1>4. Len(s) # 0 => 1 \in 1..Len(s)
  BY <1>1
<1>5. Len(s) = 0 => ~(\E i \in 1..Len(s) : TRUE)
  BY <1>1
<1>6. s = << >> <=> ToSet(s) = {}
  BY <1>2, <1>3, <1>4, <1>5
<1>. QED BY <1>1, <1>2, <1>3, <1>6

LEMMA ConcatIs ==
  ASSUME NEW S, NEW a \in Seq(S), NEW b \in Seq(S)
  PROVE  /\ a \o b \in Seq(S) /\ Len(a \o b) = Len(a) + Len(b)
         /\ \A j \in 1..(Len(a) + Len(b)) :
              (a \o b)[j] = IF j <= Len(a) THEN a[j] ELSE b[j - Len(a)]
  OBVIOUS

LEMMA PushIs ==
  ASSUME NEW S, NEW s \in Seq(S), IsInjective(s), NEW e \in S, e \notin ToSet(s)
  PROVE  /\ <<e>> \o s \in Seq(S) /\ IsInjective(<<e>> \o s)
         /\ ToSet(<<e>> \o s) = ToSet(s) \cup {e}
<1>. DEFINE t == <<e>> \o s
<1>1. /\ t \in Seq(S) /\ Len(t) = Len(s) + 1 /\ t[1] = e
      /\ \A j \in 1..Len(s) : t[j + 1] = s[j]
      /\ Len(s) \in Nat
  OBVIOUS
<1>2. \A j, k \in 1..Len(s) : s[j] = s[k] => j = k
  BY SetOfIs DEF IsInjective
<1>3. \A j \in 1..Len(s) : s[j] # e
  BY SetOfIs
<1>. HIDE DEF t
<1>4. \A j \in 1..Len(t) : j = 1 \/ (j - 1 \in 1..Len(s) /\ t[j] = s[j - 1])
  <2>. SUFFICES ASSUME NEW j \in 1..Len(t), j # 1 PROVE j - 1 \in 1..Len(s) /\ t[j] = s[j - 1]
    OBVIOUS
  <2>1. j - 1 \in 1..Len(s) /\ (j - 1) + 1 = j
    BY <1>1
  <2>. QED BY <1>1, <2>1
<1>5. ASSUME NEW j \in 1..Len(t), NEW k \in 1..Len(t), t[j] = t[k] PROVE j = k
  <2>1. CASE j = 1 \/ k = 1
    BY <1>1, <1>3, <1>4, <1>5, <2>1
  <2>2. CASE j # 1 /\ k # 1
    <3>1. j - 1 \in 1..Len(s) /\ k - 1 \in 1..Len(s) /\ s[j - 1] = s[k - 1]
      BY <1>4, <1>5, <2>2
    <3>2. j - 1 = k - 1
      BY <1>2, <3>1
    <3>. QED BY <3>2
  <2>. QED BY <2>1, <2>2
<1>6. IsInjective(t)
  BY <1>1, <1>5, SetOfIs DEF IsInjective
<1>7. ToSet(t) = ToSet(s) \cup {e}
  <2>1. ASSUME NEW x \in ToSet(t) PROVE x \in ToSet(s) \cup {e}
    <3>1. PICK j \in 1..Len(t) : t[j] = x
      BY <1>1, <2>1, SetOfIs
    <3>. QED BY <1>1, <1>4, <3>1, SetOfIs
  <2>2. ASSUME NEW x \in ToSet(s) \cup {e} PROVE x \in ToSet(t)
    <3>1. CASE x = e
      <4>1. 1 \in 1..Len(t)
        BY <1>1
      <4>. QED BY <1>1, <3>1, <4>1, SetOfIs
    <3>2. CASE x \in ToSet(s)
      <4>1. PICK j \in 1..Len(s) : s[j] = x
        BY <3>2, SetOfIs
      <4>2. j + 1 \in 1..Len(t) /\ t[j + 1] = x
        BY <1>1, <4>1
      <4>. QED BY <1>1, <4>2, SetOfIs
    <3>. QED BY <3>1, <3>2
  <2>. QED BY <2>1, <2>2
<1>. QED BY <1>1, <1>6, <1>7 DEF t

\* Kept is what its definition says, for every part of the sequence.
LEMMA KeptIs ==
  ASSUME NEW S, NEW s \in Seq(S), NEW ps
  PROVE  /\ Kept(s, ps)[0] = << >>
         /\ \A n \in 1..Len(s) :
              Kept(s, ps)[n] = IF n \in ps THEN Append(Kept(s, ps)[n - 1], s[n])
                                           ELSE Kept(s, ps)[n - 1]
<1>. DEFINE Is(g, m) ==
       g = [n \in 0..m |-> IF n = 0 THEN << >>
                           ELSE IF n \in ps THEN Append(g[n - 1], s[n]) ELSE g[n - 1]]
            Bad == {m \in Nat : \A g : ~Is(g, m)}
<1>1. \A m \in Nat : \E g : Is(g, m)
  <2>. SUFFICES ASSUME Bad # {} PROVE FALSE
    OBVIOUS
  <2>1. PICK m \in Bad : \A n \in Bad : m <= n
    <3>1. Bad \in SUBSET Nat
      OBVIOUS
    <3>. HIDE DEF Bad
    <3>. QED BY <3>1, Least
  <2>2. m # 0
    <3>1. Is([n \in 0..0 |-> << >>], 0)
      OBVIOUS
    <3>. QED BY <2>1, <3>1
  <2>3. m \in Nat /\ m - 1 \in Nat /\ m - 1 \notin Bad
    <3>1. Bad \in SUBSET Nat
      OBVIOUS
    <3>. HIDE DEF Bad
    <3>. QED BY <2>1, <2>2, <3>1
  <2>4. PICK g : Is(g, m - 1)
    BY <2>3
  <2>. DEFINE h == [n \in 0..m |-> IF n = m THEN (IF m \in ps THEN Append(g[m - 1], s[m]) ELSE g[m - 1])
                                         ELSE g[n]]
  <2>5. \A n \in 0..(m - 1) : /\ h[n] = g[n]
                              /\ g[n] = IF n = 0 THEN << >>
                                        ELSE IF n \in ps THEN Append(g[n - 1], s[n]) ELSE g[n - 1]
    <3>1. \A n \in 0..(m - 1) : n \in 0..m /\ n # m
      BY <2>3
    <3>. QED BY <2>4, <3>1
  <2>6. h[m] = (IF m \in ps THEN Append(g[m - 1], s[m]) ELSE g[m - 1]) /\ h[m - 1] = g[m - 1]
    BY <2>3
  <2>7. ASSUME NEW n \in 0..m
        PROVE  h[n] = IF n = 0 THEN << >>
                      ELSE IF n \in ps THEN Append(h[n - 1], s[n]) ELSE h[n - 1]
    <3>1. CASE n = m
      BY <2>2, <2>6, <3>1
    <3>2. CASE n # m /\ n # 0
      <4>1. n \in 0..(m - 1) /\ n - 1 \in 0..(m - 1)
        BY <2>3, <3>2
      <4>. HIDE DEF h
      <4>. QED BY <2>5, <3>2, <4>1
    <3>3. CASE n = 0
      <4>1. 0 \in 0..(m - 1)
        BY <2>3
      <4>. HIDE DEF h
      <4>. QED BY <2>5, <3>3, <4>1
    <3>. QED BY <3>1, <3>2, <3>3
  <2>8. Is(h, m)
    <3>1. h = [n \in 0..m |-> h[n]]
      OBVIOUS
    <3>. HIDE DEF h
    <3>. QED BY <2>7, <3>1
  <2>. QED BY <2>1, <2>8
<1>2. Len(s) \in Nat
  OBVIOUS
<1>3. Kept(s, ps) = CHOOSE g : Is(g, Len(s))
  BY DEF Kept
<1>4. Is(Kept(s, ps), Len(s))
  BY <1>1, <1>2, <1>3
<1>5. \A n \in 0..Len(s) :
        Kept(s, ps)[n] = IF n = 0 THEN << >>
                         ELSE IF n \in ps THEN Append(Kept(s, ps)[n - 1], s[n])
                         ELSE Kept(s, ps)[n - 1]
  BY <1>4
<1>. QED BY <1>2, <1>5

\* What is kept are members of the sequence at the positions asked for, each
\* once: all of them, and in order.
LEMMA KeptSeq ==
  ASSUME NEW S, NEW s \in Seq(S), NEW ps, NEW n \in 0..Len(s)
  PROVE  /\ Kept(s, ps)[n] \in Seq(S)
         /\ Len(Kept(s, ps)[n]) <= n
         /\ ToSet(Kept(s, ps)[n]) = {s[i] : i \in (1..n) \cap ps}
         /\ IsInjective(s) => IsInjective(Kept(s, ps)[n])
<1>. DEFINE k == Kept(s, ps)
            Good(m) == /\ k[m] \in Seq(S) /\ Len(k[m]) <= m
                       /\ \A x : x \in ToSet(k[m]) <=> \E i \in 1..m : i \in ps /\ s[i] = x
                       /\ IsInjective(s) => IsInjective(k[m])
            Bad == {m \in 0..Len(s) : ~Good(m)}
<1>. SUFFICES ASSUME Bad # {} PROVE FALSE
  <2>. SUFFICES ASSUME Good(n) PROVE ToSet(k[n]) = {s[i] : i \in (1..n) \cap ps}
    OBVIOUS
  <2>. QED OBVIOUS
<1>0. Len(s) \in Nat /\ DOMAIN s = 1..Len(s) /\ \A i \in 1..Len(s) : s[i] \in S
  OBVIOUS
<1>1. PICK m \in Bad : \A i \in Bad : m <= i
  <2>1. Bad \in SUBSET Nat
    BY <1>0
  <2>. HIDE DEF Bad
  <2>. QED BY <2>1, Least
<1>2. /\ k[0] = << >>
      /\ \A i \in 1..Len(s) : k[i] = IF i \in ps THEN Append(k[i - 1], s[i]) ELSE k[i - 1]
  BY KeptIs
<1>. HIDE DEF k
<1>3. Good(0)
  <2>1. ToSet(<< >>) = {} /\ IsInjective(<< >>)
    BY DEF ToSet, IsInjective
  <2>2. \A x : ~ \E i \in 1..0 : i \in ps /\ s[i] = x
    OBVIOUS
  <2>3. << >> \in Seq(S) /\ Len(<< >>) <= 0
    OBVIOUS
  <2>. QED BY <1>2, <2>1, <2>2, <2>3
<1>4. m \in 1..Len(s) /\ m - 1 \in 0..Len(s) /\ m - 1 \notin Bad
  <2>1. m \in 0..Len(s) /\ m # 0
    BY <1>1, <1>3
  <2>2. m \in 1..Len(s) /\ m - 1 \in 0..Len(s) /\ ~(m <= m - 1)
    BY <1>0, <2>1
  <2>. HIDE DEF Bad
  <2>. QED BY <1>1, <2>2
<1>. DEFINE t == k[m - 1]
<1>5. Good(m - 1)
  BY <1>4
<1>6. CASE m \notin ps
  <2>1. k[m] = t
    BY <1>2, <1>4, <1>6
  <2>2. \A x : (\E i \in 1..m : i \in ps /\ s[i] = x) <=> (\E i \in 1..(m - 1) : i \in ps /\ s[i] = x)
    BY <1>0, <1>4, <1>6
  <2>3. Len(t) <= m
    BY <1>0, <1>4, <1>5
  <2>4. Good(m)
    BY <1>5, <2>1, <2>2, <2>3
  <2>. QED BY <1>1, <2>4
<1>7. CASE m \in ps
  <2>0. s[m] \in S /\ t \in Seq(S)
    BY <1>0, <1>4, <1>5
  <2>. DEFINE a == Append(t, s[m])
  <2>1. k[m] = a
    BY <1>2, <1>4, <1>7
  <2>2. /\ a \in Seq(S) /\ Len(a) = Len(t) + 1 /\ a[Len(t) + 1] = s[m]
        /\ \A i \in 1..Len(t) : a[i] = t[i]
        /\ Len(t) \in Nat
    BY <2>0
  <2>. HIDE DEF a
  <2>3. ToSet(a) = ToSet(t) \cup {s[m]}
    <3>1. \A x : x \in ToSet(a) <=> \E i \in 1..Len(a) : a[i] = x
      BY <2>2, SetOfIs
    <3>2. \A x : x \in ToSet(t) <=> \E i \in 1..Len(t) : t[i] = x
      BY <2>0, SetOfIs
    <3>3. \A i \in 1..Len(a) : i \in 1..Len(t) \/ i = Len(t) + 1
      BY <2>2
    <3>4. \A i \in 1..Len(t) : i \in 1..Len(a)
      BY <2>2
    <3>5. Len(t) + 1 \in 1..Len(a)
      BY <2>2
    <3>6. ASSUME NEW x \in ToSet(a) PROVE x \in ToSet(t) \cup {s[m]}
      BY <2>2, <3>1, <3>2, <3>3, <3>6
    <3>7. ASSUME NEW x \in ToSet(t) \cup {s[m]} PROVE x \in ToSet(a)
      <4>1. CASE x = s[m]
        BY <2>2, <3>1, <3>5, <4>1
      <4>2. CASE x \in ToSet(t)
        BY <2>2, <3>1, <3>2, <3>4, <4>2
      <4>. QED BY <3>7, <4>1, <4>2
    <3>. QED BY <3>6, <3>7
  <2>4. \A i \in 1..m : i \in 1..(m - 1) \/ i = m
    BY <1>0, <1>4
  <2>5. \A x : x \in ToSet(a) <=> \E i \in 1..m : i \in ps /\ s[i] = x
    <3>1. \A x : x \in ToSet(t) <=> \E i \in 1..(m - 1) : i \in ps /\ s[i] = x
      BY <1>5
    <3>2. m \in 1..m /\ \A i \in 1..(m - 1) : i \in 1..m
      BY <1>0, <1>4
    <3>. QED BY <1>7, <2>3, <2>4, <3>1, <3>2
  <2>6. ASSUME IsInjective(s) PROVE IsInjective(a)
    <3>1. s[m] \notin ToSet(t)
      <4>. SUFFICES ASSUME NEW i \in 1..(m - 1), s[i] = s[m] PROVE FALSE
        BY <1>5
      <4>1. i \in 1..Len(s) /\ m \in 1..Len(s) /\ i # m
        BY <1>0, <1>4
      <4>. QED BY <1>0, <2>6, <4>1 DEF IsInjective
    <3>2. \A i \in 1..Len(t) : t[i] # s[m]
      BY <2>0, <3>1, SetOfIs
    <3>3. \A i, j \in 1..Len(t) : t[i] = t[j] => i = j
      BY <1>5, <2>0, <2>6, SetOfIs DEF IsInjective
    <3>4. \A i \in 1..Len(a) : i \in 1..Len(t) \/ i = Len(t) + 1
      BY <2>2
    <3>5. \A i, j \in 1..Len(a) : a[i] = a[j] => i = j
      BY <2>2, <3>2, <3>3, <3>4
    <3>6. DOMAIN a = 1..Len(a)
      BY <2>2
    <3>. QED BY <3>5, <3>6 DEF IsInjective
  <2>7. Len(a) <= m
    BY <1>0, <1>4, <1>5, <2>2
  <2>8. Good(m)
    BY <2>1, <2>2, <2>5, <2>6, <2>7
  <2>. QED BY <1>1, <2>8
<1>. QED BY <1>6, <1>7

LEMMA WithoutIs ==
  ASSUME NEW S, NEW s \in Seq(S), NEW es
  PROVE  /\ Without(s, es) \in Seq(S)
         /\ ToSet(Without(s, es)) = ToSet(s) \ es
         /\ IsInjective(s) => IsInjective(Without(s, es))
<1>. DEFINE ps == {i \in DOMAIN s : s[i] \notin es}
<1>1. Len(s) \in Nat /\ Len(s) \in 0..Len(s) /\ DOMAIN s = 1..Len(s)
  OBVIOUS
<1>2. Without(s, es) = Kept(s, ps)[Len(s)]
  BY DEF Without, Keep
<1>3. \A i \in 1..Len(s) : i \in ps <=> s[i] \notin es
  BY <1>1
<1>. HIDE DEF ps
<1>4. /\ Kept(s, ps)[Len(s)] \in Seq(S)
      /\ ToSet(Kept(s, ps)[Len(s)]) = {s[i] : i \in (1..Len(s)) \cap ps}
      /\ IsInjective(s) => IsInjective(Kept(s, ps)[Len(s)])
  BY <1>1, KeptSeq
<1>5. \A x : x \in ToSet(s) <=> \E i \in 1..Len(s) : s[i] = x
  BY SetOfIs
<1>. QED BY <1>2, <1>3, <1>4, <1>5

-----------------------------------------------------------------------------
(* The parts of the invariant.                                             *)

\* The weight of the members of S, and of those at the positions S of s.
Total(d, S) == SumOver([e \in S |-> d[e].weight], S)
TotalAt(d, s, S) == SumOver([i \in S |-> d[s[i]].weight], S)

Phase == {"live", "saved", "recovering", "loaded", "failed"}
Code == {"NEW", "UPDATE", "REMOVE"}
EntryType == [key : Key \cup {None}, weight : Nat, expire : Nat, due : Nat]
PentryType == [key : Key, weight : Nat, expire : Nat, due : Nat, freq : 0..MaxCount]

TypesStore ==
  /\ phase \in Phase /\ settling \in BOOLEAN
  /\ sizes \in [window : Nat, protected : Nat, main : Nat]
  /\ map \in [Key -> Entry \cup {None}] /\ data \in [Entry -> EntryType]
  /\ list \in [Segment -> Seq(Entry)]
  /\ pending \subseteq [code : Code, entry : Entry]

TypesClock ==
  /\ now \in 0..MaxTime /\ start \in 0..now /\ cached \in 0..NowNano
  /\ ticked \in BOOLEAN

TypesFile ==
  /\ file.start \in 0..now /\ file.total \in Wanted
  /\ saved \in [Segment -> Seq(PentryType)]
  /\ at \in [block : Nat \ {0}, entry : Nat \ {0}, time : Nat]
  /\ good \in Nat

Types == TypesStore /\ TypesClock /\ TypesFile

\* No entry is in two places of the lists.
Apart ==
  /\ \A l \in Segment : IsInjective(list[l])
  /\ \A l, m \in Segment : l # m => ToSet(list[l]) \cap ToSet(list[m]) = {}

\* An entry in use has a key, and one whose NEW is on its way is not listed.
Keyed ==
  /\ \A e \in Listed : data[e].key \in Key
  /\ \A p \in pending : data[p.entry].key \in Key
  /\ \A k \in Mapped : data[map[k]].key \in Key
  /\ \A p \in pending : p.code = "NEW" => p.entry \notin Listed

\* Between Persist and the file's first block the store is a new one.
Unread == phase = "saved" \/ (phase = "recovering" /\ at.block = 1)
Quiet ==
  /\ phase # "live" => pending = {} /\ ~settling
  /\ Unread => /\ map = [k \in Key |-> None] /\ data = [e \in Entry |-> Blank]
               /\ list = [l \in Segment |-> <<>>] /\ wheel = {} /\ weighted = 0
               /\ cached = 0

\* The deadline that is kept is the true one, counted from st and capped.
Timed(d, st) ==
  IF d.due = 0 THEN d.expire = 0
               ELSE d.due > st /\ d.expire = AtMost(d.due - st, MaxInt)

AllTimed ==
  /\ \A e \in Entry : Timed(data[e], start)
  /\ \A l \in Segment : \A i \in DOMAIN saved[l] : Timed(saved[l][i], file.start)

\* The cached time is behind by less than Grace while the ticker runs.
Ticking ==
  /\ phase \in {"live", "loaded"} /\ ticked => NowNano - cached < Grace
  /\ phase = "recovering" => /\ now = at.time
                             /\ at.block > 1 => start = file.start /\ ~ticked

\* What Persist wrote: where the blocks of a list begin, and what they hold.
BlocksOf(l) == (Len(saved[l]) + BlockEntries - 1) \div BlockEntries
Before(l) ==
  CASE l = "window" -> 1
    [] l = "protected" -> 1 + BlocksOf("window")
    [] l = "probation" -> 1 + BlocksOf("window") + BlocksOf("protected")
EndBlock == 2 + BlocksOf("window") + BlocksOf("protected") + BlocksOf("probation")

LaidOut ==
  /\ Len(file.blocks) = EndBlock
  /\ file.blocks[1].type = "meta" /\ file.blocks[EndBlock].type = "end"
  /\ \A l \in Segment : \A b \in 1..BlocksOf(l) :
       LET block == file.blocks[Before(l) + b] IN
       /\ block.type = l
       /\ Len(block.entries) = AtMost(BlockEntries, Len(saved[l]) - (b - 1) * BlockEntries)
       /\ \A i \in 1..Len(block.entries) :
            block.entries[i] = saved[l][(b - 1) * BlockEntries + i]
  /\ Len(saved["window"]) + Len(saved["protected"]) + Len(saved["probation"]) <= MaxEntries

Layout == phase # "live" => LaidOut

\* How many entries of list l Recover has passed.
Passed(l) ==
  IF at.block <= Before(l) THEN 0
  ELSE IF at.block > Before(l) + BlocksOf(l) THEN Len(saved[l])
  ELSE (at.block - Before(l) - 1) * BlockEntries + at.entry - 1

Reading ==
  phase = "recovering" =>
    /\ at.block <= EndBlock /\ good <= EndBlock
    /\ at.entry \in 1..AtLeast(1, Len(Here.entries)) /\ (at.block = 1 => at.entry = 1)

\* The store that is loaded is in one piece.
Whole ==
  phase # "live" =>
    /\ \A k \in Mapped : map[k] \in Listed /\ data[map[k]].key = k
    /\ SavedTwice \/ \A e \in Listed : map[data[e].key] = e
    /\ wheel = {e \in Listed : data[e].expire # 0}
    /\ weighted = Total(data, Listed)

\* What Recover has made of the first entries of list l: those in time, as far
\* as there was room.
Base(l) == IF l = "probation" THEN TotalAt(data, list["protected"], DOMAIN list["protected"]) ELSE 0
Limit(l) == IF l = "probation" THEN sizes.main ELSE sizes[l]
CostOf(s, n) == Total(s, 1..n)
Taken(l) == Kept(saved[l], InTime(l))[Passed(l)]

Estimates == [k \in Key |-> Estimate(k)]
Same(d, p, estimates) ==
  /\ d.key = p.key /\ d.weight = p.weight /\ d.expire = p.expire /\ d.due = p.due
  /\ estimates[d.key] >= p.freq

Loading == phase = "recovering" \/ (phase = "loaded" /\ ~ticked)
Restored(l) ==
  LET n == Len(list[l]) IN
  /\ n <= Len(Taken(l))
  /\ \A i \in 1..n : Same(data[list[l][i]], Taken(l)[i], Estimates)
  /\ \A m \in 0..(n - 1) : Base(l) + CostOf(Taken(l), m) < Limit(l)
  /\ n < Len(Taken(l)) => Base(l) + CostOf(Taken(l), n) >= Limit(l)

Faithful ==
  /\ Loading => \A l \in Segment : Restored(l)
  /\ phase = "loaded" /\ ~ticked => at.block = EndBlock
  /\ phase = "recovering" =>
       Listed = 1..(Len(list["window"]) + Len(list["protected"]) + Len(list["probation"]))

Inv ==
  /\ Types /\ Apart /\ Keyed /\ Quiet /\ AllTimed /\ Ticking /\ Layout
  /\ Reading /\ Whole /\ Faithful /\ FiltersInv

-----------------------------------------------------------------------------
(* The lists.                                                              *)

Lists == list \in [Segment -> Seq(Entry)] /\ Apart

LEMMA ListedIs == \A e : e \in Listed <=> \E l \in Segment : e \in ToSet(list[l])
  BY DEF Listed

LEMMA ListedEntries ==
  ASSUME list \in [Segment -> Seq(Entry)]
  PROVE  Listed \subseteq Entry /\ IsFiniteSet(Listed)
<1>1. \A l \in Segment : ToSet(list[l]) \subseteq Entry
  BY SetOfIs
<1>2. Listed \subseteq Entry
  BY <1>1, ListedIs
<1>3. IsFiniteSet(Entry)
  BY FS_Interval, BoundsAssumption DEF Entry
<1>. QED BY <1>2, <1>3, FS_Subset

\* What the lists are after a step follows from what each of them holds.
LEMMA ListsFrom ==
  ASSUME NEW X \in [Segment -> SUBSET Entry],
         list' \in [Segment -> Seq(Entry)],
         \A l \in Segment : IsInjective(list'[l]) /\ ToSet(list'[l]) = X[l],
         \A l, m \in Segment : l # m => X[l] \cap X[m] = {}
  PROVE  Lists' /\ Listed' = UNION {X[l] : l \in Segment}
<1>1. Lists'
  BY DEF Lists, Apart
<1>2. Listed' = UNION {ToSet(list'[l]) : l \in Segment}
  BY DEF Listed
<1>. QED BY <1>1, <1>2

LEMMA UnlistLists ==
  ASSUME Lists, NEW es, list' = [l \in Segment |-> Without(list[l], es)]
  PROVE  Lists' /\ Listed' = Listed \ es
<1>. DEFINE X == [l \in Segment |-> ToSet(list[l]) \ es]
<1>1. \A l \in Segment : /\ Without(list[l], es) \in Seq(Entry)
                         /\ ToSet(Without(list[l], es)) = ToSet(list[l]) \ es
                         /\ IsInjective(Without(list[l], es))
                         /\ ToSet(list[l]) \subseteq Entry
  BY WithoutIs, SetOfIs DEF Lists, Apart
<1>2. X \in [Segment -> SUBSET Entry]
  BY <1>1
<1>3. \A l \in Segment : list'[l] = Without(list[l], es)
  OBVIOUS
<1>4. list' \in [Segment -> Seq(Entry)]
  BY <1>1
<1>5. \A l \in Segment : IsInjective(list'[l]) /\ ToSet(list'[l]) = X[l]
  BY <1>1, <1>3
<1>6. \A l, m \in Segment : l # m => X[l] \cap X[m] = {}
  BY DEF Lists, Apart
<1>7. UNION {X[l] : l \in Segment} = Listed \ es
  BY DEF Listed
<1>. HIDE DEF X
<1>. QED BY <1>2, <1>4, <1>5, <1>6, <1>7, ListsFrom

LEMMA PushLists ==
  ASSUME Lists, NEW e \in Entry, e \notin Listed, NEW m \in Segment,
         list' = [list EXCEPT ![m] = <<e>> \o @]
  PROVE  Lists' /\ Listed' = Listed \cup {e}
<1>. DEFINE X == [l \in Segment |-> IF l = m THEN ToSet(list[m]) \cup {e} ELSE ToSet(list[l])]
<1>0. \A l \in Segment : /\ list[l] \in Seq(Entry) /\ IsInjective(list[l])
                         /\ ToSet(list[l]) \subseteq Entry /\ e \notin ToSet(list[l])
  BY SetOfIs, ListedIs DEF Lists, Apart
<1>1. /\ <<e>> \o list[m] \in Seq(Entry) /\ IsInjective(<<e>> \o list[m])
      /\ ToSet(<<e>> \o list[m]) = ToSet(list[m]) \cup {e}
  BY <1>0, PushIs
<1>2. X \in [Segment -> SUBSET Entry]
  BY <1>0
<1>3. \A l \in Segment : list'[l] = IF l = m THEN <<e>> \o list[m] ELSE list[l]
  BY DEF Lists
<1>4. list' \in [Segment -> Seq(Entry)]
  BY <1>1 DEF Lists
<1>5. ASSUME NEW l \in Segment PROVE IsInjective(list'[l]) /\ ToSet(list'[l]) = X[l]
  <2>1. CASE l = m
    BY <1>1, <1>3, <2>1
  <2>2. CASE l # m
    BY <1>0, <1>3, <2>2
  <2>. QED BY <2>1, <2>2
<1>6. \A l, n \in Segment : l # n => X[l] \cap X[n] = {}
  BY <1>0 DEF Lists, Apart
<1>7. UNION {X[l] : l \in Segment} = Listed \cup {e}
  BY DEF Listed
<1>. HIDE DEF X
<1>. QED BY <1>2, <1>4, <1>5, <1>6, <1>7, ListsFrom

LEMMA AppendIs ==
  ASSUME NEW S, NEW s \in Seq(S), IsInjective(s), NEW e \in S, e \notin ToSet(s)
  PROVE  /\ Append(s, e) \in Seq(S) /\ IsInjective(Append(s, e))
         /\ ToSet(Append(s, e)) = ToSet(s) \cup {e}
<1>. DEFINE t == Append(s, e)
<1>1. /\ t \in Seq(S) /\ Len(t) = Len(s) + 1 /\ t[Len(s) + 1] = e
      /\ \A j \in 1..Len(s) : t[j] = s[j]
      /\ Len(s) \in Nat /\ DOMAIN t = 1..Len(t)
  OBVIOUS
<1>. HIDE DEF t
<1>2. \A j, k \in 1..Len(s) : s[j] = s[k] => j = k
  BY SetOfIs DEF IsInjective
<1>3. \A j \in 1..Len(s) : s[j] # e
  BY SetOfIs
<1>4. \A j \in 1..Len(t) : j \in 1..Len(s) \/ j = Len(s) + 1
  BY <1>1
<1>5. \A j, k \in 1..Len(t) : t[j] = t[k] => j = k
  BY <1>1, <1>2, <1>3, <1>4
<1>6. IsInjective(t)
  BY <1>1, <1>5 DEF IsInjective
<1>7. \A x : x \in ToSet(t) <=> \E i \in 1..Len(t) : t[i] = x
  BY <1>1, SetOfIs
<1>8. \A x : x \in ToSet(s) <=> \E i \in 1..Len(s) : s[i] = x
  BY SetOfIs
<1>9. Len(s) + 1 \in 1..Len(t) /\ \A i \in 1..Len(s) : i \in 1..Len(t)
  BY <1>1
<1>10. ASSUME NEW x \in ToSet(t) PROVE x \in ToSet(s) \cup {e}
  BY <1>1, <1>4, <1>7, <1>8, <1>10
<1>11. ASSUME NEW x \in ToSet(s) \cup {e} PROVE x \in ToSet(t)
  <2>1. CASE x = e
    BY <1>1, <1>7, <1>9, <2>1
  <2>2. CASE x \in ToSet(s)
    BY <1>1, <1>7, <1>8, <1>9, <2>2
  <2>. QED BY <1>11, <2>1, <2>2
<1>12. ToSet(t) = ToSet(s) \cup {e}
  BY <1>10, <1>11
<1>. QED BY <1>1, <1>6, <1>12 DEF t

LEMMA AppendLists ==
  ASSUME Lists, NEW e \in Entry, e \notin Listed, NEW m \in Segment,
         list' = [list EXCEPT ![m] = Append(@, e)]
  PROVE  Lists' /\ Listed' = Listed \cup {e}
<1>. DEFINE X == [l \in Segment |-> IF l = m THEN ToSet(list[m]) \cup {e} ELSE ToSet(list[l])]
<1>0. \A l \in Segment : /\ list[l] \in Seq(Entry) /\ IsInjective(list[l])
                         /\ ToSet(list[l]) \subseteq Entry /\ e \notin ToSet(list[l])
  BY SetOfIs, ListedIs DEF Lists, Apart
<1>1. /\ Append(list[m], e) \in Seq(Entry) /\ IsInjective(Append(list[m], e))
      /\ ToSet(Append(list[m], e)) = ToSet(list[m]) \cup {e}
  BY <1>0, AppendIs
<1>2. X \in [Segment -> SUBSET Entry]
  BY <1>0
<1>3. \A l \in Segment : list'[l] = IF l = m THEN Append(list[m], e) ELSE list[l]
  BY DEF Lists
<1>4. list' \in [Segment -> Seq(Entry)]
  BY <1>1 DEF Lists
<1>5. ASSUME NEW l \in Segment PROVE IsInjective(list'[l]) /\ ToSet(list'[l]) = X[l]
  <2>1. CASE l = m
    BY <1>1, <1>3, <2>1
  <2>2. CASE l # m
    BY <1>0, <1>3, <2>2
  <2>. QED BY <2>1, <2>2
<1>6. \A l, n \in Segment : l # n => X[l] \cap X[n] = {}
  BY <1>0 DEF Lists, Apart
<1>7. UNION {X[l] : l \in Segment} = Listed \cup {e}
  BY DEF Listed
<1>. HIDE DEF X
<1>. QED BY <1>2, <1>4, <1>5, <1>6, <1>7, ListsFrom

LEMMA FrontIs ==
  ASSUME NEW S, NEW s \in Seq(S), IsInjective(s), s # << >>
  PROVE  /\ Front(s) \in Seq(S) /\ IsInjective(Front(s)) /\ Last(s) \in S
         /\ ToSet(Front(s)) = ToSet(s) \ {Last(s)} /\ Last(s) \in ToSet(s)
<1>. DEFINE t == Front(s)
<1>1. Len(s) \in Nat \ {0} /\ DOMAIN s = 1..Len(s) /\ \A i \in 1..Len(s) : s[i] \in S
  OBVIOUS
<1>2. /\ t \in Seq(S) /\ Len(t) = Len(s) - 1 /\ DOMAIN t = 1..Len(t)
      /\ \A i \in 1..Len(t) : t[i] = s[i]
  BY <1>1 DEF Front
<1>. HIDE DEF t
<1>3. Last(s) = s[Len(s)] /\ Len(s) \in 1..Len(s)
  BY <1>1 DEF Last
<1>4. \A i, j \in 1..Len(s) : s[i] = s[j] => i = j
  BY <1>1 DEF IsInjective
<1>0. Len(t) = Len(s) - 1 /\ Len(s) \in Nat
  BY <1>1, <1>2
<1>5. \A i \in 1..Len(t) : i \in 1..Len(s) /\ i # Len(s)
  BY <1>0
<1>6. \A i \in 1..Len(s) : i # Len(s) => i \in 1..Len(t)
  BY <1>0
<1>7. IsInjective(t)
  BY <1>2, <1>4, <1>5 DEF IsInjective
<1>8. \A x : x \in ToSet(t) <=> \E i \in 1..Len(t) : t[i] = x
  BY <1>2, SetOfIs
<1>9. \A x : x \in ToSet(s) <=> \E i \in 1..Len(s) : s[i] = x
  BY SetOfIs
<1>10. ASSUME NEW x \in ToSet(t) PROVE x \in ToSet(s) \ {Last(s)}
  BY <1>2, <1>3, <1>4, <1>5, <1>8, <1>9, <1>10
<1>11. ASSUME NEW x \in ToSet(s) \ {Last(s)} PROVE x \in ToSet(t)
  BY <1>2, <1>3, <1>6, <1>8, <1>9, <1>11
<1>12. ToSet(t) = ToSet(s) \ {Last(s)}
  BY <1>10, <1>11
<1>. QED BY <1>1, <1>2, <1>3, <1>7, <1>9, <1>12 DEF t

LEMMA ShiftLists ==
  ASSUME Lists, NEW l \in Segment, NEW m \in Segment, l # m, list[l] # << >>, Shift(l, m)
  PROVE  Lists' /\ Listed' = Listed
<1>. DEFINE e == Last(list[l])
            X == [n \in Segment |-> IF n = l THEN ToSet(list[l]) \ {e}
                                    ELSE IF n = m THEN ToSet(list[m]) \cup {e}
                                    ELSE ToSet(list[n])]
<1>0. \A n \in Segment : /\ list[n] \in Seq(Entry) /\ IsInjective(list[n])
                         /\ ToSet(list[n]) \subseteq Entry
  BY SetOfIs DEF Lists, Apart
<1>1. /\ Front(list[l]) \in Seq(Entry) /\ IsInjective(Front(list[l])) /\ e \in Entry
      /\ ToSet(Front(list[l])) = ToSet(list[l]) \ {e} /\ e \in ToSet(list[l])
  BY <1>0, FrontIs
<1>. HIDE DEF e
<1>2. \A n \in Segment : n # l => e \notin ToSet(list[n])
  BY <1>1 DEF Lists, Apart
<1>3. /\ <<e>> \o list[m] \in Seq(Entry) /\ IsInjective(<<e>> \o list[m])
      /\ ToSet(<<e>> \o list[m]) = ToSet(list[m]) \cup {e}
  BY <1>0, <1>1, <1>2, PushIs
<1>4. list' = [list EXCEPT ![l] = Front(@), ![m] = <<e>> \o @]
  BY DEF Shift, e
<1>5. \A n \in Segment : list'[n] = IF n = l THEN Front(list[l])
                                    ELSE IF n = m THEN <<e>> \o list[m] ELSE list[n]
  BY <1>4 DEF Lists
<1>6. list' \in [Segment -> Seq(Entry)]
  BY <1>1, <1>3, <1>4 DEF Lists
<1>7. \A n \in Segment : IsInjective(list'[n]) /\ ToSet(list'[n]) = X[n]
  BY <1>0, <1>1, <1>3, <1>5
<1>8. \A n, o \in Segment : n # o => X[n] \cap X[o] = {}
  BY <1>2 DEF Lists, Apart
<1>9. UNION {X[n] : n \in Segment} = Listed
  BY <1>1 DEF Listed
<1>10. X \in [Segment -> SUBSET Entry]
  BY <1>0, <1>1
<1>. HIDE DEF X
<1>. QED BY <1>6, <1>7, <1>8, <1>9, <1>10, ListsFrom

\* A hit takes an entry out of its list and puts it first in one.
LEMMA AccessLists ==
  ASSUME Lists, NEW e \in Listed, NEW up \in Segment,
         list' = [l \in Segment |-> (IF l = up THEN <<e>> ELSE <<>>) \o Without(list[l], {e})]
  PROVE  Lists' /\ Listed' = Listed
<1>. DEFINE W(l) == Without(list[l], {e})
            X == [l \in Segment |-> IF l = up THEN (ToSet(list[l]) \ {e}) \cup {e}
                                              ELSE ToSet(list[l]) \ {e}]
<1>0. e \in Entry
  BY ListedEntries DEF Lists
<1>1. \A l \in Segment : /\ W(l) \in Seq(Entry) /\ IsInjective(W(l))
                         /\ ToSet(W(l)) = ToSet(list[l]) \ {e} /\ ToSet(list[l]) \subseteq Entry
  BY WithoutIs, SetOfIs DEF Lists, Apart
<1>2. \A l \in Segment : list'[l] = IF l = up THEN <<e>> \o W(l) ELSE << >> \o W(l)
  OBVIOUS
<1>. HIDE DEF W
<1>3. \A l \in Segment : << >> \o W(l) = W(l)
  BY <1>1
<1>4. \A l \in Segment : /\ <<e>> \o W(l) \in Seq(Entry) /\ IsInjective(<<e>> \o W(l))
                         /\ ToSet(<<e>> \o W(l)) = (ToSet(list[l]) \ {e}) \cup {e}
  <2>. SUFFICES ASSUME NEW l \in Segment
                PROVE  /\ <<e>> \o W(l) \in Seq(Entry) /\ IsInjective(<<e>> \o W(l))
                       /\ ToSet(<<e>> \o W(l)) = (ToSet(list[l]) \ {e}) \cup {e}
    OBVIOUS
  <2>1. W(l) \in Seq(Entry) /\ IsInjective(W(l)) /\ e \notin ToSet(W(l))
    BY <1>1
  <2>2. /\ <<e>> \o W(l) \in Seq(Entry) /\ IsInjective(<<e>> \o W(l))
        /\ ToSet(<<e>> \o W(l)) = ToSet(W(l)) \cup {e}
    BY <1>0, <2>1, PushIs
  <2>. QED BY <1>1, <2>2
<1>5. \A l \in Segment : /\ list'[l] \in Seq(Entry) /\ IsInjective(list'[l])
                         /\ ToSet(list'[l]) = X[l]
  <2>. SUFFICES ASSUME NEW l \in Segment
                PROVE  /\ list'[l] \in Seq(Entry) /\ IsInjective(list'[l])
                       /\ ToSet(list'[l]) = X[l]
    OBVIOUS
  <2>1. CASE l = up
    BY <1>2, <1>4, <2>1
  <2>2. CASE l # up
    <3>1. list'[l] = W(l)
      BY <1>2, <1>3, <2>2
    <3>. QED BY <1>1, <2>2, <3>1
  <2>. QED BY <2>1, <2>2
<1>6. list' \in [Segment -> Seq(Entry)]
  BY <1>5
<1>7. \A l, m \in Segment : l # m => X[l] \cap X[m] = {}
  BY DEF Lists, Apart
<1>8. UNION {X[l] : l \in Segment} = Listed
  <2>1. \A x : (\E l \in Segment : x \in X[l]) <=> (\E l \in Segment : x \in ToSet(list[l]))
    BY ListedIs
  <2>. QED BY <2>1, ListedIs
<1>9. X \in [Segment -> SUBSET Entry]
  BY <1>0, <1>1
<1>. HIDE DEF X
<1>. QED BY <1>5, <1>6, <1>7, <1>8, <1>9, ListsFrom

-----------------------------------------------------------------------------
(* Weights.                                                                *)

LEMMA SumIs ==
  ASSUME NEW S, IsFiniteSet(S), NEW f, NEW g, IsSum(g, f, S)
  PROVE  g[S] = SumOver(f, S)
<1>1. PICK i : IsSum(i, f, S) /\ \A s \in SUBSET S : i[s] = SumOver(f, s)
  BY SumOf
<1>2. g[S] = i[S]
  BY <1>1, SumSame
<1>. QED BY <1>1, <1>2

LEMMA WeightsUnfold ==
  ASSUME NEW S, IsFiniteSet(S), NEW d
  PROVE  MapThenSumSet(LAMBDA e : d[e].weight, S) = Total(d, S)
<1>. DEFINE f == [e \in S |-> d[e].weight]
            Is(g) == g = [t \in SUBSET S |->
                            IF t = {} THEN 0 ELSE d[Pick(t)].weight + g[t \ {Pick(t)}]]
<1>1. MapThenSumSet(LAMBDA e : d[e].weight, S) = (CHOOSE g : Is(g))[S]
  BY DEF MapThenSumSet, MapThenFoldSet, Pick
<1>2. \A t \in SUBSET S : t # {} => f[Pick(t)] = d[Pick(t)].weight
  <2>1. \A t \in SUBSET S : t # {} => Pick(t) \in S
    BY DEF Pick
  <2>. QED BY <2>1
<1>. HIDE DEF f
<1>3. \A g : Is(g) <=> IsSum(g, f, S)
  BY <1>2 DEF IsSum
<1>4. \E g : Is(g)
  BY <1>3, SumExists
<1>. HIDE DEF Is
<1>5. PICK g : g = (CHOOSE h : Is(h))
  OBVIOUS
<1>6. IsSum(g, f, S)
  BY <1>3, <1>4, <1>5
<1>. QED BY <1>1, <1>5, <1>6, SumIs DEF f, Total

LEMMA LengthUnfold ==
  ASSUME NEW S, IsFiniteSet(S), NEW d, NEW s
  PROVE  MapThenSumSet(LAMBDA i : d[s[i]].weight, S) = TotalAt(d, s, S)
<1>. DEFINE f == [i \in S |-> d[s[i]].weight]
            Is(g) == g = [t \in SUBSET S |->
                            IF t = {} THEN 0 ELSE d[s[Pick(t)]].weight + g[t \ {Pick(t)}]]
<1>1. MapThenSumSet(LAMBDA i : d[s[i]].weight, S) = (CHOOSE g : Is(g))[S]
  BY DEF MapThenSumSet, MapThenFoldSet, Pick
<1>2. \A t \in SUBSET S : t # {} => f[Pick(t)] = d[s[Pick(t)]].weight
  <2>1. \A t \in SUBSET S : t # {} => Pick(t) \in S
    BY DEF Pick
  <2>. QED BY <2>1
<1>. HIDE DEF f
<1>3. \A g : Is(g) <=> IsSum(g, f, S)
  BY <1>2 DEF IsSum
<1>4. \E g : Is(g)
  BY <1>3, SumExists
<1>. HIDE DEF Is
<1>5. PICK g : g = (CHOOSE h : Is(h))
  OBVIOUS
<1>6. IsSum(g, f, S)
  BY <1>3, <1>4, <1>5
<1>. QED BY <1>1, <1>5, <1>6, SumIs DEF f, TotalAt

\* A list's length and the cost of as many saved entries are the same sum.
LEMMA LengthIsCost ==
  ASSUME NEW S, IsFiniteSet(S), NEW d, NEW s, NEW t,
         \A i \in S : d[s[i]].weight = t[i].weight
  PROVE  TotalAt(d, s, S) = Total(t, S)
<1>. DEFINE f == [i \in S |-> d[s[i]].weight]
            h == [i \in S |-> t[i].weight]
<1>1. \A i \in S : f[i] = h[i]
  OBVIOUS
<1>. HIDE DEF f, h
<1>2. SumOver(f, S) = SumOver(h, S)
  BY <1>1, SumEqual
<1>. QED BY <1>2 DEF f, h, TotalAt, Total

LEMMA TotalNone == ASSUME NEW d PROVE Total(d, {}) = 0
  BY SumEmpty DEF Total

LEMMA TotalEqual ==
  ASSUME NEW S, IsFiniteSet(S), NEW d, NEW t, \A i \in S : d[i].weight = t[i].weight
  PROVE  Total(d, S) = Total(t, S)
<1>. DEFINE f == [i \in S |-> d[i].weight]
            h == [i \in S |-> t[i].weight]
<1>1. \A i \in S : f[i] = h[i]
  OBVIOUS
<1>. HIDE DEF f, h
<1>2. SumOver(f, S) = SumOver(h, S)
  BY <1>1, SumEqual
<1>. QED BY <1>2 DEF f, h, Total

LEMMA TotalInt ==
  ASSUME NEW S, IsFiniteSet(S), NEW d, \A i \in S : d[i].weight \in Int
  PROVE  Total(d, S) \in Int
<1>. DEFINE f == [i \in S |-> d[i].weight]
<1>1. \A i \in S : f[i] \in Int
  OBVIOUS
<1>. HIDE DEF f
<1>2. SumOver(f, S) \in Int
  BY <1>1, SumInt
<1>. QED BY <1>2 DEF f, Total

LEMMA TotalWithout ==
  ASSUME NEW S, IsFiniteSet(S), NEW d, \A i \in S : d[i].weight \in Int, NEW e \in S
  PROVE  Total(d, S) = d[e].weight + Total(d, S \ {e})
<1>. DEFINE f == [i \in S |-> d[i].weight]
            h == [i \in S \ {e} |-> d[i].weight]
<1>1. /\ \A i \in S : f[i] \in Int
      /\ f[e] = d[e].weight
      /\ \A i \in S \ {e} : f[i] = h[i]
  OBVIOUS
<1>2. Total(d, S) = SumOver(f, S) /\ Total(d, S \ {e}) = SumOver(h, S \ {e})
  BY DEF Total
<1>. HIDE DEF f, h
<1>3. IsFiniteSet(S \ {e})
  BY FS_Subset
<1>4. SumOver(f, S) = f[e] + SumOver(f, S \ {e})
  BY <1>1, SumWithout
<1>5. SumOver(f, S \ {e}) = SumOver(h, S \ {e})
  BY <1>1, <1>3, SumEqual
<1>. QED BY <1>1, <1>2, <1>4, <1>5

\* Taking out part of a set takes off its weight.
LEMMA TotalLess ==
  ASSUME NEW S, IsFiniteSet(S), NEW d, \A i \in S : d[i].weight \in Int, NEW T \in SUBSET S
  PROVE  Total(d, S \ T) = Total(d, S) - Total(d, T)
<1>. DEFINE Bad == {t \in SUBSET S : Total(d, S \ t) # Total(d, S) - Total(d, t)}
<1>. SUFFICES ASSUME Bad # {} PROVE FALSE
  OBVIOUS
<1>1. PICK t \in Bad : \A x \in t : t \ {x} \notin Bad
  <2>1. Bad \in SUBSET (SUBSET S)
    OBVIOUS
  <2>. HIDE DEF Bad
  <2>. QED BY <2>1, Smallest
<1>2. \A s \in SUBSET S : /\ IsFiniteSet(s) /\ Total(d, s) \in Int
                          /\ \A i \in s : d[i].weight \in Int
  <2>. SUFFICES ASSUME NEW s \in SUBSET S
                PROVE  IsFiniteSet(s) /\ Total(d, s) \in Int /\ \A i \in s : d[i].weight \in Int
    OBVIOUS
  <2>1. IsFiniteSet(s) /\ \A i \in s : d[i].weight \in Int
    BY FS_Subset
  <2>. QED BY <2>1, TotalInt
<1>3. CASE t = {}
  <2>1. Total(d, t) = 0 /\ S \ t = S /\ Total(d, S) \in Int
    BY <1>2, <1>3, TotalNone
  <2>2. Total(d, S \ t) # Total(d, S) - Total(d, t)
    BY <1>1
  <2>3. \A n \in Int : n - 0 = n
    OBVIOUS
  <2>. QED BY <2>1, <2>2, <2>3
<1>4. CASE t # {}
  <2>1. PICK x \in t : TRUE
    BY <1>4
  <2>. DEFINE u == t \ {x}
              a == S \ u
  <2>2. /\ u \in SUBSET S /\ a \in SUBSET S /\ S \ t \in SUBSET S /\ t \in SUBSET S
        /\ x \in a /\ a \ {x} = S \ t /\ x \in S
    OBVIOUS
  <2>3. Total(d, a) = Total(d, S) - Total(d, u)
    BY <1>1
  <2>4. Total(d, t) = d[x].weight + Total(d, u)
    BY <1>2, TotalWithout
  <2>. HIDE DEF u, a
  <2>5. Total(d, a) = d[x].weight + Total(d, a \ {x})
    <3>1. IsFiniteSet(a) /\ \A i \in a : d[i].weight \in Int
      BY <1>2, <2>2
    <3>. QED BY <2>2, <3>1, TotalWithout
  <2>6. /\ Total(d, t) \in Int /\ Total(d, u) \in Int /\ Total(d, a) \in Int
        /\ Total(d, S) \in Int /\ Total(d, S \ t) \in Int /\ d[x].weight \in Int
    BY <1>2, <2>2
  <2>7. Total(d, S \ t) = Total(d, S) - Total(d, t)
    <3>1. \A w, x1, x2, x3, x4, x5 \in Int :
            x1 = x2 - x3 /\ x4 = w + x3 /\ x1 = w + x5 => x5 = x2 - x4
      OBVIOUS
    <3>2. Total(d, a) = d[x].weight + Total(d, S \ t)
      BY <2>2, <2>5
    <3>. QED BY <2>3, <2>4, <2>6, <3>1, <3>2
  <2>. QED BY <1>1, <2>7
<1>. QED BY <1>3, <1>4

-----------------------------------------------------------------------------
(* How many entries there are.                                             *)

LEMMA ListedCount ==
  ASSUME list \in [Segment -> Seq(Entry)]
  PROVE  Cardinality(Listed) \in 0..MaxEntries /\ Cardinality(Listed) \in Wanted
<1>1. IsFiniteSet(Entry) /\ Cardinality(Entry) = MaxEntries
  <2>1. MaxEntries - 1 + 1 = MaxEntries /\ (1 > MaxEntries => MaxEntries = 0)
    BY BoundsAssumption
  <2>. QED BY <2>1, FS_Interval, BoundsAssumption DEF Entry
<1>2. IsFiniteSet(Listed) /\ Cardinality(Listed) \in Nat /\ Cardinality(Listed) <= MaxEntries
  BY <1>1, ListedEntries, FS_Subset, FS_CardinalityType
<1>3. Cardinality(Listed) \in 0..MaxEntries
  BY <1>2, BoundsAssumption
<1>. QED BY <1>3, WantedAssumption

LEMMA MappedCount ==
  /\ IsFiniteSet(Mapped) /\ Cardinality(Mapped) \in Wanted
  /\ \A k \in Key : Cardinality(Mapped \cup {k}) \in Wanted
  /\ \A k \in Key : map[k] = None => Cardinality(Mapped) + 1 \in Wanted
<1>1. ASSUME NEW S \in SUBSET Key
      PROVE  IsFiniteSet(S) /\ Cardinality(S) \in Wanted
  <2>1. /\ IsFiniteSet(S) /\ Cardinality(S) \in Nat
        /\ Cardinality(Key) \in Nat /\ Cardinality(S) <= Cardinality(Key)
    BY WantedAssumption, FS_Subset, FS_CardinalityType
  <2>2. Cardinality(S) \in 0..Cardinality(Key)
    BY <2>1
  <2>. QED BY <2>1, <2>2, WantedAssumption
<1>2. Mapped \in SUBSET Key /\ \A k \in Key : Mapped \cup {k} \in SUBSET Key
  BY DEF Mapped
<1>3. ASSUME NEW k \in Key, map[k] = None PROVE Cardinality(Mapped) + 1 \in Wanted
  <2>1. k \notin Mapped
    BY <1>3 DEF Mapped
  <2>2. Cardinality(Mapped \cup {k}) = Cardinality(Mapped) + 1
    BY <1>1, <1>2, <2>1, FS_AddElement
  <2>. QED BY <1>1, <1>2, <2>2
<1>. QED BY <1>1, <1>2, <1>3

LEMMA UnusedEntry ==
  ASSUME Unused # {}
  PROVE  Min(Unused) \in Unused /\ Min(Unused) \in Entry
<1>1. Unused \in SUBSET Nat /\ Unused \subseteq Entry
  BY BoundsAssumption DEF Unused, Entry
<1>2. \E x \in Unused : \A y \in Unused : x <= y
  BY <1>1, Least
<1>. QED BY <1>1, <1>2 DEF Min

-----------------------------------------------------------------------------
(* The filters: whatever a step does to them is a step of theirs.          *)

FilterStep == SketchStep /\ DoorStep

LEMMA FilterSame == UNCHANGED <<sketchVars, doorVars>> => FilterStep
  BY DEF FilterStep, SketchStep, DoorStep

LEMMA SetFilters ==
  ASSUME TypesStore, NEW k \in Key, NEW ttl, Set(k, ttl)
  PROVE  FilterStep
<1>1. SketchStep
  BY DEF Set, SketchStep
<1>. SUFFICES DoorStep
  BY <1>1 DEF FilterStep
<1>2. CASE SetExisting(k, ttl)
  BY <1>2 DEF SetExisting, DoorStep
<1>3. CASE SetRefused(k, ttl)
  <2>1. Cardinality(Mapped) + 1 \in Wanted
    BY <1>3, MappedCount DEF SetRefused
  <2>. QED BY <1>3, <2>1 DEF SetRefused, DoorStep
<1>4. CASE SetNew(k, ttl)
  <2>1. Cardinality(Mapped) + 1 \in Wanted
    BY <1>4, MappedCount DEF SetNew
  <2>. QED BY <1>4, <2>1 DEF SetNew, DoorStep
<1>. QED BY <1>2, <1>3, <1>4 DEF Set

LEMMA SinkFilters ==
  ASSUME Keyed, NEW p \in pending, Sink(p)
  PROVE  FilterStep
<1>1. DoorStep
  BY DEF Sink, DoorStep
<1>2. CASE p.code = "NEW" /\ SinkNew(p.entry)
  <2>1. data[p.entry].key \in Key
    BY DEF Keyed
  <2>. QED BY <1>1, <1>2, <2>1 DEF SinkNew, SketchStep, FilterStep
<1>3. CASE SinkUpdate(p.entry) \/ SinkRemove(p.entry)
  BY <1>1, <1>3 DEF SinkUpdate, SinkRemove, SketchStep, FilterStep
<1>. QED BY <1>2, <1>3 DEF Sink

LEMMA RoomFilters ==
  ASSUME TypesStore, MakeRoom
  PROVE  FilterStep
<1>1. DoorStep
  BY DEF MakeRoom, DoorStep
<1>2. CASE Settled
  <2>1. Cardinality(Listed) \in Wanted
    BY ListedCount DEF TypesStore
  <2>. QED BY <1>1, <1>2, <2>1 DEF Settled, SketchStep, FilterStep
<1>3. CASE Demote \/ FromWindow \/ Evict
  BY <1>1, <1>3 DEF Demote, FromWindow, Evict, SketchStep, FilterStep
<1>. QED BY <1>2, <1>3 DEF MakeRoom

LEMMA AccessFilters ==
  ASSUME Keyed, NEW e \in Listed, Access(e)
  PROVE  FilterStep
<1>1. data[e].key \in Key
  BY DEF Keyed
<1>. QED BY <1>1 DEF Access, SketchStep, DoorStep, FilterStep

LEMMA PersistFilters == ASSUME Persist PROVE FilterStep
  BY DEF Persist, NewStore, NewFilters, SketchStep, DoorStep, FilterStep

-----------------------------------------------------------------------------
(* The store that is saved: steps of its clients and of its policy.        *)

\* What such a step has to keep.
Live == TypesStore /\ Apart /\ Keyed /\ \A e \in Entry : Timed(data[e], start)

\* A cached deadline as Set computes it.
LEMMA TimedNew ==
  ASSUME TypesClock, NEW k, NEW ttl \in Nat, ttl > 0
  PROVE  /\ ExpireNano(ttl) \in Nat /\ now + ttl \in Nat
         /\ \A w : Timed([key |-> k, weight |-> w, expire |-> ExpireNano(ttl),
                          due |-> now + ttl], start)
  BY BoundsAssumption DEF TypesClock, ExpireNano, NowNano, AtMost, Timed

LEMMA NewEntryTyped ==
  ASSUME TypesStore, NEW k \in Key, NEW e \in Entry, NEW x \in Nat, NEW due \in Nat,
         NewEntry(k, e, x, due)
  PROVE  /\ data' \in [Entry -> EntryType]
         /\ data'[e] = [key |-> k, weight |-> Cost[k], expire |-> x, due |-> due]
         /\ \A f \in Entry : f # e => data'[f] = data[f]
<1>1. [key |-> k, weight |-> Cost[k], expire |-> x, due |-> due] \in EntryType
  BY CallAssumption DEF EntryType
<1>. QED BY <1>1 DEF NewEntry, TypesStore

LEMMA SetLive ==
  ASSUME Types, Live, NEW k \in Key, NEW ttl \in Nat, Set(k, ttl)
  PROVE  Live'
<1>0. UNCHANGED <<list, phase, settling, sizes, start>> /\ Listed' = Listed
  BY DEF Set, timeVars, Listed
<1>1. CASE SetRefused(k, ttl)
  BY <1>0, <1>1 DEF SetRefused, Live, TypesStore, Apart, Keyed, Mapped
<1>2. CASE SetExisting(k, ttl) /\ ~(ttl > 0)
  BY <1>0, <1>2 DEF SetExisting, Live, TypesStore, Apart, Keyed, Mapped
<1>3. CASE SetExisting(k, ttl) /\ ttl > 0
  <2>. DEFINE e == map[k]
              q == [code |-> "UPDATE", entry |-> e]
  <2>1. /\ e \in Entry /\ NewEntry(k, e, ExpireNano(ttl), now + ttl)
        /\ pending' = pending \cup {q} /\ UNCHANGED map
    BY <1>3 DEF SetExisting, Types, TypesStore
  <2>2. /\ ExpireNano(ttl) \in Nat /\ now + ttl \in Nat
        /\ \A w : Timed([key |-> k, weight |-> w, expire |-> ExpireNano(ttl),
                         due |-> now + ttl], start)
    BY <1>3, TimedNew DEF Types
  <2>. HIDE DEF e
  <2>3. /\ data' \in [Entry -> EntryType] /\ data'[e].key = k
        /\ Timed(data'[e], start)
        /\ \A f \in Entry : f # e => data'[f] = data[f]
    <3>1. TypesStore
      BY DEF Types
    <3>2. /\ data' \in [Entry -> EntryType]
          /\ data'[e] = [key |-> k, weight |-> Cost[k], expire |-> ExpireNano(ttl), due |-> now + ttl]
          /\ \A f \in Entry : f # e => data'[f] = data[f]
      BY <2>1, <2>2, <3>1, NewEntryTyped
    <3>3. data'[e].key = k
      BY <3>2
    <3>4. Timed(data'[e], start)
      BY <2>2, <3>2
    <3>. QED BY <3>2, <3>3, <3>4
  <2>4. q \in [code : Code, entry : Entry] /\ q.code = "UPDATE" /\ q.entry = e
    BY <2>1 DEF Code
  <2>5. TypesStore'
    BY <1>0, <2>1, <2>3, <2>4 DEF Live, TypesStore
  <2>6. \A f \in Entry : data[f].key \in Key => data'[f].key \in Key
    BY <2>3
  <2>7. Keyed'
    <3>1. \A f \in Listed : data'[f].key \in Key
      BY <2>6, ListedEntries DEF Live, Keyed, TypesStore
    <3>2. \A p \in pending' : data'[p.entry].key \in Key
      BY <2>1, <2>3, <2>4, <2>6 DEF Live, Keyed, TypesStore
    <3>3. \A j \in Mapped : data'[map[j]].key \in Key
      BY <2>6 DEF Live, Keyed, TypesStore, Mapped
    <3>4. \A p \in pending' : p.code = "NEW" => p.entry \notin Listed
      BY <2>1, <2>4 DEF Live, Keyed
    <3>. QED BY <1>0, <2>1, <3>1, <3>2, <3>3, <3>4 DEF Keyed, Mapped
  <2>8. Apart'
    BY <1>0 DEF Live, Apart
  <2>9. \A f \in Entry : Timed(data'[f], start)
    BY <2>3 DEF Live
  <2>. QED BY <1>0, <2>5, <2>7, <2>8, <2>9 DEF Live
<1>4. CASE SetNew(k, ttl)
  <2>. DEFINE e == Min(Unused)
              x == IF ttl = 0 THEN 0 ELSE ExpireNano(ttl)
              due == IF ttl = 0 THEN 0 ELSE now + ttl
              q == [code |-> "NEW", entry |-> e]
  <2>1. /\ e \in Entry /\ e \in Unused /\ NewEntry(k, e, x, due)
        /\ pending' = pending \cup {q} /\ map' = [map EXCEPT ![k] = e]
    BY <1>4, UnusedEntry DEF SetNew
  <2>2. /\ x \in Nat /\ due \in Nat
        /\ \A w : Timed([key |-> k, weight |-> w, expire |-> x, due |-> due], start)
    <3>1. CASE ttl = 0
      BY <3>1 DEF Timed
    <3>2. CASE ttl > 0
      BY <3>2, TimedNew DEF Types
    <3>. QED BY <3>1, <3>2
  <2>. HIDE DEF e, x, due
  <2>3. /\ data' \in [Entry -> EntryType] /\ data'[e].key = k
        /\ Timed(data'[e], start)
        /\ \A f \in Entry : f # e => data'[f] = data[f]
    <3>1. TypesStore
      BY DEF Types
    <3>2. /\ data' \in [Entry -> EntryType]
          /\ data'[e] = [key |-> k, weight |-> Cost[k], expire |-> x, due |-> due]
          /\ \A f \in Entry : f # e => data'[f] = data[f]
      BY <2>1, <2>2, <3>1, NewEntryTyped
    <3>3. data'[e].key = k
      BY <3>2
    <3>4. Timed(data'[e], start)
      BY <2>2, <3>2
    <3>. QED BY <3>2, <3>3, <3>4
  <2>4. q \in [code : Code, entry : Entry] /\ q.entry = e
    BY <2>1 DEF Code
  <2>5. TypesStore'
    BY <1>0, <2>1, <2>3, <2>4 DEF Live, TypesStore
  <2>6. \A f \in Entry : data[f].key \in Key => data'[f].key \in Key
    BY <2>3
  <2>7. Keyed'
    <3>1. \A f \in Listed : data'[f].key \in Key
      BY <2>6, ListedEntries DEF Live, Keyed, TypesStore
    <3>2. \A p \in pending' : data'[p.entry].key \in Key
      BY <2>1, <2>3, <2>4, <2>6 DEF Live, Keyed, TypesStore
    <3>3. ASSUME NEW j \in Key, map'[j] # None PROVE data'[map'[j]].key \in Key
      <4>1. CASE j = k
        BY <2>1, <2>3, <4>1 DEF Live, TypesStore
      <4>2. CASE j # k
        <5>1. map'[j] = map[j] /\ map[j] \in Entry /\ data[map[j]].key \in Key
          BY <2>1, <3>3, <4>2 DEF Live, TypesStore, Keyed, Mapped
        <5>. QED BY <2>6, <5>1
      <4>. QED BY <4>1, <4>2
    <3>4. e \notin Listed
      BY <2>1 DEF Unused
    <3>5. \A p \in pending' : p.code = "NEW" => p.entry \notin Listed
      BY <2>1, <2>4, <3>4 DEF Live, Keyed
    <3>. QED BY <1>0, <3>1, <3>2, <3>3, <3>5 DEF Keyed, Mapped
  <2>8. Apart'
    BY <1>0 DEF Live, Apart
  <2>9. \A f \in Entry : Timed(data'[f], start)
    BY <2>3 DEF Live
  <2>. QED BY <1>0, <2>5, <2>7, <2>8, <2>9 DEF Live
<1>. QED BY <1>1, <1>2, <1>3, <1>4 DEF Set

LEMMA DeleteLive ==
  ASSUME Live, NEW k \in Key, Delete(k)
  PROVE  Live'
<1>. DEFINE q == [code |-> "REMOVE", entry |-> map[k]]
<1>1. /\ map[k] \in Entry /\ map[k] # None /\ map' = [map EXCEPT ![k] = None]
      /\ pending' = pending \cup {q}
      /\ UNCHANGED <<list, phase, settling, sizes, data, start>>
  BY DEF Delete, Live, TypesStore, listVars, timeVars
<1>2. q \in [code : Code, entry : Entry] /\ q.code = "REMOVE" /\ q.entry = map[k]
  BY <1>1 DEF Code
<1>3. TypesStore'
  BY <1>1, <1>2 DEF Live, TypesStore
<1>4. Listed' = Listed
  BY <1>1 DEF Listed
<1>5. \A j \in Key : map'[j] # None => map'[j] = map[j]
  BY <1>1 DEF Live, TypesStore
<1>6. Keyed'
  <2>1. \A p \in pending' : data[p.entry].key \in Key
    BY <1>1, <1>2 DEF Live, Keyed, Mapped
  <2>2. \A j \in Key : map'[j] # None => data[map'[j]].key \in Key
    BY <1>5 DEF Live, Keyed, Mapped
  <2>3. \A p \in pending' : p.code = "NEW" => p.entry \notin Listed
    BY <1>1, <1>2 DEF Live, Keyed
  <2>. QED BY <1>1, <1>4, <2>1, <2>2, <2>3 DEF Live, Keyed, Mapped
<1>. QED BY <1>1, <1>3, <1>6 DEF Live, Apart

\* The lists lose entries es, the map perhaps too, and events are dealt with.
LEMMA LoseLive ==
  ASSUME Live, NEW es, list' = [l \in Segment |-> Without(list[l], es)],
         Unmap(es) \/ UNCHANGED map, pending' \subseteq pending,
         phase' \in Phase, settling' \in BOOLEAN, UNCHANGED <<sizes, data, start>>
  PROVE  Live' /\ Listed' = Listed \ es
<1>1. Lists' /\ Listed' = Listed \ es
  BY UnlistLists DEF Live, TypesStore, Lists
<1>2. map' \in [Key -> Entry \cup {None}] /\ \A k \in Key : map'[k] # None => map'[k] = map[k]
  <2>1. CASE Unmap(es)
    BY <2>1 DEF Unmap, Live, TypesStore
  <2>2. CASE UNCHANGED map
    BY <2>2 DEF Live, TypesStore
  <2>. QED BY <2>1, <2>2
<1>3. TypesStore'
  BY <1>1, <1>2 DEF Live, TypesStore, Lists
<1>4. Keyed'
  BY <1>1, <1>2 DEF Live, Keyed, Mapped
<1>. QED BY <1>1, <1>3, <1>4 DEF Live, Lists

\* The lists hold the same entries in other places.
LEMMA MoveLive ==
  ASSUME Live, Lists', Listed' = Listed, phase' \in Phase, settling' \in BOOLEAN,
         UNCHANGED <<sizes, map, data, pending, start>>
  PROVE  Live'
  BY DEF Live, TypesStore, Lists, Keyed, Mapped

LEMMA SinkLive ==
  ASSUME Live, NEW p \in pending, Sink(p)
  PROVE  Live'
<1>. DEFINE e == p.entry
<1>0. /\ UNCHANGED <<phase, sizes, data, start>> /\ pending' \subseteq pending
      /\ phase' \in Phase /\ settling \in BOOLEAN /\ e \in Entry
  BY DEF Sink, Live, TypesStore, timeVars
<1>1. CASE p.code = "NEW" /\ SinkNew(e) /\ Expired(e, NowNano)
  <2>1. /\ list' = [l \in Segment |-> Without(list[l], {e})] /\ Unmap({e})
        /\ UNCHANGED settling
    BY <1>1 DEF SinkNew, Unlist
  <2>. QED BY <1>0, <2>1, LoseLive
<1>2. CASE p.code = "NEW" /\ SinkNew(e) /\ ~Expired(e, NowNano)
  <2>1. /\ list' = [list EXCEPT !["window"] = <<e>> \o @] /\ settling' = TRUE
        /\ UNCHANGED map /\ pending' = pending \ {p}
    BY <1>2 DEF SinkNew, Sink
  <2>2. e \notin Listed /\ data[e].key \in Key
    BY <1>2 DEF Live, Keyed
  <2>3. Lists' /\ Listed' = Listed \cup {e}
    BY <1>0, <2>1, <2>2, PushLists DEF Live, TypesStore, Lists, Segment
  <2>4. TypesStore'
    BY <1>0, <2>1, <2>3 DEF Live, TypesStore, Lists
  <2>5. \A q \in pending' : q.code = "NEW" => q.entry # e
    <3>. SUFFICES ASSUME NEW q \in pending, q.code = "NEW", q.entry = e PROVE q = p
      BY <2>1
    <3>. QED BY <1>2 DEF Live, TypesStore
  <2>6. Keyed'
    BY <1>0, <2>1, <2>2, <2>3, <2>5 DEF Live, Keyed, Mapped
  <2>. QED BY <1>0, <2>3, <2>4, <2>6 DEF Live, Lists
<1>3. CASE p.code = "UPDATE" /\ SinkUpdate(e)
  <2>1. UNCHANGED <<list, map, settling>>
    BY <1>3 DEF SinkUpdate
  <2>. QED BY <1>0, <2>1 DEF Live, TypesStore, Apart, Keyed, Mapped, Listed
<1>4. CASE p.code = "REMOVE" /\ SinkRemove(e)
  <2>1. /\ list' = [l \in Segment |-> Without(list[l], {e})] /\ UNCHANGED <<settling, map>>
    BY <1>4 DEF SinkRemove, Unlist
  <2>. QED BY <1>0, <2>1, LoseLive
<1>. QED BY <1>1, <1>2, <1>3, <1>4 DEF Sink

\* A list with a length has a last entry.
LEMMA Lengthy ==
  ASSUME TypesStore, NEW l \in Segment, NEW n \in Nat, Len_(l) > n
  PROVE  list[l] # << >>
<1>. SUFFICES ASSUME list[l] = << >> PROVE FALSE
  OBVIOUS
<1>1. DOMAIN list[l] = {} /\ IsFiniteSet({})
  BY FS_EmptySet
<1>2. Len_(l) = TotalAt(data, list[l], {})
  BY <1>1, LengthUnfold DEF Len_
<1>3. Len_(l) = 0
  BY <1>2, SumEmpty DEF TotalAt
<1>. QED BY <1>3

LEMMA RoomLive ==
  ASSUME Live, MakeRoom
  PROVE  Live'
<1>0. UNCHANGED <<phase, sizes, data, pending, start>> /\ phase \in Phase
      /\ settling' \in BOOLEAN /\ sizes.protected \in Nat /\ sizes.window \in Nat
  BY DEF MakeRoom, Demote, FromWindow, Evict, Settled, Live, TypesStore, timeVars
<1>1. CASE Demote
  <2>1. list["protected"] # << >> /\ Shift("protected", "probation") /\ UNCHANGED map
    BY <1>0, <1>1, Lengthy DEF Demote, Live, Segment
  <2>2. Lists' /\ Listed' = Listed
    BY <2>1, ShiftLists DEF Live, TypesStore, Lists, Segment
  <2>. QED BY <1>0, <2>1, <2>2, MoveLive
<1>2. CASE FromWindow
  <2>1. list["window"] # << >> /\ Shift("window", "probation") /\ UNCHANGED map
    BY <1>0, <1>2, Lengthy DEF FromWindow, Live, Segment
  <2>2. Lists' /\ Listed' = Listed
    BY <2>1, ShiftLists DEF Live, TypesStore, Lists, Segment
  <2>. QED BY <1>0, <2>1, <2>2, MoveLive
<1>3. CASE Evict
  <2>1. PICK e \in Listed : Unlist({e}) /\ Unmap({e})
    BY <1>3 DEF Evict
  <2>2. list' = [l \in Segment |-> Without(list[l], {e})] /\ pending' \subseteq pending
    BY <1>0, <2>1 DEF Unlist
  <2>. QED BY <1>0, <2>1, <2>2, LoseLive
<1>4. CASE Settled
  BY <1>0, <1>4 DEF Settled, listVars, Live, TypesStore, Apart, Keyed, Mapped, Listed
<1>. QED BY <1>1, <1>2, <1>3, <1>4 DEF MakeRoom

LEMMA AccessLive ==
  ASSUME Live, NEW e \in Listed, Access(e)
  PROVE  Live'
<1>. DEFINE up == IF e \in ToSet(list["window"]) THEN "window" ELSE "protected"
<1>1. /\ up \in Segment
      /\ list' = [l \in Segment |-> (IF l = up THEN <<e>> ELSE <<>>) \o Without(list[l], {e})]
      /\ UNCHANGED <<phase, settling, sizes, map, data, pending, start>>
      /\ phase \in Phase /\ settling \in BOOLEAN
  BY DEF Access, Segment, Live, TypesStore, timeVars
<1>. HIDE DEF up
<1>2. Lists' /\ Listed' = Listed
  BY <1>1, AccessLists DEF Live, TypesStore, Lists
<1>. QED BY <1>1, <1>2, MoveLive


-----------------------------------------------------------------------------
(* A step of the store that is saved keeps the whole invariant.            *)

LEMMA FilterKeeps == FiltersInv /\ FilterStep => FiltersInv'
  BY FiltersStep DEF FilterStep, AdmissionNext

LEMMA LiveKeeps ==
  ASSUME Inv, phase = "live", UNCHANGED <<phase, timeVars, fileVars, at>>, Live', FilterStep
  PROVE  Inv'
<1>1. phase' = "live" /\ UNCHANGED <<now, start, cached, ticked, file, saved, good, at>>
  BY DEF timeVars, fileVars
<1>2. Types'
  BY <1>1 DEF Inv, Live, Types, TypesClock, TypesFile, NowNano
<1>3. Apart' /\ Keyed'
  BY DEF Live
<1>4. Quiet' /\ Layout' /\ Reading' /\ Whole' /\ Faithful'
  BY <1>1 DEF Quiet, Unread, Layout, Reading, Whole, Faithful, Loading
<1>5. AllTimed'
  BY <1>1 DEF Inv, Live, AllTimed
<1>6. Ticking'
  BY <1>1 DEF Inv, Ticking, NowNano
<1>7. FiltersInv'
  BY FilterKeeps DEF Inv
<1>. QED BY <1>2, <1>3, <1>4, <1>5, <1>6, <1>7 DEF Inv

LEMMA InvLive == Inv => Live
  BY DEF Inv, Types, Live, AllTimed

LEMMA SetKeeps ==
  ASSUME Inv, NEW c \in Call, Set(c[1], c[2])
  PROVE  Inv' /\ FilterStep
<1>1. c[1] \in Key /\ c[2] \in Nat
  BY CallAssumption
<1>2. Live'
  BY <1>1, InvLive, SetLive DEF Inv
<1>3. FilterStep
  BY <1>1, SetFilters DEF Inv, Types
<1>4. phase = "live" /\ UNCHANGED <<phase, timeVars, fileVars, at>>
  BY DEF Set
<1>. QED BY <1>2, <1>3, <1>4, LiveKeeps

LEMMA DeleteKeeps ==
  ASSUME Inv, NEW k \in Key, Delete(k)
  PROVE  Inv' /\ FilterStep
<1>1. Live'
  BY InvLive, DeleteLive
<1>2. FilterStep
  BY FilterSame DEF Delete
<1>3. phase = "live" /\ UNCHANGED <<phase, timeVars, fileVars, at>>
  BY DEF Delete
<1>. QED BY <1>1, <1>2, <1>3, LiveKeeps

LEMMA SinkKeeps ==
  ASSUME Inv, NEW p \in pending, Sink(p)
  PROVE  Inv' /\ FilterStep
<1>1. Live'
  BY InvLive, SinkLive
<1>2. FilterStep
  BY SinkFilters DEF Inv
<1>3. phase = "live" /\ UNCHANGED <<phase, timeVars, fileVars, at>>
  BY DEF Sink
<1>. QED BY <1>1, <1>2, <1>3, LiveKeeps

LEMMA RoomKeeps ==
  ASSUME Inv, MakeRoom
  PROVE  Inv' /\ FilterStep
<1>1. Live'
  BY InvLive, RoomLive
<1>2. FilterStep
  BY RoomFilters DEF Inv, Types
<1>3. phase = "live" /\ UNCHANGED <<phase, timeVars, fileVars, at>>
  BY DEF MakeRoom, Inv, Quiet
<1>. QED BY <1>1, <1>2, <1>3, LiveKeeps

LEMMA AccessKeeps ==
  ASSUME Inv, NEW e \in Listed, Access(e)
  PROVE  Inv' /\ FilterStep
<1>1. Live'
  BY InvLive, AccessLive
<1>2. FilterStep
  BY AccessFilters DEF Inv
<1>3. phase = "live" /\ UNCHANGED <<phase, timeVars, fileVars, at>>
  BY DEF Access
<1>. QED BY <1>1, <1>2, <1>3, LiveKeeps

-----------------------------------------------------------------------------
(* The clock.                                                              *)

\* What Recover made of the file depends on nothing else.
LEMMA RestoredSame ==
  ASSUME NEW l \in Segment, UNCHANGED <<list, data, saved, at, sizes, sketchVars>>
  PROVE  Restored(l)' <=> Restored(l)
<1>1. Taken(l)' = Taken(l)
  BY DEF Taken, InTime, Passed, Before, BlocksOf
<1>2. Base(l)' = Base(l) /\ Limit(l)' = Limit(l)
  BY DEF Base, Limit
<1>3. Estimates' = Estimates
  BY DEF Estimates, Estimate, Places, IndexOf, sketchVars
<1>. QED BY <1>1, <1>2, <1>3 DEF Restored

\* The file and Recover's place in it stay as they are.
LEMMA LayoutSame ==
  ASSUME UNCHANGED <<file, saved>>, phase = "live" <=> phase' = "live"
  PROVE  /\ Layout' <=> Layout
         /\ EndBlock' = EndBlock
         /\ \A l \in Segment : Before(l)' = Before(l) /\ BlocksOf(l)' = BlocksOf(l)
<1>1. \A l \in Segment : Before(l)' = Before(l) /\ BlocksOf(l)' = BlocksOf(l)
  BY DEF Before, BlocksOf
<1>2. EndBlock' = EndBlock
  BY DEF EndBlock, BlocksOf
<1>3. LaidOut' <=> LaidOut
  BY DEF LaidOut, EndBlock, Before, BlocksOf
<1>. QED BY <1>1, <1>2, <1>3 DEF Layout

LEMMA ReadingSame ==
  ASSUME UNCHANGED <<phase, file, saved, at, good>>
  PROVE  Reading' <=> Reading
  BY DEF Reading, EndBlock, BlocksOf, Here

LEMMA ElapseKeeps ==
  ASSUME Inv, Elapse
  PROVE  Inv' /\ FilterStep
<1>1. /\ UNCHANGED <<phase, settling, sizes, map, data, list, wheel, weighted, pending, start,
                     cached, ticked, file, saved, good, at, sketchVars, doorVars>>
      /\ phase # "recovering" /\ now' = now + 1 /\ now + 1 <= MaxTime
      /\ phase = "saved" \/ ~ticked \/ NowNano + 1 - cached < Grace
  BY BoundsAssumption DEF Elapse, listVars, fileVars, Inv, Types, TypesClock
<1>2. FilterStep
  BY <1>1, FilterSame
<1>3. Listed' = Listed /\ Mapped' = Mapped
  BY <1>1 DEF Listed, Mapped
<1>4. Types'
  BY <1>1, BoundsAssumption DEF Inv, Types, TypesStore, TypesClock, TypesFile, NowNano
<1>5. Apart' /\ Keyed'
  BY <1>1, <1>3 DEF Inv, Apart, Keyed
<1>6. Quiet' /\ AllTimed'
  BY <1>1 DEF Inv, Quiet, Unread, AllTimed
<1>7. Ticking'
  BY <1>1, BoundsAssumption DEF Inv, Ticking, NowNano, Types, TypesClock
<1>8. Layout' /\ Reading'
  BY <1>1, LayoutSame, ReadingSame DEF Inv
<1>9. Whole'
  <2>1. SavedTwice' <=> SavedTwice
    BY <1>1 DEF SavedTwice, SavedKeys
  <2>. QED BY <1>1, <1>3, <2>1 DEF Inv, Whole
<1>10. Faithful'
  <2>1. \A l \in Segment : Restored(l)' <=> Restored(l)
    BY <1>1, RestoredSame
  <2>2. EndBlock' = EndBlock
    BY <1>1 DEF EndBlock, BlocksOf
  <2>. QED BY <1>1, <1>3, <2>1, <2>2 DEF Inv, Faithful, Loading
<1>11. FiltersInv'
  BY <1>2, FilterKeeps DEF Inv
<1>. QED BY <1>2, <1>4, <1>5, <1>6, <1>7, <1>8, <1>9, <1>10, <1>11 DEF Inv

LEMMA TickKeeps ==
  ASSUME Inv, Tick
  PROVE  Inv' /\ FilterStep
<1>1. PICK es \in SUBSET {e \in wheel : Expired(e, NowNano)} : Unlist(es) /\ Unmap(es)
  BY DEF Tick
<1>2. /\ UNCHANGED <<phase, settling, sizes, data, pending, now, start, file, saved, good, at,
                     sketchVars, doorVars>>
      /\ phase \in {"live", "loaded"} /\ cached' = NowNano /\ ticked' = TRUE
      /\ list' = [l \in Segment |-> Without(list[l], es)] /\ wheel' = wheel \ es
      /\ weighted' = weighted - Weight(es \cap Listed)
  BY <1>1 DEF Tick, Unlist, fileVars
<1>3. FilterStep
  BY <1>2, FilterSame
<1>4. Live' /\ Listed' = Listed \ es
  <2>1. pending' \subseteq pending /\ phase' \in Phase /\ settling' \in BOOLEAN
    BY <1>2 DEF Inv, Types, TypesStore, Phase
  <2>. QED BY <1>1, <1>2, <2>1, InvLive, LoseLive
<1>5. Types'
  BY <1>2, <1>4 DEF Live, Inv, Types, TypesClock, TypesFile, NowNano
<1>6. Apart' /\ Keyed'
  BY <1>4 DEF Live
<1>7. Quiet' /\ AllTimed' /\ Faithful'
  BY <1>2, <1>4 DEF Live, Inv, Quiet, Unread, AllTimed, Faithful, Loading
<1>8. Ticking'
  BY <1>2, CallAssumption DEF Inv, Ticking, NowNano, Types, TypesClock
<1>9. Layout' /\ Reading'
  BY <1>2, LayoutSame, ReadingSame DEF Inv
<1>10. Whole'
  <2>. SUFFICES ASSUME phase = "loaded" PROVE Whole'
    BY <1>2 DEF Whole
  <2>1. /\ \A k \in Mapped : map[k] \in Listed /\ data[map[k]].key = k
        /\ SavedTwice \/ \A e \in Listed : map[data[e].key] = e
        /\ wheel = {e \in Listed : data[e].expire # 0}
        /\ weighted = Total(data, Listed)
    BY DEF Inv, Whole
  <2>2. es \subseteq Listed /\ es \cap Listed = es
    BY <2>1
  <2>3. \A k \in Key : map'[k] = IF map[k] \in es THEN None ELSE map[k]
    BY <1>1 DEF Unmap
  <2>4. \A k \in Mapped' : map'[k] \in Listed' /\ data'[map'[k]].key = k
    BY <1>2, <1>4, <2>1, <2>3 DEF Mapped
  <2>5. SavedTwice' \/ \A e \in Listed' : map'[data'[e].key] = e
    <3>1. SavedTwice' <=> SavedTwice
      BY <1>2 DEF SavedTwice, SavedKeys
    <3>2. \A e \in Listed : data[e].key \in Key
      BY DEF Inv, Keyed
    <3>. QED BY <1>2, <1>4, <2>1, <2>3, <3>1, <3>2
  <2>6. wheel' = {e \in Listed' : data'[e].expire # 0}
    BY <1>2, <1>4, <2>1
  <2>7. weighted' = Total(data', Listed')
    <3>1. IsFiniteSet(Listed) /\ \A e \in Listed : data[e].weight \in Int
      BY ListedEntries DEF Inv, Types, TypesStore, EntryType
    <3>2. IsFiniteSet(es) /\ es \in SUBSET Listed
      BY <2>2, <3>1, FS_Subset
    <3>3. Weight(es) = Total(data, es)
      BY <3>2, WeightsUnfold DEF Weight
    <3>4. Total(data, Listed \ es) = Total(data, Listed) - Total(data, es)
      BY <3>1, <3>2, TotalLess
    <3>. QED BY <1>2, <1>4, <2>1, <2>2, <3>3, <3>4
  <2>. QED BY <2>4, <2>5, <2>6, <2>7 DEF Whole
<1>11. FiltersInv'
  BY <1>3, FilterKeeps DEF Inv
<1>. QED BY <1>3, <1>5, <1>6, <1>7, <1>8, <1>9, <1>10, <1>11 DEF Inv

-----------------------------------------------------------------------------
(* Persist.                                                                *)

\* How many blocks n entries fill, and how much of the last one.
LEMMA Fills ==
  ASSUME NEW n \in Nat, NEW B \in Nat \ {0}
  PROVE  /\ (n + B - 1) \div B \in Nat
         /\ n <= ((n + B - 1) \div B) * B
         /\ (n + B - 1) \div B # 0 => ((n + B - 1) \div B - 1) * B < n
         /\ (n + B - 1) \div B = 0 <=> n = 0
<1>. DEFINE m == n + B - 1
<1>1. m \in Nat /\ m = n + B - 1 /\ m \div B \in Nat
  OBVIOUS
<1>2. PICK q \in Nat : q = m \div B
  BY <1>1
<1>3. q * B <= m /\ m < q * B + B
  BY <1>1, <1>2
<1>4. n <= q * B
  BY <1>1, <1>3
<1>5. q # 0 => (q - 1) * B < n
  <2>1. (q - 1) * B = q * B - B /\ q * B \in Nat
    OBVIOUS
  <2>. QED BY <1>1, <1>3, <2>1
<1>6. q = 0 <=> n = 0
  <2>1. q = 0 => q * B = 0
    OBVIOUS
  <2>2. q # 0 => (q - 1) * B \in Nat
    OBVIOUS
  <2>3. q # 0 => q * B >= B
    OBVIOUS
  <2>. QED BY <1>1, <1>3, <1>4, <1>5, <2>1, <2>2, <2>3
<1>. QED BY <1>1, <1>2, <1>4, <1>5, <1>6

LEMMA BlocksFill ==
  ASSUME TypesFile, NEW l \in Segment
  PROVE  /\ BlocksOf(l) \in Nat /\ Len(saved[l]) \in Nat
         /\ Len(saved[l]) <= BlocksOf(l) * BlockEntries
         /\ BlocksOf(l) # 0 => (BlocksOf(l) - 1) * BlockEntries < Len(saved[l])
         /\ BlocksOf(l) = 0 <=> Len(saved[l]) = 0
<1>1. Len(saved[l]) \in Nat /\ BlockEntries \in Nat \ {0}
  BY BoundsAssumption DEF TypesFile
<1>. QED BY <1>1, Fills DEF BlocksOf

\* A list in which no entry is twice is as long as it has entries.
LEMMA CountOf ==
  ASSUME NEW S, NEW s \in Seq(S), IsInjective(s)
  PROVE  IsFiniteSet(ToSet(s)) /\ Cardinality(ToSet(s)) = Len(s)
<1>1. Len(s) \in Nat /\ DOMAIN s = 1..Len(s)
  OBVIOUS
<1>2. s \in [1..Len(s) -> ToSet(s)] /\ ToSet(s) = {s[i] : i \in 1..Len(s)}
  BY <1>1 DEF ToSet
<1>3. s \in Bijection(1..Len(s), ToSet(s))
  BY <1>2 DEF Bijection, Injection, Surjection
<1>4. ExistsBijection(1..Len(s), ToSet(s))
  BY <1>3 DEF ExistsBijection
<1>5. IsFiniteSet(1..Len(s))
  BY <1>1, FS_Interval
<1>6. IsFiniteSet(ToSet(s))
  BY <1>4, <1>5, FS_Bijection
<1>. QED BY <1>1, <1>4, <1>6, FS_CountingElements

LEMMA DisjointCount ==
  ASSUME NEW A, NEW B, IsFiniteSet(A), IsFiniteSet(B), A \cap B = {}
  PROVE  IsFiniteSet(A \cup B) /\ Cardinality(A \cup B) = Cardinality(A) + Cardinality(B)
<1>1. PICK a \in Nat : a = Cardinality(A)
  BY FS_CardinalityType
<1>2. PICK b \in Nat : b = Cardinality(B)
  BY FS_CardinalityType
<1>3. PICK c \in Nat : c = Cardinality(A \cap B) /\ c = 0
  BY FS_EmptySet
<1>4. IsFiniteSet(A \cup B) /\ Cardinality(A \cup B) = a + b - c
  <2>1. /\ IsFiniteSet(A \cup B)
        /\ Cardinality(A \cup B) = Cardinality(A) + Cardinality(B) - Cardinality(A \cap B)
    BY FS_Union
  <2>. QED BY <1>1, <1>2, <1>3, <2>1, Zenon
<1>5. a + b - c = a + b
  BY <1>3
<1>. QED BY <1>1, <1>2, <1>4, <1>5

\* Lists that share no entry are no longer, together, than there are entries.
LEMMA ListsFit ==
  ASSUME list \in [Segment -> Seq(Entry)], Apart
  PROVE  Len(list["window"]) + Len(list["protected"]) + Len(list["probation"]) <= MaxEntries
<1>. DEFINE W == ToSet(list["window"])
            P == ToSet(list["protected"])
            Q == ToSet(list["probation"])
<1>1. /\ IsFiniteSet(W) /\ Cardinality(W) = Len(list["window"]) /\ Cardinality(W) \in Nat
      /\ IsFiniteSet(P) /\ Cardinality(P) = Len(list["protected"]) /\ Cardinality(P) \in Nat
      /\ IsFiniteSet(Q) /\ Cardinality(Q) = Len(list["probation"]) /\ Cardinality(Q) \in Nat
  BY CountOf, FS_CardinalityType DEF Apart, Segment
<1>2. W \cap P = {} /\ (W \cup P) \cap Q = {} /\ W \cup P \cup Q \subseteq Entry
  BY SetOfIs DEF Apart, Segment
<1>3. IsFiniteSet(Entry) /\ Cardinality(Entry) = MaxEntries
  <2>1. MaxEntries - 1 + 1 = MaxEntries /\ (1 > MaxEntries => MaxEntries = 0)
    BY BoundsAssumption
  <2>. QED BY <2>1, FS_Interval, BoundsAssumption DEF Entry
<1>. HIDE DEF W, P, Q
<1>. DEFINE R == W \cup P
<1>4. IsFiniteSet(R) /\ Cardinality(R) = Cardinality(W) + Cardinality(P)
  BY <1>1, <1>2, DisjointCount
<1>. HIDE DEF R
<1>5. Cardinality(R \cup Q) = Cardinality(R) + Cardinality(Q)
  BY <1>1, <1>2, <1>4, DisjointCount DEF R
<1>6. Cardinality(R \cup Q) <= MaxEntries
  BY <1>2, <1>3, FS_Subset DEF R
<1>. QED BY <1>1, <1>4, <1>5, <1>6

\* What List.Persist writes of a list is a sequence of blocks.
BlockType == [type : Segment \cup {"meta", "end"}, entries : Seq(PentryType)]
CountOfBlocks(n) == (n + BlockEntries - 1) \div BlockEntries

LEMMA SeqFrom ==
  ASSUME NEW S, NEW k \in Nat, NEW f \in [1..k -> S]
  PROVE  f \in Seq(S) /\ Len(f) = k
  OBVIOUS

LEMMA ConcatParts ==
  ASSUME NEW S, NEW a \in Seq(S), NEW b \in Seq(S)
  PROVE  /\ a \o b \in Seq(S) /\ Len(a \o b) = Len(a) + Len(b)
         /\ Len(a) \in Nat /\ Len(b) \in Nat
         /\ \A j \in 1..Len(a) : (a \o b)[j] = a[j]
         /\ \A j \in 1..Len(b) : (a \o b)[Len(a) + j] = b[j]
  BY ConcatIs

LEMMA PentryTyped ==
  ASSUME Inv, NEW e \in Listed
  PROVE  Pentry(e) \in PentryType /\ Timed(Pentry(e), start)
<1>1. e \in Entry /\ data[e].key \in Key
  BY ListedEntries DEF Inv, Types, TypesStore, Keyed
<1>2. Estimate(data[e].key) \in 0..MaxCount
  <2>1. SketchTypeOK
    BY DEF Inv, FiltersInv, SketchInv
  <2>. QED BY <1>1, <2>1, EstimateLeast, PlacesIn DEF SketchTypeOK
<1>3. data[e] \in EntryType /\ Timed(data[e], start)
  BY <1>1 DEF Inv, Types, TypesStore, AllTimed
<1>4. Pentry(e) \in PentryType
  BY <1>1, <1>2, <1>3 DEF Pentry, PentryType, EntryType
<1>5. Pentry(e).due = data[e].due /\ Pentry(e).expire = data[e].expire
  BY DEF Pentry
<1>. QED BY <1>3, <1>4, <1>5 DEF Timed

LEMMA BlocksTyped ==
  ASSUME Inv, NEW l \in Segment
  PROVE  /\ Blocks(l) \in Seq(BlockType)
         /\ Len(Blocks(l)) = CountOfBlocks(Len(list[l])) /\ Len(list[l]) \in Nat
         /\ \A b \in 1..CountOfBlocks(Len(list[l])) :
              /\ Blocks(l)[b].type = l
              /\ Len(Blocks(l)[b].entries)
                   = AtMost(BlockEntries, Len(list[l]) - (b - 1) * BlockEntries)
              /\ \A i \in 1..AtMost(BlockEntries, Len(list[l]) - (b - 1) * BlockEntries) :
                   /\ (b - 1) * BlockEntries + i \in 1..Len(list[l])
                   /\ Blocks(l)[b].entries[i] = Pentry(list[l][(b - 1) * BlockEntries + i])
<1>. DEFINE n == Len(list[l])
            q == CountOfBlocks(n)
            K(b) == AtMost(BlockEntries, n - (b - 1) * BlockEntries)
            es(b) == [i \in 1..K(b) |-> Pentry(list[l][(b - 1) * BlockEntries + i])]
<1>0. n \in Nat /\ BlockEntries \in Nat \ {0}
  BY BoundsAssumption DEF Inv, Types, TypesStore
<1>1. q \in Nat /\ (q # 0 => (q - 1) * BlockEntries < n)
  BY <1>0, Fills DEF CountOfBlocks
<1>2. Blocks(l) = [b \in 1..q |-> [type |-> l, entries |-> es(b)]]
  BY DEF Blocks, CountOfBlocks
<1>3. \A i \in 1..n : Pentry(list[l][i]) \in PentryType
  <2>1. \A i \in 1..n : list[l][i] \in Listed
    BY SetOfIs, ListedIs DEF Inv, Types, TypesStore
  <2>. QED BY <2>1, PentryTyped
<1>. HIDE DEF q
<1>4. ASSUME NEW b \in 1..q
      PROVE  /\ K(b) \in Nat
             /\ \A i \in 1..K(b) : (b - 1) * BlockEntries + i \in 1..n
  <2>1. (b - 1) * BlockEntries \in Nat /\ (b - 1) * BlockEntries <= (q - 1) * BlockEntries
    <3>1. b - 1 \in Nat /\ q - 1 \in Nat /\ b - 1 <= q - 1
      BY <1>1
    <3>. QED BY <1>0, <3>1, TimesMonotone
  <2>2. (b - 1) * BlockEntries < n
    BY <1>0, <1>1, <2>1
  <2>3. \A x \in Nat : x < n => /\ AtMost(BlockEntries, n - x) \in Nat
                                /\ \A i \in 1..AtMost(BlockEntries, n - x) : x + i \in 1..n
    BY <1>0 DEF AtMost
  <2>. QED BY <2>1, <2>2, <2>3
<1>. HIDE DEF K
<1>5. ASSUME NEW b \in 1..q PROVE es(b) \in Seq(PentryType) /\ Len(es(b)) = K(b)
  <2>1. \A i \in 1..K(b) : Pentry(list[l][(b - 1) * BlockEntries + i]) \in PentryType
    BY <1>3, <1>4
  <2>2. es(b) \in [1..K(b) -> PentryType]
    BY <2>1
  <2>. HIDE DEF es
  <2>. QED BY <1>4, <2>2, SeqFrom
<1>6. Blocks(l) \in Seq(BlockType) /\ Len(Blocks(l)) = q
  <2>1. \A b \in 1..q : [type |-> l, entries |-> es(b)] \in BlockType
    BY <1>5 DEF BlockType
  <2>. HIDE DEF es
  <2>. QED BY <1>1, <1>2, <2>1
<1>7. ASSUME NEW b \in 1..q
      PROVE  /\ Blocks(l)[b].type = l /\ Len(Blocks(l)[b].entries) = K(b)
             /\ \A i \in 1..K(b) :
                   /\ (b - 1) * BlockEntries + i \in 1..n
                   /\ Blocks(l)[b].entries[i] = Pentry(list[l][(b - 1) * BlockEntries + i])
  <2>1. \A i \in 1..K(b) : es(b)[i] = Pentry(list[l][(b - 1) * BlockEntries + i])
    OBVIOUS
  <2>. HIDE DEF es
  <2>2. Blocks(l)[b].type = l /\ Blocks(l)[b].entries = es(b)
    BY <1>2
  <2>. QED BY <1>4, <1>5, <2>1, <2>2
<1>. QED BY <1>0, <1>6, <1>7 DEF q, K

\* A file of five parts, and where its parts are.
LEMMA FiveParts ==
  ASSUME NEW S, NEW a \in S, NEW z \in S,
         NEW u \in Seq(S), NEW v \in Seq(S), NEW w \in Seq(S), NEW t,
         t = <<a>> \o u \o v \o w \o <<z>>
  PROVE  /\ Len(t) = 2 + Len(u) + Len(v) + Len(w)
         /\ t[1] = a /\ t[2 + Len(u) + Len(v) + Len(w)] = z
         /\ \A b \in 1..Len(u) : t[1 + b] = u[b]
         /\ \A b \in 1..Len(v) : t[1 + Len(u) + b] = v[b]
         /\ \A b \in 1..Len(w) : t[1 + Len(u) + Len(v) + b] = w[b]
<1>1. PICK c : c = <<a>> \o u
  OBVIOUS
<1>2. PICK d : d = c \o v
  OBVIOUS
<1>3. PICK f : f = d \o w
  OBVIOUS
<1>4. PICK y : y = <<z>>
  OBVIOUS
<1>5. /\ c \in Seq(S) /\ Len(c) = 1 + Len(u) /\ c[1] = a /\ Len(u) \in Nat
      /\ \A b \in 1..Len(u) : c[1 + b] = u[b]
  <2>1. <<a>> \in Seq(S) /\ Len(<<a>>) = 1 /\ <<a>>[1] = a
    OBVIOUS
  <2>. QED BY <1>1, <2>1, ConcatParts
<1>6. /\ d \in Seq(S) /\ Len(d) = 1 + Len(u) + Len(v) /\ Len(v) \in Nat
      /\ \A j \in 1..(1 + Len(u)) : d[j] = c[j]
      /\ \A b \in 1..Len(v) : d[1 + Len(u) + b] = v[b]
  <2>0. c \in Seq(S) /\ v \in Seq(S)
    BY <1>5
  <2>1. /\ d \in Seq(S) /\ Len(d) = Len(c) + Len(v) /\ Len(v) \in Nat
        /\ \A j \in 1..Len(c) : d[j] = c[j]
        /\ \A j \in 1..Len(v) : d[Len(c) + j] = v[j]
    BY ONLY <1>2, <2>0, ConcatParts
  <2>. QED BY <1>5, <2>1
<1>7. /\ f \in Seq(S) /\ Len(f) = 1 + Len(u) + Len(v) + Len(w) /\ Len(w) \in Nat
      /\ \A j \in 1..(1 + Len(u) + Len(v)) : f[j] = d[j]
      /\ \A b \in 1..Len(w) : f[1 + Len(u) + Len(v) + b] = w[b]
  <2>0. d \in Seq(S) /\ w \in Seq(S)
    BY <1>6
  <2>1. /\ f \in Seq(S) /\ Len(f) = Len(d) + Len(w) /\ Len(w) \in Nat
        /\ \A j \in 1..Len(d) : f[j] = d[j]
        /\ \A j \in 1..Len(w) : f[Len(d) + j] = w[j]
    BY ONLY <1>3, <2>0, ConcatParts
  <2>. QED BY <1>5, <1>6, <2>1
<1>8. y \in Seq(S) /\ Len(y) = 1 /\ y[1] = z
  BY <1>4
<1>9. t = f \o y
  BY <1>1, <1>2, <1>3, <1>4
<1>10. /\ Len(t) = 2 + Len(u) + Len(v) + Len(w)
       /\ \A j \in 1..(1 + Len(u) + Len(v) + Len(w)) : t[j] = f[j]
       /\ t[2 + Len(u) + Len(v) + Len(w)] = z
  <2>1. /\ Len(t) = Len(f) + 1 /\ \A j \in 1..Len(f) : t[j] = f[j]
        /\ t[Len(f) + 1] = z
    BY <1>7, <1>8, <1>9, ConcatParts
  <2>2. Len(f) + 1 = 2 + Len(u) + Len(v) + Len(w)
    BY <1>5, <1>6, <1>7
  <2>. QED BY <1>7, <2>1, <2>2
<1>11. t[1] = a
  BY <1>5, <1>6, <1>7, <1>10
<1>12. \A b \in 1..Len(u) : t[1 + b] = u[b]
  BY <1>5, <1>6, <1>7, <1>10
<1>13. \A b \in 1..Len(v) : t[1 + Len(u) + b] = v[b]
  BY <1>5, <1>6, <1>7, <1>10
<1>14. \A b \in 1..Len(w) : t[1 + Len(u) + Len(v) + b] = w[b]
  BY <1>5, <1>6, <1>7, <1>10
<1>. QED BY <1>10, <1>11, <1>12, <1>13, <1>14

\* A store as it is created, and the file of a store that has gone.
LEMMA NewStoreIs ==
  ASSUME Inv, NewStore
  PROVE  /\ map' = [k \in Key |-> None] /\ data' = [e \in Entry |-> Blank]
         /\ list' = [l \in Segment |-> <<>>] /\ wheel' = {} /\ weighted' = 0 /\ pending' = {}
         /\ start' = now /\ cached' = 0 /\ ticked' = TRUE
         /\ Listed' = {} /\ Mapped' = {}
<1>1. /\ map' = [k \in Key |-> None] /\ data' = [e \in Entry |-> Blank]
      /\ list' = [l \in Segment |-> <<>>] /\ wheel' = {} /\ weighted' = 0 /\ pending' = {}
      /\ start' = now /\ cached' = 0 /\ ticked' = TRUE
  BY DEF NewStore
<1>2. Mapped' = {}
  BY <1>1 DEF Mapped
<1>3. \A l \in Segment : list'[l] = << >> /\ ToSet(<< >>) = {}
  BY <1>1 DEF ToSet
<1>4. Listed' = {}
  BY <1>3 DEF Listed
<1>. QED BY <1>1, <1>2, <1>4

LEMMA EmptyStore ==
  ASSUME map' = [k \in Key |-> None], data' = [e \in Entry |-> Blank],
         list' = [l \in Segment |-> <<>>], wheel' = {}, weighted' = 0, pending' = {},
         Listed' = {}, Mapped' = {}
  PROVE  /\ Apart' /\ Keyed' /\ Whole' /\ \A e \in Entry : Timed(data'[e], start')
         /\ data' \in [Entry -> EntryType] /\ list' \in [Segment -> Seq(Entry)]
         /\ map' \in [Key -> Entry \cup {None}] /\ pending' \subseteq [code : Code, entry : Entry]
<1>1. Blank \in EntryType /\ Blank.due = 0 /\ Blank.expire = 0
  BY DEF Blank, EntryType
<1>2. \A l \in Segment : list'[l] = << >> /\ ToSet(list'[l]) = {} /\ IsInjective(list'[l])
  BY DEF ToSet, IsInjective
<1>3. Apart'
  BY <1>2 DEF Apart
<1>4. Total(data', Listed') = 0
  BY TotalNone
<1>5. Whole'
  BY <1>4 DEF Whole
<1>. QED BY <1>1, <1>2, <1>3, <1>5 DEF Keyed, Timed

\* What is in the file is what was in the lists.
LEMMA PersistSaves ==
  ASSUME Inv, Persist
  PROVE  /\ saved' \in [Segment -> Seq(PentryType)]
         /\ \A l \in Segment : /\ Len(saved'[l]) = Len(list[l]) /\ Len(list[l]) \in Nat
                               /\ \A i \in 1..Len(list[l]) :
                                    /\ saved'[l][i] = Pentry(list[l][i])
                                    /\ Timed(saved'[l][i], start)
<1>. DEFINE s(l) == [i \in DOMAIN list[l] |-> Pentry(list[l][i])]
<1>1. saved' = [l \in Segment |-> s(l)]
  BY DEF Persist
<1>2. ASSUME NEW l \in Segment
      PROVE  /\ s(l) \in Seq(PentryType) /\ Len(s(l)) = Len(list[l]) /\ Len(list[l]) \in Nat
             /\ \A i \in 1..Len(list[l]) : s(l)[i] = Pentry(list[l][i]) /\ Timed(s(l)[i], start)
  <2>1. list[l] \in Seq(Entry) /\ Len(list[l]) \in Nat /\ DOMAIN list[l] = 1..Len(list[l])
    BY DEF Inv, Types, TypesStore
  <2>2. \A i \in 1..Len(list[l]) : list[l][i] \in Listed
    BY <2>1, SetOfIs, ListedIs
  <2>3. \A i \in 1..Len(list[l]) : /\ Pentry(list[l][i]) \in PentryType
                                   /\ Timed(Pentry(list[l][i]), start)
    BY <2>2, PentryTyped
  <2>4. s(l) \in [1..Len(list[l]) -> PentryType]
    BY <2>1, <2>3
  <2>5. \A i \in 1..Len(list[l]) : s(l)[i] = Pentry(list[l][i])
    BY <2>1
  <2>. HIDE DEF s
  <2>6. s(l) \in Seq(PentryType) /\ Len(s(l)) = Len(list[l])
    BY <2>1, <2>4, SeqFrom
  <2>. QED BY <2>1, <2>3, <2>5, <2>6
<1>. HIDE DEF s
<1>. QED BY <1>1, <1>2

LEMMA PersistLays ==
  ASSUME Inv, Persist
  PROVE  Layout'
<1>. DEFINE bs == file'.blocks
            W == Blocks("window")
            P == Blocks("protected")
            Q == Blocks("probation")
            m == [type |-> "meta", entries |-> << >>]
            z == [type |-> "end", entries |-> << >>]
<1>1. bs = <<m>> \o W \o P \o Q \o <<z>>
  BY DEF Persist, Marker
<1>2. \A l \in Segment : /\ Len(saved'[l]) = Len(list[l]) /\ Len(list[l]) \in Nat
                         /\ \A i \in 1..Len(list[l]) : saved'[l][i] = Pentry(list[l][i])
  BY PersistSaves
<1>3. \A l \in Segment : BlocksOf(l)' = CountOfBlocks(Len(list[l]))
  BY <1>2 DEF BlocksOf, CountOfBlocks
<1>4. \A l \in Segment : Blocks(l) \in Seq(BlockType) /\ Len(Blocks(l)) = BlocksOf(l)'
  BY <1>3, BlocksTyped
<1>5. "window" \in Segment /\ "protected" \in Segment /\ "probation" \in Segment
  BY DEF Segment
<1>6. m \in BlockType /\ z \in BlockType /\ m.type = "meta" /\ z.type = "end"
  BY DEF BlockType
<1>7. W \in Seq(BlockType) /\ P \in Seq(BlockType) /\ Q \in Seq(BlockType)
  BY <1>4, <1>5
<1>8. /\ Len(bs) = 2 + Len(W) + Len(P) + Len(Q)
      /\ bs[1] = m /\ bs[2 + Len(W) + Len(P) + Len(Q)] = z
      /\ \A b \in 1..Len(W) : bs[1 + b] = W[b]
      /\ \A b \in 1..Len(P) : bs[1 + Len(W) + b] = P[b]
      /\ \A b \in 1..Len(Q) : bs[1 + Len(W) + Len(P) + b] = Q[b]
  <2>. HIDE DEF bs, W, P, Q, m, z
  <2>1. PICK t, u, v, w, x, y : t = bs /\ u = W /\ v = P /\ w = Q /\ x = m /\ y = z
    OBVIOUS
  <2>2. /\ t = <<x>> \o u \o v \o w \o <<y>> /\ x \in BlockType /\ y \in BlockType
        /\ u \in Seq(BlockType) /\ v \in Seq(BlockType) /\ w \in Seq(BlockType)
    BY <1>1, <1>6, <1>7, <2>1
  <2>3. PICK S : S = BlockType
    OBVIOUS
  <2>4. /\ t = <<x>> \o u \o v \o w \o <<y>> /\ x \in S /\ y \in S
        /\ u \in Seq(S) /\ v \in Seq(S) /\ w \in Seq(S)
    BY ONLY <2>2, <2>3
  <2>5. /\ Len(t) = 2 + Len(u) + Len(v) + Len(w)
        /\ t[1] = x /\ t[2 + Len(u) + Len(v) + Len(w)] = y
        /\ \A b \in 1..Len(u) : t[1 + b] = u[b]
        /\ \A b \in 1..Len(v) : t[1 + Len(u) + b] = v[b]
        /\ \A b \in 1..Len(w) : t[1 + Len(u) + Len(v) + b] = w[b]
    BY ONLY <2>4, FiveParts
  <2>. QED BY <2>1, <2>5
<1>. HIDE DEF bs, W, P, Q, m, z
<1>9. /\ Len(W) = BlocksOf("window")' /\ Len(P) = BlocksOf("protected")'
      /\ Len(Q) = BlocksOf("probation")'
  BY <1>4, <1>5 DEF W, P, Q
<1>10. EndBlock' = 2 + Len(W) + Len(P) + Len(Q)
  BY <1>9 DEF EndBlock
<1>11. /\ Before("window")' = 1 /\ Before("protected")' = 1 + Len(W)
       /\ Before("probation")' = 1 + Len(W) + Len(P)
  BY <1>9 DEF Before
<1>12. ASSUME NEW l \in Segment, NEW b \in 1..BlocksOf(l)'
       PROVE  bs[Before(l)' + b] = Blocks(l)[b]
  <2>1. CASE l = "window"
    BY <1>8, <1>9, <1>11, <2>1 DEF W
  <2>2. CASE l = "protected"
    BY <1>8, <1>9, <1>11, <2>2 DEF P
  <2>3. CASE l = "probation"
    BY <1>8, <1>9, <1>11, <2>3 DEF Q
  <2>. QED BY <2>1, <2>2, <2>3 DEF Segment
<1>13. ASSUME NEW l \in Segment, NEW b \in 1..BlocksOf(l)'
       PROVE  LET block == bs[Before(l)' + b] IN
              /\ block.type = l
              /\ Len(block.entries) = AtMost(BlockEntries, Len(saved'[l]) - (b - 1) * BlockEntries)
              /\ \A i \in 1..Len(block.entries) :
                   block.entries[i] = saved'[l][(b - 1) * BlockEntries + i]
  <2>1. b \in 1..CountOfBlocks(Len(list[l]))
    BY <1>3
  <2>2. PICK k : k = AtMost(BlockEntries, Len(list[l]) - (b - 1) * BlockEntries)
    OBVIOUS
  <2>3. /\ Blocks(l)[b].type = l /\ Len(Blocks(l)[b].entries) = k
        /\ \A i \in 1..k :
             /\ (b - 1) * BlockEntries + i \in 1..Len(list[l])
             /\ Blocks(l)[b].entries[i] = Pentry(list[l][(b - 1) * BlockEntries + i])
    BY <2>1, <2>2, BlocksTyped
  <2>4. \A i \in 1..k : Blocks(l)[b].entries[i] = saved'[l][(b - 1) * BlockEntries + i]
    BY <1>2, <2>3
  <2>. QED BY <1>2, <1>12, <2>2, <2>3, <2>4
<1>14. Len(saved'["window"]) + Len(saved'["protected"]) + Len(saved'["probation"]) <= MaxEntries
  <2>1. Len(list["window"]) + Len(list["protected"]) + Len(list["probation"]) <= MaxEntries
    BY ListsFit DEF Inv, Types, TypesStore
  <2>. QED BY <1>2, <1>5, <2>1
<1>. QED BY <1>6, <1>8, <1>10, <1>13, <1>14 DEF Layout, LaidOut, bs

LEMMA PersistKeeps ==
  ASSUME Inv, Persist
  PROVE  Inv' /\ FilterStep
<1>1. /\ phase = "live" /\ phase' = "saved" /\ ~settling /\ NewStore
      /\ file'.start = start /\ file'.total = Cardinality(Mapped)
      /\ UNCHANGED <<settling, sizes, now, good, at>>
  BY DEF Persist
<1>2. /\ map' = [k \in Key |-> None] /\ data' = [e \in Entry |-> Blank]
      /\ list' = [l \in Segment |-> <<>>] /\ wheel' = {} /\ weighted' = 0 /\ pending' = {}
      /\ start' = now /\ cached' = 0 /\ ticked' = TRUE
      /\ Listed' = {} /\ Mapped' = {}
  BY <1>1, NewStoreIs
<1>3. /\ Apart' /\ Keyed' /\ Whole' /\ \A e \in Entry : Timed(data'[e], start')
      /\ data' \in [Entry -> EntryType] /\ list' \in [Segment -> Seq(Entry)]
      /\ map' \in [Key -> Entry \cup {None}] /\ pending' \subseteq [code : Code, entry : Entry]
  BY <1>2, EmptyStore
<1>4. FilterStep
  BY PersistFilters
<1>5. Types'
  <2>1. TypesStore'
    BY <1>1, <1>3 DEF Inv, Types, TypesStore, Phase
  <2>2. TypesClock'
    BY <1>1, <1>2 DEF Inv, Types, TypesClock, NowNano
  <2>3. TypesFile'
    BY <1>1, PersistSaves, MappedCount DEF Inv, Types, TypesClock, TypesFile
  <2>. QED BY <2>1, <2>2, <2>3 DEF Types
<1>6. Quiet'
  BY <1>1, <1>2 DEF Quiet, Unread, Inv, Types, TypesStore
<1>7. AllTimed'
  <2>1. \A l \in Segment : \A i \in DOMAIN saved'[l] : Timed(saved'[l][i], start)
    BY PersistSaves
  <2>. QED BY <1>1, <1>3, <2>1 DEF AllTimed
<1>8. Ticking' /\ Reading' /\ Faithful'
  BY <1>1 DEF Ticking, Reading, Faithful, Loading
<1>9. Layout'
  BY PersistLays
<1>10. FiltersInv'
  BY <1>4, FilterKeeps DEF Inv
<1>. QED BY <1>3, <1>4, <1>5, <1>6, <1>7, <1>8, <1>9, <1>10 DEF Inv

-----------------------------------------------------------------------------
(* Recover's place in the file.                                            *)

\* Where the blocks of the lists are.
LEMMA Borders ==
  ASSUME TypesFile
  PROVE  /\ BlocksOf("window") \in Nat /\ BlocksOf("protected") \in Nat
         /\ BlocksOf("probation") \in Nat /\ EndBlock \in Nat
         /\ Before("window") = 1
         /\ Before("protected") = Before("window") + BlocksOf("window")
         /\ Before("probation") = Before("protected") + BlocksOf("protected")
         /\ EndBlock = Before("probation") + BlocksOf("probation") + 1
<1>1. /\ BlocksOf("window") \in Nat /\ BlocksOf("protected") \in Nat
      /\ BlocksOf("probation") \in Nat
  BY BlocksFill DEF Segment
<1>. QED BY <1>1 DEF Before, EndBlock

\* The block that is read is the first, the last or one of a list.
LEMMA Place ==
  ASSUME Inv, phase = "recovering"
  PROVE  /\ at.block = 1 => Here.type = "meta"
         /\ at.block = EndBlock => Here.type = "end"
         /\ at.block # 1 /\ at.block # EndBlock =>
              \E l \in Segment : \E b \in 1..BlocksOf(l) : at.block = Before(l) + b /\ Here.type = l
<1>1. TypesFile /\ Layout /\ Reading
  BY DEF Inv, Types
<1>2. at.block \in Nat \ {0} /\ at.block <= EndBlock
  BY <1>1 DEF TypesFile, Reading
<1>3. at.block = 1 => Here.type = "meta"
  BY <1>1 DEF Layout, LaidOut, Here
<1>4. at.block = EndBlock => Here.type = "end"
  BY <1>1 DEF Layout, LaidOut, Here
<1>5. ASSUME at.block # 1, at.block # EndBlock
      PROVE  \E l \in Segment : \E b \in 1..BlocksOf(l) : at.block = Before(l) + b
  <2>. DEFINE n == at.block
  <2>1. n > Before("window") /\ n <= Before("probation") + BlocksOf("probation")
    BY <1>1, <1>2, <1>5, Borders
  <2>2. CASE n <= Before("protected")
    <3>1. n - Before("window") \in 1..BlocksOf("window")
          /\ n = Before("window") + (n - Before("window"))
      BY <1>1, <1>2, <2>1, <2>2, Borders
    <3>. QED BY <3>1 DEF Segment
  <2>3. CASE n > Before("protected") /\ n <= Before("probation")
    <3>1. n - Before("protected") \in 1..BlocksOf("protected")
          /\ n = Before("protected") + (n - Before("protected"))
      BY <1>1, <1>2, <2>1, <2>3, Borders
    <3>. QED BY <3>1 DEF Segment
  <2>4. CASE n > Before("probation")
    <3>1. n - Before("probation") \in 1..BlocksOf("probation")
          /\ n = Before("probation") + (n - Before("probation"))
      BY <1>1, <1>2, <2>1, <2>4, Borders
    <3>. QED BY <3>1 DEF Segment
  <2>. QED BY <1>1, <1>2, <2>2, <2>3, <2>4, Borders
<1>6. \A l \in Segment : \A b \in 1..BlocksOf(l) : at.block = Before(l) + b => Here.type = l
  BY <1>1 DEF Layout, LaidOut, Here
<1>. QED BY <1>3, <1>4, <1>5, <1>6

LEMMA AtMeta ==
  ASSUME Inv, phase = "recovering", Here.type = "meta"
  PROVE  at.block = 1 /\ EndBlock >= 2
<1>1. TypesFile
  BY DEF Inv, Types
<1>2. EndBlock >= 2
  BY <1>1, Borders
<1>. QED BY <1>2, Place DEF Segment

LEMMA AtEnd ==
  ASSUME Inv, phase = "recovering", Here.type = "end"
  PROVE  at.block = EndBlock
  BY Place DEF Segment

\* How far Recover has come in list l when it begins a block.
LEMMA PassedBegins ==
  ASSUME TypesFile, UNCHANGED saved, NEW l \in Segment, at'.block \in Nat,
         at'.entry = 1, at'.block <= Before(l) + 1
  PROVE  Passed(l)' = 0
<1>1. /\ BlocksOf(l) \in Nat /\ (BlocksOf(l) = 0 <=> Len(saved[l]) = 0)
      /\ BlockEntries \in Nat /\ Before(l) \in Nat
  <2>1. BlocksOf(l) \in Nat /\ (BlocksOf(l) = 0 <=> Len(saved[l]) = 0)
    BY BlocksFill
  <2>2. Before(l) \in Nat
    BY Borders DEF Segment
  <2>. QED BY <2>1, <2>2, BoundsAssumption
<1>2. Before(l)' = Before(l) /\ BlocksOf(l)' = BlocksOf(l)
  BY DEF Before, BlocksOf
<1>3. CASE at'.block <= Before(l)
  BY <1>2, <1>3 DEF Passed
<1>4. CASE at'.block = Before(l) + 1
  <2>1. ~(at'.block <= Before(l)) /\ (at'.block > Before(l) + BlocksOf(l) <=> BlocksOf(l) = 0)
        /\ at'.block - Before(l) - 1 = 0 /\ 0 * BlockEntries = 0
    BY <1>1, <1>4
  <2>2. CASE BlocksOf(l) = 0
    BY <1>1, <1>2, <2>1, <2>2 DEF Passed
  <2>3. CASE BlocksOf(l) # 0
    <3>1. Passed(l)' = (at'.block - Before(l) - 1) * BlockEntries + at'.entry - 1
      BY <1>2, <2>1, <2>3 DEF Passed
    <3>. QED BY <2>1, <3>1
  <2>. QED BY <2>2, <2>3
<1>. QED BY <1>1, <1>3, <1>4

LEMMA PassedEnds ==
  ASSUME TypesFile, NEW l \in Segment, at.block = EndBlock
  PROVE  Passed(l) = Len(saved[l])
<1>1. ~(at.block <= Before(l)) /\ at.block > Before(l) + BlocksOf(l)
  BY Borders DEF Segment
<1>. QED BY <1>1 DEF Passed

\* Nothing has been read and nothing is there.
LEMMA RestoredEmpty ==
  ASSUME TypesFile, UNCHANGED saved, NEW l \in Segment, Passed(l)' = 0, list'[l] = << >>
  PROVE  Restored(l)'
<1>1. Taken(l)' = << >>
  BY KeptIs DEF Taken, TypesFile
<1>2. Len(list'[l]) = 0 /\ Len(Taken(l)') = 0
  BY <1>1
<1>. QED BY <1>1, <1>2 DEF Restored

-----------------------------------------------------------------------------
(* A new store and the steps of Recover that add nothing to it.            *)

LEMMA InitInv == Init => Inv
<1>. SUFFICES ASSUME Init PROVE Inv
  OBVIOUS
<1>. USE DEF Init
<1>1. Mapped = {}
  BY DEF Mapped
<1>2. \A l \in Segment : list[l] = << >> /\ ToSet(<< >>) = {} /\ IsInjective(<< >>)
  BY DEF ToSet, IsInjective
<1>3. Listed = {}
  BY <1>2 DEF Listed
<1>4. TypesStore
  <2>1. Blank \in EntryType
    BY DEF Blank, EntryType
  <2>2. list \in [Segment -> Seq(Entry)]
    OBVIOUS
  <2>. QED BY <2>1, <2>2, CallAssumption DEF TypesStore, Phase
<1>5. TypesClock
  BY BoundsAssumption DEF TypesClock, NowNano
<1>6. TypesFile
  <2>1. 0 \in Wanted
    BY WantedAssumption, BoundsAssumption
  <2>2. saved \in [Segment -> Seq(PentryType)]
    OBVIOUS
  <2>. QED BY <2>1, <2>2 DEF TypesFile
<1>7. Apart /\ Keyed
  BY <1>1, <1>2, <1>3 DEF Apart, Keyed
<1>8. Quiet /\ Layout /\ Reading /\ Whole /\ Faithful
  BY DEF Quiet, Unread, Layout, Reading, Whole, Faithful, Loading
<1>9. AllTimed
  BY DEF AllTimed, Timed, Blank
<1>10. Ticking
  BY CallAssumption DEF Ticking, NowNano
<1>11. FiltersInv
  BY FiltersInit
<1>. QED BY <1>4, <1>5, <1>6, <1>7, <1>8, <1>9, <1>10, <1>11 DEF Inv, Types

LEMMA RestartKeeps ==
  ASSUME Inv, Restart
  PROVE  Inv' /\ FilterStep
<1>1. /\ phase = "saved" /\ phase' = "recovering" /\ sizes' \in Sizes
      /\ good' \in 0..Len(file.blocks) /\ at' = [block |-> 1, entry |-> 1, time |-> now]
      /\ start' = now /\ cached' = 0 /\ ticked' = TRUE
      /\ UNCHANGED <<settling, map, data, list, wheel, weighted, pending, now, file, saved,
                     sketchVars, doorVars>>
  BY DEF Restart, listVars
<1>2. FilterStep
  BY <1>1, FilterSame
<1>3. Listed' = Listed /\ Mapped' = Mapped
  BY <1>1 DEF Listed, Mapped
<1>4. at'.block = 1 /\ at'.entry = 1 /\ at'.time = now
  BY <1>1
<1>5. EndBlock' = EndBlock /\ Len(file.blocks) = EndBlock /\ EndBlock \in Nat /\ EndBlock >= 2
  <2>1. Len(file.blocks) = EndBlock
    BY <1>1 DEF Inv, Layout, LaidOut
  <2>2. EndBlock' = EndBlock
    BY <1>1 DEF EndBlock, BlocksOf
  <2>. QED BY <2>1, <2>2, Borders DEF Inv, Types
<1>6. Types'
  <2>1. TypesStore'
    BY <1>1, CallAssumption DEF Inv, Types, TypesStore, Phase
  <2>2. TypesClock'
    BY <1>1 DEF Inv, Types, TypesClock, NowNano
  <2>3. at' \in [block : Nat \ {0}, entry : Nat \ {0}, time : Nat]
    BY <1>1, BoundsAssumption DEF Inv, Types, TypesClock
  <2>4. TypesFile'
    BY <1>1, <1>5, <2>3 DEF Inv, Types, TypesFile
  <2>. QED BY <2>1, <2>2, <2>4 DEF Types
<1>7. /\ map' = [k \in Key |-> None] /\ data' = [e \in Entry |-> Blank]
      /\ list' = [l \in Segment |-> <<>>] /\ wheel' = {} /\ weighted' = 0
  BY <1>1 DEF Inv, Quiet, Unread
<1>8. Apart' /\ Keyed'
  BY <1>1, <1>3 DEF Inv, Apart, Keyed
<1>9. Quiet'
  BY <1>1, <1>7 DEF Inv, Quiet, Unread
<1>10. AllTimed'
  <2>1. \A e \in Entry : Timed(data'[e], start')
    BY <1>7 DEF Timed, Blank
  <2>. QED BY <1>1, <2>1 DEF Inv, AllTimed
<1>11. Ticking'
  BY <1>1, <1>4 DEF Ticking
<1>12. Layout'
  BY <1>1, LayoutSame DEF Inv
<1>13. Reading'
  <2>1. \A n \in Nat : 1 \in 1..AtLeast(1, n)
    BY DEF AtLeast
  <2>2. Len(Here'.entries) \in Nat => 1 \in 1..AtLeast(1, Len(Here'.entries))
    BY <2>1
  <2>. QED BY <1>1, <1>4, <1>5, <2>2 DEF Reading
<1>14. Whole'
  <2>1. SavedTwice' <=> SavedTwice
    BY <1>1 DEF SavedTwice, SavedKeys
  <2>. QED BY <1>1, <1>3, <2>1 DEF Inv, Whole
<1>15. Faithful'
  <2>1. \A l \in Segment : Restored(l)'
    <3>. SUFFICES ASSUME NEW l \in Segment PROVE Restored(l)'
      OBVIOUS
    <3>1. TypesFile
      BY DEF Inv, Types
    <3>2. at'.block <= Before(l) + 1
      BY <1>4, <3>1, Borders DEF Segment
    <3>3. Passed(l)' = 0
      BY <1>1, <1>4, <3>1, <3>2, PassedBegins
    <3>. QED BY <1>1, <1>7, <3>1, <3>3, RestoredEmpty
  <2>2. Listed' = {}
    BY <1>7 DEF Listed, ToSet
  <2>3. \A l \in Segment : Len(list'[l]) = 0
    BY <1>7
  <2>4. Listed' = 1..(Len(list'["window"]) + Len(list'["protected"]) + Len(list'["probation"]))
    <3>1. Len(list'["window"]) + Len(list'["protected"]) + Len(list'["probation"]) = 0
      <4>1. /\ Len(list'["window"]) = 0 /\ Len(list'["protected"]) = 0
            /\ Len(list'["probation"]) = 0
        BY <2>3 DEF Segment
      <4>. QED BY <4>1
    <3>2. 1..0 = {}
      OBVIOUS
    <3>. QED BY <2>2, <3>1, <3>2
  <2>. QED BY <1>1, <2>1, <2>4 DEF Faithful, Loading
<1>16. FiltersInv'
  BY <1>2, FilterKeeps DEF Inv
<1>. QED BY <1>2, <1>6, <1>8, <1>9, <1>10, <1>11, <1>12, <1>13, <1>14, <1>15, <1>16 DEF Inv

\* What no step of Recover changes.
Recovering ==
  /\ phase = "recovering"
  /\ UNCHANGED <<settling, pending, now, cached, file, saved, good>>

\* Recover ends, well or not, with the store as it has become.
LEMMA StopKeeps ==
  ASSUME Inv, Recovering, phase' \in {"failed", "loaded"},
         phase' = "loaded" => at.block = EndBlock,
         UNCHANGED <<sizes, map, data, listVars, start, ticked, at, sketchVars, doorVars>>
  PROVE  Inv' /\ FilterStep
<1>1. /\ phase = "recovering" /\ phase' # "live" /\ phase' # "recovering" /\ phase' # "saved"
      /\ UNCHANGED <<settling, pending, now, cached, file, saved, good, sizes, map, data, list,
                     wheel, weighted, start, ticked, at, sketchVars, doorVars>>
  BY DEF Recovering, listVars
<1>2. FilterStep
  BY <1>1, FilterSame
<1>3. Listed' = Listed /\ Mapped' = Mapped
  BY <1>1 DEF Listed, Mapped
<1>4. Types'
  BY <1>1 DEF Inv, Types, TypesStore, TypesClock, TypesFile, NowNano, Phase
<1>5. Apart' /\ Keyed'
  BY <1>1, <1>3 DEF Inv, Apart, Keyed
<1>6. Quiet' /\ AllTimed'
  BY <1>1 DEF Inv, Quiet, Unread, AllTimed
<1>7. phase' = "loaded" => ~ticked
  <2>1. TypesFile
    BY DEF Inv, Types
  <2>2. EndBlock > 1
    BY <2>1, Borders
  <2>. QED BY <1>1, <2>2 DEF Inv, Ticking
<1>8. Ticking'
  BY <1>1, <1>7 DEF Ticking
<1>9. Layout' /\ EndBlock' = EndBlock
  BY <1>1, LayoutSame DEF Inv
<1>10. Reading'
  BY <1>1 DEF Reading
<1>11. Whole'
  <2>1. SavedTwice' <=> SavedTwice
    BY <1>1 DEF SavedTwice, SavedKeys
  <2>. QED BY <1>1, <1>3, <2>1 DEF Inv, Whole
<1>12. Faithful'
  <2>1. \A l \in Segment : Restored(l)' <=> Restored(l)
    BY <1>1, RestoredSame
  <2>. QED BY <1>1, <1>9, <2>1 DEF Inv, Faithful, Loading
<1>13. FiltersInv'
  BY <1>2, FilterKeeps DEF Inv
<1>. QED BY <1>2, <1>4, <1>5, <1>6, <1>8, <1>9, <1>10, <1>11, <1>12, <1>13 DEF Inv

LEMMA MetaKeeps ==
  ASSUME Inv, Recovering, RecoverMeta
  PROVE  Inv' /\ FilterStep
<1>1. /\ phase = "recovering" /\ Here.type = "meta" /\ start' = file.start /\ ticked' = FALSE
      /\ EnsureCapacity(file.total) /\ at' = [at EXCEPT !.block = @ + 1]
      /\ UNCHANGED <<phase, settling, pending, now, cached, file, saved, good, sizes, map, data,
                     list, wheel, weighted, doorVars>>
  BY DEF Recovering, RecoverMeta, listVars
<1>2. at.block = 1 /\ EndBlock >= 2 /\ at.entry = 1 /\ at.time = now
  BY <1>1, AtMeta DEF Inv, Reading, Ticking
<1>3. at'.block = 2 /\ at'.entry = 1 /\ at'.time = now
      /\ at' \in [block : Nat \ {0}, entry : Nat \ {0}, time : Nat]
  BY <1>1, <1>2 DEF Inv, Types, TypesFile
<1>4. /\ map = [k \in Key |-> None] /\ data = [e \in Entry |-> Blank]
      /\ list = [l \in Segment |-> <<>>] /\ cached = 0
  BY <1>1, <1>2 DEF Inv, Quiet, Unread
<1>5. FilterStep
  BY <1>1 DEF FilterStep, SketchStep, DoorStep, Inv, Types, TypesFile
<1>6. Listed' = Listed /\ Mapped' = Mapped
  BY <1>1 DEF Listed, Mapped
<1>7. Types'
  <2>1. TypesStore'
    BY <1>1 DEF Inv, Types, TypesStore
  <2>2. TypesClock'
    <3>1. now \in 0..MaxTime /\ file.start \in 0..now /\ MaxTime \in Nat
      BY BoundsAssumption DEF Inv, Types, TypesClock, TypesFile
    <3>2. 0 \in 0..(now - file.start)
      BY <3>1
    <3>. QED BY <1>1, <1>4, <3>1, <3>2 DEF TypesClock, NowNano
  <2>3. TypesFile'
    BY <1>1, <1>3 DEF Inv, Types, TypesFile
  <2>. QED BY <2>1, <2>2, <2>3 DEF Types
<1>8. Apart' /\ Keyed'
  BY <1>1, <1>6 DEF Inv, Apart, Keyed
<1>9. Quiet'
  BY <1>1, <1>3 DEF Inv, Quiet, Unread
<1>10. AllTimed'
  <2>1. \A e \in Entry : Timed(data'[e], start')
    BY <1>1, <1>4 DEF Timed, Blank
  <2>. QED BY <1>1, <2>1 DEF Inv, AllTimed
<1>11. Ticking'
  BY <1>1, <1>3 DEF Ticking
<1>12. Layout' /\ EndBlock' = EndBlock
  BY <1>1, LayoutSame DEF Inv
<1>13. Reading'
  <2>1. 1 \in 1..AtLeast(1, Len(Here'.entries))
    BY DEF AtLeast
  <2>2. good <= EndBlock
    BY <1>1 DEF Inv, Reading
  <2>. QED BY <1>1, <1>2, <1>3, <1>12, <2>1, <2>2 DEF Reading
<1>14. Whole'
  <2>1. SavedTwice' <=> SavedTwice
    BY <1>1 DEF SavedTwice, SavedKeys
  <2>. QED BY <1>1, <1>6, <2>1 DEF Inv, Whole
<1>15. Faithful'
  <2>1. ASSUME NEW l \in Segment PROVE Restored(l)'
    <3>1. TypesFile
      BY DEF Inv, Types
    <3>2. at'.block <= Before(l) + 1
      BY <1>3, <3>1, Borders DEF Segment
    <3>3. Passed(l)' = 0
      BY <1>1, <1>3, <3>1, <3>2, PassedBegins
    <3>. QED BY <1>1, <1>4, <3>1, <3>3, RestoredEmpty
  <2>. QED BY <1>1, <1>6, <2>1 DEF Inv, Faithful, Loading
<1>16. FiltersInv'
  BY <1>5, FilterKeeps DEF Inv
<1>. QED BY <1>5, <1>7, <1>8, <1>9, <1>10, <1>11, <1>12, <1>13, <1>14, <1>15, <1>16 DEF Inv

-----------------------------------------------------------------------------
(* An entry is read: Recover's place moves on by one entry of one list.    *)

\* The arithmetic of it: x entries of block b of q have been read, of a list
\* of n entries in blocks of B.
LEMMA BlockOf ==
  ASSUME NEW n \in Nat, NEW B \in Nat \ {0}, NEW q \in Nat, NEW b \in 1..q,
         n <= q * B, (q - 1) * B < n, NEW x, x = (b - 1) * B, NEW k, k = AtMost(B, n - x)
  PROVE  /\ x \in Nat /\ k \in Nat \ {0} /\ x + k <= n
         /\ x + k = IF b = q THEN n ELSE b * B
<1>1. x \in Nat
  OBVIOUS
<1>2. PICK y \in Nat : y = (q - 1) * B
  OBVIOUS
<1>3. x <= y
  <2>1. b - 1 \in Nat /\ q - 1 \in Nat /\ b - 1 <= q - 1
    OBVIOUS
  <2>. QED BY <1>1, <1>2, <2>1, TimesMonotone
<1>4. b * B = x + B /\ q * B = y + B
  BY <1>1, <1>2
<1>5. b # q => b * B <= y
  <2>1. b # q => b \in Nat /\ q - 1 \in Nat /\ b <= q - 1
    OBVIOUS
  <2>. QED BY <1>2, <2>1, TimesMonotone
<1>6. b = q => x = y
  BY <1>1, <1>2
<1>7. x < n /\ n <= y + B
  BY <1>2, <1>3, <1>4
<1>8. k \in Nat \ {0} /\ x + k <= n
  BY <1>1, <1>7 DEF AtMost
<1>9. x + k = IF b = q THEN n ELSE x + B
  <2>1. CASE b = q
    BY <1>1, <1>6, <1>7, <2>1 DEF AtMost
  <2>2. CASE b # q
    <3>1. x + B <= y /\ y < n
      BY <1>2, <1>4, <1>5, <2>2
    <3>. QED BY <1>1, <2>2, <3>1 DEF AtMost
  <2>. QED BY <2>1, <2>2
<1>. QED BY <1>1, <1>4, <1>8, <1>9

\* The entry that is read, and which of the saved ones it is.
LEMMA ReadIs ==
  ASSUME Inv, phase = "recovering", NEW l \in Segment, Here.type = l
  PROVE  \E b \in 1..BlocksOf(l) :
           /\ at.block = Before(l) + b
           /\ at.entry \in 1..Len(Here.entries)
           /\ (b - 1) * BlockEntries \in Nat
           /\ Len(Here.entries) \in Nat
           /\ (b - 1) * BlockEntries + Len(Here.entries) <= Len(saved[l])
           /\ (b - 1) * BlockEntries + Len(Here.entries)
                = IF b = BlocksOf(l) THEN Len(saved[l]) ELSE b * BlockEntries
           /\ Passed(l) = (b - 1) * BlockEntries + at.entry - 1
           /\ Here.entries[at.entry] = saved[l][Passed(l) + 1]
<1>1. TypesFile /\ LaidOut /\ Reading
  BY DEF Inv, Types, Layout
<1>2. at.block # 1 /\ at.block # EndBlock
  BY Place DEF Segment
<1>3. PICK b \in 1..BlocksOf(l) : at.block = Before(l) + b
  BY <1>2, Place
<1>4. PICK n, B, q : n = Len(saved[l]) /\ B = BlockEntries /\ q = BlocksOf(l)
  OBVIOUS
<1>5. /\ n \in Nat /\ B \in Nat \ {0} /\ q \in Nat /\ n <= q * B /\ (q - 1) * B < n
      /\ b \in 1..q
  BY <1>1, <1>3, <1>4, BlocksFill, BoundsAssumption
<1>6. PICK x : x = (b - 1) * B
  OBVIOUS
<1>7. PICK k : k = AtMost(B, n - x)
  OBVIOUS
<1>8. /\ x \in Nat /\ k \in Nat \ {0} /\ x + k <= n
      /\ x + k = IF b = q THEN n ELSE b * B
  BY ONLY <1>5, <1>6, <1>7, BlockOf
<1>9. Len(Here.entries) = k /\ \A i \in 1..k : Here.entries[i] = saved[l][x + i]
  <2>1. Here = file.blocks[Before(l) + b]
    BY <1>3 DEF Here
  <2>2. /\ Len(file.blocks[Before(l) + b].entries) = AtMost(BlockEntries, Len(saved[l]) - (b - 1) * BlockEntries)
        /\ \A i \in 1..Len(file.blocks[Before(l) + b].entries) :
             file.blocks[Before(l) + b].entries[i] = saved[l][(b - 1) * BlockEntries + i]
    BY <1>1, <1>3 DEF LaidOut
  <2>. QED BY <1>4, <1>6, <1>7, <2>1, <2>2
<1>10. at.entry \in 1..k
  BY <1>1, <1>8, <1>9 DEF Reading, AtLeast
<1>11. Passed(l) = x + at.entry - 1
  <2>1. Before(l) \in Nat
    BY <1>1, Borders DEF Segment
  <2>2. ~(at.block <= Before(l)) /\ ~(at.block > Before(l) + q) /\ at.block - Before(l) - 1 = b - 1
    BY <1>3, <1>5, <2>1
  <2>. QED BY <1>4, <1>6, <2>2 DEF Passed
<1>12. Passed(l) + 1 = x + at.entry
  BY <1>8, <1>10, <1>11
<1>. QED BY <1>3, <1>4, <1>6, <1>8, <1>9, <1>10, <1>11, <1>12

\* Recover moves on by one entry of the list it is at and stays at its place in
\* the other two; the third list is not begun while the second is read.
MovesOn ==
  at' = IF at.entry = Len(Here.entries) THEN [at EXCEPT !.block = @ + 1, !.entry = 1]
                                        ELSE [at EXCEPT !.entry = @ + 1]

LEMMA MovesTo ==
  ASSUME Inv, MovesOn
  PROVE  /\ at' \in [block : Nat \ {0}, entry : Nat \ {0}, time : Nat] /\ at'.time = at.time
         /\ at.entry = Len(Here.entries) => at'.block = at.block + 1 /\ at'.entry = 1
         /\ at.entry # Len(Here.entries) => at'.block = at.block /\ at'.entry = at.entry + 1
<1>1. at \in [block : Nat \ {0}, entry : Nat \ {0}, time : Nat]
  BY DEF Inv, Types, TypesFile
<1>2. CASE at.entry = Len(Here.entries)
  <2>1. at' = [block |-> at.block + 1, entry |-> 1, time |-> at.time]
    BY <1>1, <1>2 DEF MovesOn
  <2>. QED BY <1>1, <1>2, <2>1
<1>3. CASE at.entry # Len(Here.entries)
  <2>1. at' = [block |-> at.block, entry |-> at.entry + 1, time |-> at.time]
    BY <1>1, <1>3 DEF MovesOn
  <2>. QED BY <1>1, <1>3, <2>1
<1>. QED BY <1>2, <1>3

LEMMA OnwardHere ==
  ASSUME Inv, phase = "recovering", NEW l \in Segment, Here.type = l, MovesOn, UNCHANGED saved
  PROVE  /\ Passed(l)' = Passed(l) + 1 /\ Passed(l) \in Nat /\ Passed(l) + 1 <= Len(saved[l])
         /\ Here.entries[at.entry] = saved[l][Passed(l) + 1]
         /\ at.entry # Len(Here.entries) => at.entry + 1 \in 1..Len(Here.entries)
         /\ at'.block <= Before(l) + BlocksOf(l) + 1 /\ at.block > Before(l)
<1>0. TypesFile
  BY DEF Inv, Types
<1>1. PICK b \in 1..BlocksOf(l) :
           /\ at.block = Before(l) + b
           /\ at.entry \in 1..Len(Here.entries)
           /\ (b - 1) * BlockEntries \in Nat
           /\ Len(Here.entries) \in Nat
           /\ (b - 1) * BlockEntries + Len(Here.entries) <= Len(saved[l])
           /\ (b - 1) * BlockEntries + Len(Here.entries)
                = IF b = BlocksOf(l) THEN Len(saved[l]) ELSE b * BlockEntries
           /\ Passed(l) = (b - 1) * BlockEntries + at.entry - 1
           /\ Here.entries[at.entry] = saved[l][Passed(l) + 1]
  BY ReadIs
<1>2. /\ Before(l) \in Nat /\ Len(saved[l]) \in Nat /\ BlocksOf(l) \in Nat
      /\ BlockEntries \in Nat \ {0} /\ Before(l)' = Before(l) /\ BlocksOf(l)' = BlocksOf(l)
  <2>1. Before(l) \in Nat
    BY <1>0, Borders DEF Segment
  <2>2. Len(saved[l]) \in Nat /\ BlocksOf(l) \in Nat
    BY <1>0, BlocksFill
  <2>. QED BY <2>1, <2>2, BoundsAssumption DEF Before, BlocksOf
<1>3. PICK x, k \in Nat : x = (b - 1) * BlockEntries /\ k = Len(Here.entries)
  BY <1>1
<1>. DEFINE B == BlocksOf(l)
<1>9. /\ at.block = Before(l) + b /\ b \in 1..B /\ Before(l) \in Nat /\ B \in Nat
      /\ Passed(l) = x + at.entry - 1 /\ at.entry \in 1..k /\ x + k <= Len(saved[l])
      /\ Len(saved[l]) \in Nat
  BY <1>1, <1>2, <1>3
<1>. HIDE DEF B
<1>4. /\ Passed(l) \in Nat /\ Passed(l) + 1 <= Len(saved[l]) /\ Passed(l) + 1 = x + at.entry
      /\ at.entry # Len(Here.entries) => at.entry + 1 \in 1..Len(Here.entries)
      /\ at'.block <= Before(l) + B + 1 /\ at.block > Before(l)
  <2>1. at'.block = at.block \/ at'.block = at.block + 1
    BY MovesTo
  <2>2. at'.block <= Before(l) + B + 1 /\ at.block > Before(l)
    BY ONLY <1>9, <2>1
  <2>3. at.entry # k => at.entry + 1 \in 1..k
    BY ONLY <1>3, <1>9
  <2>4. Passed(l) \in Nat /\ Passed(l) + 1 <= Len(saved[l]) /\ Passed(l) + 1 = x + at.entry
    BY ONLY <1>3, <1>9
  <2>. QED BY <1>3, <2>2, <2>3, <2>4
<1>5. ASSUME at.entry # Len(Here.entries)
      PROVE  Passed(l)' = Passed(l) + 1
  <2>1. at'.block = at.block /\ at'.entry = at.entry + 1
    BY <1>5, MovesTo
  <2>2. ~(at'.block <= Before(l)) /\ ~(at'.block > Before(l) + B)
        /\ at'.block - Before(l) - 1 = b - 1
    BY ONLY <1>9, <2>1
  <2>3. Passed(l)' = x + (at.entry + 1) - 1
    BY <1>2, <1>3, <2>1, <2>2 DEF Passed, B
  <2>. QED BY <1>3, <1>4, <1>9, <2>3
<1>6. ASSUME at.entry = Len(Here.entries) /\ b = B
      PROVE  Passed(l)' = Passed(l) + 1
  <2>1. at'.block = at.block + 1
    BY <1>6, MovesTo
  <2>2. ~(at'.block <= Before(l)) /\ at'.block > Before(l) + B
    BY ONLY <1>6, <1>9, <2>1
  <2>3. Passed(l)' = Len(saved[l])
    BY <1>2, <2>2 DEF Passed, B
  <2>4. x + k = Len(saved[l])
    BY <1>1, <1>3, <1>6 DEF B
  <2>. QED BY <1>3, <1>4, <1>6, <2>3, <2>4
<1>7. ASSUME at.entry = Len(Here.entries) /\ b # B
      PROVE  Passed(l)' = Passed(l) + 1
  <2>1. at'.block = at.block + 1 /\ at'.entry = 1
    BY <1>7, MovesTo
  <2>2. ~(at'.block <= Before(l)) /\ ~(at'.block > Before(l) + B)
        /\ at'.block - Before(l) - 1 = b
    BY ONLY <1>7, <1>9, <2>1
  <2>3. Passed(l)' = b * BlockEntries + 1 - 1
    BY <1>2, <2>1, <2>2 DEF Passed, B
  <2>4. x + k = b * BlockEntries
    BY <1>1, <1>3, <1>7 DEF B
  <2>5. Passed(l)' = x + k
    BY <1>3, <2>3, <2>4
  <2>. QED BY <1>3, <1>4, <1>7, <2>5
<1>. QED BY <1>1, <1>4, <1>5, <1>6, <1>7 DEF B

LEMMA OnwardThere ==
  ASSUME Inv, phase = "recovering", NEW l \in Segment, Here.type = l, MovesOn, UNCHANGED saved,
         NEW m \in Segment, m # l
  PROVE  /\ Passed(m)' = Passed(m)
         /\ l = "protected" /\ m = "probation" => Passed(m) = 0
<1>0. TypesFile /\ at.block \in Nat
  BY DEF Inv, Types, TypesFile
<1>1. /\ at'.block \in Nat /\ at'.block <= Before(l) + BlocksOf(l) + 1 /\ at.block > Before(l)
      /\ at.block <= at'.block /\ (at'.block # at.block => at'.entry = 1)
      /\ at.block <= Before(l) + BlocksOf(l)
  <2>1. at.block <= Before(l) + BlocksOf(l)
    <3>1. PICK b \in 1..BlocksOf(l) : at.block = Before(l) + b
      BY ReadIs
    <3>2. Before(l) \in Nat /\ BlocksOf(l) \in Nat
      BY <1>0, Borders DEF Segment
    <3>. QED BY <3>1, <3>2
  <2>. QED BY <1>0, <2>1, MovesTo, OnwardHere
<1>2. /\ Before(m) \in Nat /\ Len(saved[m]) \in Nat /\ BlocksOf(m) \in Nat
      /\ Before(m)' = Before(m) /\ BlocksOf(m)' = BlocksOf(m)
  <2>1. Before(m) \in Nat
    BY <1>0, Borders DEF Segment
  <2>2. Len(saved[m]) \in Nat /\ BlocksOf(m) \in Nat
    BY <1>0, BlocksFill
  <2>. QED BY <2>1, <2>2 DEF Before, BlocksOf
<1>3. CASE Before(l) + BlocksOf(l) <= Before(m)
  <2>1. at.block <= Before(m) /\ at'.block <= Before(m) + 1
    <3>1. Before(l) \in Nat /\ BlocksOf(l) \in Nat
      BY <1>0, Borders DEF Segment
    <3>. QED BY <1>0, <1>1, <1>2, <1>3, <3>1
  <2>2. Passed(m) = 0
    BY <2>1 DEF Passed
  <2>3. Passed(m)' = 0
    <3>1. CASE at'.block = at.block
      BY <1>2, <2>1, <3>1 DEF Passed
    <3>2. CASE at'.block # at.block
      BY <1>0, <1>1, <2>1, <3>2, PassedBegins
    <3>. QED BY <3>1, <3>2
  <2>. QED BY <2>2, <2>3
<1>4. CASE Before(m) + BlocksOf(m) <= Before(l)
  <2>1. /\ ~(at.block <= Before(m)) /\ at.block > Before(m) + BlocksOf(m)
        /\ ~(at'.block <= Before(m)) /\ at'.block > Before(m) + BlocksOf(m)
    <3>1. Before(l) \in Nat
      BY <1>0, Borders DEF Segment
    <3>. QED BY <1>0, <1>1, <1>2, <1>4, <3>1
  <2>2. Passed(m) = Len(saved[m]) /\ Passed(m)' = Len(saved[m])
    BY <1>2, <2>1 DEF Passed
  <2>3. ~(l = "protected" /\ m = "probation") \/ Len(saved[m]) = 0
    <3>1. ~(l = "protected" /\ m = "probation") \/ BlocksOf(m) = 0
      BY <1>0, <1>4, Borders
    <3>. QED BY <1>0, <3>1, BlocksFill
  <2>. QED BY <2>2, <2>3
<1>5. Before(l) + BlocksOf(l) <= Before(m) \/ Before(m) + BlocksOf(m) <= Before(l)
  BY <1>0, Borders DEF Segment
<1>. QED BY <1>3, <1>4, <1>5

-----------------------------------------------------------------------------
(* What is read is kept, or not.                                           *)

LEMMA PassedIn ==
  ASSUME Inv, phase = "recovering", NEW m \in Segment
  PROVE  Passed(m) \in 0..Len(saved[m]) /\ Len(saved[m]) \in Nat
<1>1. TypesFile /\ LaidOut /\ at.block \in Nat
  BY DEF Inv, Types, TypesFile, Layout
<1>2. Before(m) \in Nat /\ BlocksOf(m) \in Nat
  BY <1>1, Borders DEF Segment
<1>3. Len(saved[m]) \in Nat
  BY <1>1, BlocksFill
<1>4. CASE at.block <= Before(m)
  BY <1>3, <1>4 DEF Passed
<1>5. CASE at.block > Before(m) + BlocksOf(m)
  <2>1. ~(at.block <= Before(m))
    BY <1>1, <1>2, <1>5
  <2>. QED BY <1>3, <1>5, <2>1 DEF Passed
<1>6. CASE ~(at.block <= Before(m)) /\ ~(at.block > Before(m) + BlocksOf(m))
  <2>1. PICK b \in 1..BlocksOf(m) : at.block = Before(m) + b
    <3>1. at.block - Before(m) \in 1..BlocksOf(m) /\ at.block = Before(m) + (at.block - Before(m))
      BY <1>1, <1>2, <1>6
    <3>. QED BY <3>1
  <2>2. Here.type = m
    BY <1>1, <2>1 DEF LaidOut, Here
  <2>3. PICK c \in 1..BlocksOf(m) :
           /\ at.entry \in 1..Len(Here.entries)
           /\ (c - 1) * BlockEntries \in Nat
           /\ Len(Here.entries) \in Nat
           /\ (c - 1) * BlockEntries + Len(Here.entries) <= Len(saved[m])
           /\ Passed(m) = (c - 1) * BlockEntries + at.entry - 1
    BY <2>2, ReadIs
  <2>4. PICK x, k \in Nat : x = (c - 1) * BlockEntries /\ k = Len(Here.entries)
    BY <2>3
  <2>5. at.entry \in 1..k /\ x + k <= Len(saved[m]) /\ Passed(m) = x + at.entry - 1
    BY <2>3, <2>4
  <2>. QED BY ONLY <1>3, <2>4, <2>5
<1>. QED BY <1>4, <1>5, <1>6

LEMMA TakenIs ==
  ASSUME Inv, phase = "recovering", NEW m \in Segment
  PROVE  /\ Taken(m) \in Seq(PentryType) /\ Len(Taken(m)) \in Nat /\ Len(Taken(m)) <= Passed(m)
         /\ ToSet(Taken(m)) = {saved[m][i] : i \in (1..Passed(m)) \cap InTime(m)}
         /\ Passed(m) = 0 => Taken(m) = << >>
<1>1. saved[m] \in Seq(PentryType)
  BY DEF Inv, Types, TypesFile
<1>2. Passed(m) \in 0..Len(saved[m])
  BY PassedIn
<1>3. /\ Taken(m) \in Seq(PentryType) /\ Len(Taken(m)) <= Passed(m)
      /\ ToSet(Taken(m)) = {saved[m][i] : i \in (1..Passed(m)) \cap InTime(m)}
  BY <1>1, <1>2, KeptSeq DEF Taken
<1>4. Passed(m) = 0 => Taken(m) = << >>
  BY <1>1, KeptIs DEF Taken
<1>. QED BY <1>3, <1>4

\* What moving on does to the entries that have been passed.
LEMMA TakenOnward ==
  ASSUME Inv, phase = "recovering", NEW l \in Segment, Here.type = l, MovesOn, UNCHANGED saved
  PROVE  /\ Taken(l)' = IF Passed(l) + 1 \in InTime(l)
                          THEN Append(Taken(l), saved[l][Passed(l) + 1]) ELSE Taken(l)
         /\ \A m \in Segment : m # l => Taken(m)' = Taken(m)
<1>1. \A m \in Segment : InTime(m)' = InTime(m)
  BY MovesTo DEF InTime
<1>2. Passed(l)' = Passed(l) + 1 /\ Passed(l) \in Nat /\ Passed(l) + 1 <= Len(saved[l])
  BY OnwardHere
<1>3. saved[l] \in Seq(PentryType) /\ Len(saved[l]) \in Nat
  BY DEF Inv, Types, TypesFile
<1>4. PICK n \in 1..Len(saved[l]) : n = Passed(l) + 1 /\ n - 1 = Passed(l)
  BY <1>2, <1>3
<1>5. Kept(saved[l], InTime(l))[n] = IF n \in InTime(l)
                                       THEN Append(Kept(saved[l], InTime(l))[n - 1], saved[l][n])
                                       ELSE Kept(saved[l], InTime(l))[n - 1]
  BY <1>3, KeptIs
<1>6. Taken(l)' = Kept(saved[l], InTime(l))[n]
  BY <1>1, <1>2, <1>4 DEF Taken
<1>7. Taken(l) = Kept(saved[l], InTime(l))[n - 1]
  BY <1>4 DEF Taken
<1>8. \A m \in Segment : m # l => Taken(m)' = Taken(m)
  BY <1>1, OnwardThere DEF Taken
<1>. QED BY <1>4, <1>5, <1>6, <1>7, <1>8

\* The code's test of a deadline is the test against real time.
LEMMA InTimeIs ==
  ASSUME Inv, phase = "recovering", at.block > 1, NEW l \in Segment, NEW i \in 1..Len(saved[l])
  PROVE  i \in InTime(l)
           <=> ~(saved[l][i].expire # 0 /\ saved[l][i].expire < NowNano)
<1>1. saved[l] \in Seq(PentryType) /\ DOMAIN saved[l] = 1..Len(saved[l])
  BY DEF Inv, Types, TypesFile
<1>2. PICK x, due \in Nat : x = saved[l][i].expire /\ due = saved[l][i].due
  <2>1. saved[l][i] \in PentryType
    BY <1>1
  <2>2. saved[l][i].expire \in Nat /\ saved[l][i].due \in Nat
    BY <2>1 DEF PentryType
  <2>. QED BY <2>2
<1>3. PICK st \in Nat : st = file.start /\ st <= now /\ start = st
  BY DEF Inv, Types, TypesFile, TypesClock, Ticking
<1>4. IF due = 0 THEN x = 0 ELSE due > st /\ x = AtMost(due - st, MaxInt)
  BY <1>1, <1>2, <1>3 DEF Inv, AllTimed, Timed
<1>5. now \in Nat /\ now <= MaxInt /\ MaxInt \in Nat /\ at.time = now
  BY BoundsAssumption DEF Inv, Types, TypesClock, Ticking
<1>6. i \in InTime(l) <=> x = 0 \/ due >= now
  BY <1>1, <1>2, <1>5 DEF InTime
<1>7. (x = 0 \/ due >= now) <=> ~(x # 0 /\ x < now - st)
  <2>1. CASE due = 0
    BY <1>4, <2>1
  <2>2. CASE due # 0 /\ due - st < MaxInt
    <3>1. x = due - st /\ due > st
      BY <1>4, <2>2 DEF AtMost
    <3>. QED BY ONLY <1>2, <1>3, <1>5, <3>1, x \in Nat, due \in Nat, st \in Nat
  <2>3. CASE due # 0 /\ ~(due - st < MaxInt)
    <3>1. x = MaxInt
      BY <1>4, <2>3 DEF AtMost
    <3>. QED BY ONLY <1>2, <1>3, <1>5, <2>3, <3>1, x \in Nat, due \in Nat, st \in Nat
  <2>. QED BY <2>1, <2>2, <2>3
<1>. QED BY <1>2, <1>3, <1>6, <1>7 DEF NowNano

LEMMA UpTo == \A n \in Nat : IsFiniteSet(1..n)
  BY FS_Interval

LEMMA TotalAtInt ==
  ASSUME NEW S, IsFiniteSet(S), NEW d, NEW s, \A i \in S : d[s[i]].weight \in Int
  PROVE  TotalAt(d, s, S) \in Int
<1>. DEFINE f == [i \in S |-> d[s[i]].weight]
<1>1. \A i \in S : f[i] \in Int
  OBVIOUS
<1>. HIDE DEF f
<1>2. SumOver(f, S) \in Int
  BY <1>1, SumInt
<1>. QED BY <1>2 DEF f, TotalAt

LEMMA TotalAtEqual ==
  ASSUME NEW S, IsFiniteSet(S), NEW d, NEW t, NEW s, \A i \in S : d[s[i]].weight = t[s[i]].weight
  PROVE  TotalAt(d, s, S) = TotalAt(t, s, S)
<1>. DEFINE f == [i \in S |-> d[s[i]].weight]
            h == [i \in S |-> t[s[i]].weight]
<1>1. \A i \in S : f[i] = h[i]
  OBVIOUS
<1>. HIDE DEF f, h
<1>2. SumOver(f, S) = SumOver(h, S)
  BY <1>1, SumEqual
<1>. QED BY <1>2 DEF f, h, TotalAt

\* The room Recover looks for, in sums.
LEMMA HasRoomIs ==
  ASSUME Inv, NEW l \in Segment
  PROVE  /\ HasRoom(l) <=> Base(l) + TotalAt(data, list[l], DOMAIN list[l]) < Limit(l)
         /\ Base(l) \in Int /\ TotalAt(data, list[l], DOMAIN list[l]) \in Int /\ Limit(l) \in Nat
<1>1. \A m \in Segment : IsFiniteSet(DOMAIN list[m]) /\ \A i \in DOMAIN list[m] : data[list[m][i]].weight \in Int
  <2>. SUFFICES ASSUME NEW m \in Segment
                PROVE  IsFiniteSet(DOMAIN list[m]) /\ \A i \in DOMAIN list[m] : data[list[m][i]].weight \in Int
    OBVIOUS
  <2>1. list[m] \in Seq(Entry) /\ DOMAIN list[m] = 1..Len(list[m]) /\ Len(list[m]) \in Nat
    BY DEF Inv, Types, TypesStore
  <2>2. IsFiniteSet(DOMAIN list[m])
    BY <2>1, FS_Interval
  <2>. QED BY <2>1, <2>2 DEF Inv, Types, TypesStore, EntryType
<1>2. \A m \in Segment : /\ Len_(m) = TotalAt(data, list[m], DOMAIN list[m])
                         /\ TotalAt(data, list[m], DOMAIN list[m]) \in Int
  BY <1>1, LengthUnfold, TotalAtInt DEF Len_
<1>3. sizes.window \in Nat /\ sizes.protected \in Nat /\ sizes.main \in Nat
  BY DEF Inv, Types, TypesStore
<1>4. CASE l = "window"
  BY <1>2, <1>3, <1>4 DEF HasRoom, Base, Limit
<1>5. CASE l = "protected"
  BY <1>2, <1>3, <1>5 DEF HasRoom, Base, Limit
<1>6. CASE l = "probation"
  BY <1>2, <1>3, <1>6 DEF HasRoom, Base, Limit, Segment
<1>. QED BY <1>4, <1>5, <1>6 DEF Segment

\* The cost of the entries that were kept is the length of the list.
LEMMA LengthTaken ==
  ASSUME Inv, phase = "recovering", NEW l \in Segment
  PROVE  TotalAt(data, list[l], DOMAIN list[l]) = CostOf(Taken(l), Len(list[l]))
<1>1. list[l] \in Seq(Entry) /\ DOMAIN list[l] = 1..Len(list[l]) /\ Len(list[l]) \in Nat
  BY DEF Inv, Types, TypesStore
<1>2. IsFiniteSet(1..Len(list[l]))
  BY <1>1, UpTo
<1>3. \A i \in 1..Len(list[l]) : data[list[l][i]].weight = Taken(l)[i].weight
  BY DEF Inv, Faithful, Loading, Restored, Same
<1>. QED BY <1>1, <1>2, <1>3, LengthIsCost DEF CostOf

LEMMA CostAppend ==
  ASSUME NEW S, NEW t \in Seq(S), NEW p \in S, NEW m \in 0..Len(t)
  PROVE  CostOf(Append(t, p), m) = CostOf(t, m)
<1>1. Len(t) \in Nat /\ \A i \in 1..m : Append(t, p)[i].weight = t[i].weight
  OBVIOUS
<1>2. m \in Nat /\ IsFiniteSet(1..m)
  BY <1>1, UpTo
<1>. QED BY <1>1, <1>2, TotalEqual DEF CostOf

\* The place Recover comes to is in the file.
LEMMA PlaceKeeps ==
  ASSUME Inv, Recovering, NEW l \in Segment, Here.type = l, MovesOn,
         UNCHANGED <<phase, start, ticked>>
  PROVE  /\ TypesClock' /\ TypesFile' /\ Ticking' /\ Layout' /\ Reading'
         /\ at.block > 1 /\ at'.block > 1 /\ start = file.start
<1>1. /\ phase = "recovering" /\ phase' = "recovering"
      /\ UNCHANGED <<pending, now, cached, file, saved, good, start, ticked>>
  BY DEF Recovering
<1>2. /\ at' \in [block : Nat \ {0}, entry : Nat \ {0}, time : Nat] /\ at'.time = at.time
      /\ at.entry = Len(Here.entries) => at'.block = at.block + 1 /\ at'.entry = 1
      /\ at.entry # Len(Here.entries) => at'.block = at.block /\ at'.entry = at.entry + 1
  BY MovesTo
<1>3. TypesFile /\ at.block \in Nat \ {0} /\ at.block <= EndBlock
  BY <1>1 DEF Inv, Types, TypesFile, Reading
<1>4. at.block > 1 /\ at.block # EndBlock
  BY <1>1, <1>3, Place DEF Segment
<1>5. start = file.start /\ ~ticked
  BY <1>1, <1>4 DEF Inv, Ticking
<1>6. TypesClock'
  BY <1>1 DEF Inv, Types, TypesClock, NowNano
<1>7. TypesFile'
  BY <1>1, <1>2 DEF Inv, Types, TypesFile
<1>8. Ticking'
  BY <1>1, <1>2, <1>5 DEF Inv, Ticking
<1>9. Layout' /\ EndBlock' = EndBlock
  BY <1>1, LayoutSame DEF Inv
<1>10. at'.block <= EndBlock /\ at'.block > 1
  <2>1. EndBlock \in Nat
    BY <1>3, Borders
  <2>. QED BY <1>2, <1>3, <1>4, <2>1
<1>11. at'.entry \in 1..AtLeast(1, Len(Here'.entries))
  <2>1. CASE at.entry = Len(Here.entries)
    BY <1>2, <2>1 DEF AtLeast
  <2>2. CASE at.entry # Len(Here.entries)
    <3>1. at.entry + 1 \in 1..Len(Here.entries)
      BY <1>1, <2>2, OnwardHere
    <3>2. Here' = Here
      BY <1>1, <1>2, <2>2 DEF Here
    <3>. QED BY <1>2, <2>2, <3>1, <3>2 DEF AtLeast
  <2>. QED BY <2>1, <2>2
<1>12. Reading'
  BY <1>1, <1>9, <1>10, <1>11 DEF Inv, Reading
<1>. QED BY <1>4, <1>5, <1>6, <1>7, <1>8, <1>9, <1>10, <1>12

\* A list that is not added to is still what it was made of.
LEMMA RestoredOn ==
  ASSUME Inv, phase = "recovering", NEW m \in Segment, list'[m] = list[m], Taken(m)' = Taken(m),
         UNCHANGED sizes, Base(m)' = Base(m) \/ Taken(m) = << >>,
         \A e \in ToSet(list[m]) : data'[e] = data[e],
         \A k \in Key : Estimates[k] \in Nat /\ Estimates'[k] \in Nat /\ Estimates[k] <= Estimates'[k]
  PROVE  Restored(m)'
<1>1. Restored(m)
  BY DEF Inv, Faithful, Loading
<1>2. list[m] \in Seq(Entry) /\ Len(list[m]) \in Nat
  BY DEF Inv, Types, TypesStore
<1>3. Taken(m) \in Seq(PentryType) /\ Len(Taken(m)) \in Nat
  BY TakenIs
<1>4. Limit(m)' = Limit(m)
  BY DEF Limit
<1>5. PICK n \in Nat : n = Len(list[m]) /\ n <= Len(Taken(m))
  BY <1>1, <1>2 DEF Restored
<1>6. ASSUME NEW i \in 1..n PROVE Same(data'[list[m][i]], Taken(m)[i], Estimates')
  <2>1. list[m][i] \in ToSet(list[m])
    BY <1>2, <1>5, SetOfIs
  <2>2. Same(data[list[m][i]], Taken(m)[i], Estimates)
    BY <1>1, <1>5 DEF Restored
  <2>3. Taken(m)[i] \in PentryType
    BY <1>3, <1>5
  <2>4. Taken(m)[i].key \in Key /\ Taken(m)[i].freq \in Nat
    BY <2>3, SketchAssumption DEF PentryType
  <2>. QED BY <2>1, <2>2, <2>4 DEF Same
<1>7. CASE Base(m)' = Base(m)
  BY <1>1, <1>4, <1>5, <1>6, <1>7 DEF Restored
<1>8. CASE Taken(m) = << >>
  <2>1. n = 0 /\ Len(Taken(m)) = 0
    BY <1>5, <1>8
  <2>. QED BY <1>5, <1>8, <2>1 DEF Restored
<1>. QED BY <1>7, <1>8

\* The least of a key's counters.
LEMMA LeastIs ==
  ASSUME NEW P, P # {}, NEW t, \A p \in P : t[p] \in Nat, NEW c,
         c = CHOOSE n \in {t[p] : p \in P} : \A p \in P : n <= t[p]
  PROVE  c \in {t[p] : p \in P} /\ \A p \in P : c <= t[p]
<1>. DEFINE T == {t[p] : p \in P}
<1>1. T \in SUBSET Nat /\ T # {}
  OBVIOUS
<1>. HIDE DEF T
<1>2. PICK x \in T : \A y \in T : x <= y
  BY <1>1, Least
<1>. QED BY <1>2 DEF T

LEMMA EstimatesNat ==
  ASSUME SketchTypeOK, NEW k \in Key
  PROVE  Estimates[k] \in Nat /\ \A p \in Places(k) : Estimates[k] <= table[p]
<1>1. Places(k) \subseteq Counters(size) /\ Places(k) # {}
  BY PlacesIn
<1>2. \A p \in Places(k) : table[p] \in Nat
  BY <1>1, SketchAssumption DEF SketchTypeOK
<1>3. Estimates[k] = CHOOSE n \in {table[p] : p \in Places(k)} : \A p \in Places(k) : n <= table[p]
  BY DEF Estimates, Estimate
<1>4. /\ Estimates[k] \in {table[p] : p \in Places(k)}
      /\ \A p \in Places(k) : Estimates[k] <= table[p]
  <2>1. PICK c : c = Estimates[k]
    OBVIOUS
  <2>. QED BY <1>1, <1>2, <1>3, <2>1, LeastIs
<1>. QED BY <1>2, <1>4

\* Addn raises the estimate of its key to what was saved, and lowers none.
LEMMA AddnRaises ==
  ASSUME SketchInv, NEW k \in Key, NEW n \in 0..MaxCount, Addn(k, n)
  PROVE  /\ \A j \in Key : /\ Estimates[j] \in Nat /\ Estimates'[j] \in Nat
                           /\ Estimates[j] <= Estimates'[j]
         /\ n <= Estimates'[k]
<1>1. /\ SketchTypeOK /\ MaxCount \in Nat /\ n \in Nat /\ n <= MaxCount
      /\ table' = Inc(n, k) /\ UNCHANGED size
  BY SketchAssumption DEF SketchInv, Addn
<1>2. \A j \in Key : Places(j)' = Places(j)
  BY <1>1, SamePlaces
<1>3. ASSUME NEW j \in Key
      PROVE  /\ Estimates[j] \in Nat /\ Estimates'[j] \in Nat /\ Estimates[j] <= Estimates'[j]
             /\ j = k => n <= Estimates'[j]
  <2>1. Places(j) \subseteq Counters(size) /\ Places(j) # {}
    BY <1>1, PlacesIn
  <2>2. \A p \in Places(j) : /\ table[p] \in Nat /\ table[p] <= MaxCount /\ table'[p] \in Nat
                             /\ table[p] <= table'[p] /\ (j = k => n <= table'[p])
    BY <1>1, <2>1 DEF Inc, AtMost, SketchTypeOK
  <2>3. Estimates'[j] = CHOOSE m \in {table'[p] : p \in Places(j)} : \A p \in Places(j) : m <= table'[p]
    BY <1>2 DEF Estimates, Estimate
  <2>4. Estimates'[j] \in {table'[p] : p \in Places(j)}
    <3>1. PICK c, t : c = Estimates'[j] /\ t = table'
      OBVIOUS
    <3>. QED BY <2>1, <2>2, <2>3, <3>1, LeastIs
  <2>5. PICK p \in Places(j) : Estimates'[j] = table'[p]
    BY <2>4
  <2>6. Estimates[j] \in Nat /\ Estimates[j] <= table[p]
    BY <1>1, EstimatesNat
  <2>. QED BY <1>1, <2>2, <2>5, <2>6
<1>. QED BY <1>3

\* An entry past its deadline, or one there is no room for, is passed over.
LEMMA SkipKeeps ==
  ASSUME Inv, Recovering, NEW l \in Segment, Here.type = l, MovesOn,
         UNCHANGED <<phase, start, ticked, sizes, map, data, listVars, sketchVars, doorVars>>,
         \/ saved[l][Passed(l) + 1].expire # 0 /\ saved[l][Passed(l) + 1].expire < NowNano
         \/ ~HasRoom(l)
  PROVE  Inv' /\ FilterStep
<1>1. /\ phase = "recovering" /\ phase' = "recovering"
      /\ UNCHANGED <<settling, pending, now, cached, file, saved, good, start, ticked, sizes, map,
                     data, list, wheel, weighted, sketchVars, doorVars>>
  BY DEF Recovering, listVars
<1>2. /\ TypesClock' /\ TypesFile' /\ Ticking' /\ Layout' /\ Reading'
      /\ at.block > 1 /\ at'.block > 1
  BY PlaceKeeps
<1>3. FilterStep
  BY <1>1, FilterSame
<1>4. Listed' = Listed /\ Mapped' = Mapped
  BY <1>1 DEF Listed, Mapped
<1>5. TypesStore' /\ Apart' /\ Keyed' /\ AllTimed'
  BY <1>1, <1>4 DEF Inv, Types, TypesStore, Apart, Keyed, AllTimed
<1>6. Quiet'
  BY <1>1, <1>2 DEF Inv, Quiet, Unread
<1>7. Whole'
  <2>1. SavedTwice' <=> SavedTwice
    BY <1>1 DEF SavedTwice, SavedKeys
  <2>. QED BY <1>1, <1>4, <2>1 DEF Inv, Whole
<1>8. SketchTypeOK /\ Estimates' = Estimates /\ \A m \in Segment : Base(m)' = Base(m)
  BY <1>1 DEF Inv, FiltersInv, SketchInv, Estimates, Estimate, Places, IndexOf, sketchVars, Base
<1>9. ASSUME NEW m \in Segment, Taken(m)' = Taken(m) PROVE Restored(m)'
  <2>1. \A k \in Key : /\ Estimates[k] \in Nat /\ Estimates'[k] \in Nat
                       /\ Estimates[k] <= Estimates'[k]
    BY <1>8, EstimatesNat
  <2>. QED BY <1>1, <1>8, <1>9, <2>1, RestoredOn
<1>10. Restored(l)'
  <2>1. PICK i \in 1..Len(saved[l]) : i = Passed(l) + 1
    <3>1. Passed(l) \in Nat /\ Passed(l) + 1 <= Len(saved[l]) /\ Len(saved[l]) \in Nat
      BY <1>1, OnwardHere, PassedIn
    <3>. QED BY <3>1
  <2>2. CASE i \notin InTime(l)
    <3>1. Taken(l)' = Taken(l)
      BY <1>1, <2>1, <2>2, TakenOnward
    <3>. QED BY <1>9, <3>1
  <2>3. CASE i \in InTime(l)
    <3>1. Taken(l)' = Append(Taken(l), saved[l][i])
      BY <1>1, <2>1, <2>3, TakenOnward
    <3>2. ~HasRoom(l)
      BY <1>1, <1>2, <2>1, <2>3, InTimeIs
    <3>3. PICK t \in Seq(PentryType) : t = Taken(l)
      BY <1>1, TakenIs
    <3>4. PICK p \in PentryType : p = saved[l][i]
      BY DEF Inv, Types, TypesFile
    <3>5. Restored(l)
      BY <1>1 DEF Inv, Faithful, Loading
    <3>6. PICK n \in Nat : n = Len(list[l])
      BY DEF Inv, Types, TypesStore
    <3>7. /\ n <= Len(t) /\ Len(t) \in Nat
          /\ \A j \in 1..n : Same(data[list[l][j]], t[j], Estimates)
          /\ \A m \in 0..(n - 1) : Base(l) + CostOf(t, m) < Limit(l)
      BY <3>3, <3>5, <3>6 DEF Restored
    <3>8. Base(l) + CostOf(t, n) >= Limit(l)
      <4>1. CostOf(t, n) = TotalAt(data, list[l], DOMAIN list[l])
        BY <1>1, <3>3, <3>6, LengthTaken
      <4>2. PICK a, b, c \in Int : a = Base(l) /\ b = CostOf(t, n) /\ c = Limit(l) /\ ~(a + b < c)
        BY <3>2, <4>1, HasRoomIs
      <4>3. a + b >= c
        BY <4>2
      <4>. QED BY <4>2, <4>3
    <3>9. PICK u : u = Append(t, p)
      OBVIOUS
    <3>10. /\ Len(u) = Len(t) + 1 /\ \A j \in 1..Len(t) : u[j] = t[j]
           /\ \A m \in 0..Len(t) : CostOf(u, m) = CostOf(t, m)
      BY <3>7, <3>9, CostAppend
    <3>11. Taken(l)' = u /\ list'[l] = list[l] /\ Limit(l)' = Limit(l)
      BY <1>1, <3>1, <3>3, <3>4, <3>9 DEF Limit
    <3>12. n <= Len(u) /\ \A j \in 1..n : Same(data[list[l][j]], u[j], Estimates)
      BY <3>7, <3>10
    <3>13. \A m \in 0..(n - 1) : Base(l) + CostOf(u, m) < Limit(l)
      BY <3>7, <3>10
    <3>14. Base(l) + CostOf(u, n) >= Limit(l)
      BY <3>7, <3>8, <3>10
    <3>. QED BY <1>1, <1>8, <3>6, <3>11, <3>12, <3>13, <3>14 DEF Restored
  <2>. QED BY <2>2, <2>3
<1>11. Faithful'
  <2>1. \A m \in Segment : Restored(m)'
    BY <1>1, <1>9, <1>10, TakenOnward
  <2>. QED BY <1>1, <1>4, <2>1 DEF Inv, Faithful, Loading
<1>12. FiltersInv'
  BY <1>3, FilterKeeps DEF Inv
<1>. QED BY <1>2, <1>3, <1>5, <1>6, <1>7, <1>11, <1>12 DEF Inv, Types

\* The entry that is used next is one that is free.
LEMMA NextEntry ==
  ASSUME Inv, phase = "recovering", NEW l \in Segment, Here.type = l, MovesOn, UNCHANGED saved
  PROVE  LET n == Len(list["window"]) + Len(list["protected"]) + Len(list["probation"])
         IN  /\ n \in Nat /\ Listed = 1..n /\ 1 + Cardinality(Listed) = n + 1
             /\ n + 1 \in Entry /\ n + 1 \notin Listed
<1>. DEFINE W == Len(list["window"])
            P == Len(list["protected"])
            Q == Len(list["probation"])
            n == W + P + Q
<1>1. W \in Nat /\ P \in Nat /\ Q \in Nat /\ n \in Nat
  BY DEF Inv, Types, TypesStore, Segment
<1>2. Listed = 1..n
  BY DEF Inv, Faithful
<1>3. ASSUME NEW m \in Segment
      PROVE  /\ Len(list[m]) <= Len(saved[m]) /\ Len(saved[m]) \in Nat
             /\ m = l => Len(list[m]) < Len(saved[m])
  <2>1. Len(list[m]) \in Nat /\ Len(list[m]) <= Len(Taken(m))
    BY DEF Inv, Types, TypesStore, Faithful, Loading, Restored
  <2>2. Len(Taken(m)) \in Nat /\ Len(Taken(m)) <= Passed(m)
    BY TakenIs
  <2>3. Passed(m) \in 0..Len(saved[m]) /\ Len(saved[m]) \in Nat
    BY PassedIn
  <2>4. m = l => Passed(m) + 1 <= Len(saved[m])
    BY OnwardHere
  <2>. QED BY <2>1, <2>2, <2>3, <2>4
<1>4. n < MaxEntries
  <2>1. Len(saved["window"]) + Len(saved["protected"]) + Len(saved["probation"]) <= MaxEntries
    BY DEF Inv, Layout, LaidOut
  <2>2. PICK x, y, z \in Nat : /\ x = Len(saved["window"]) /\ y = Len(saved["protected"])
                               /\ z = Len(saved["probation"])
    BY <1>3 DEF Segment
  <2>3. W <= x /\ P <= y /\ Q <= z /\ (W < x \/ P < y \/ Q < z)
    BY <1>3, <2>2 DEF Segment
  <2>4. x + y + z <= MaxEntries /\ MaxEntries \in Nat
    BY <2>1, <2>2, BoundsAssumption
  <2>5. PICK a, b, c \in Nat : a = W /\ b = P /\ c = Q
    BY <1>1
  <2>6. a <= x /\ b <= y /\ c <= z /\ (a < x \/ b < y \/ c < z)
    BY <2>3, <2>5
  <2>7. a + b + c < MaxEntries
    BY ONLY <2>4, <2>6, a \in Nat, b \in Nat, c \in Nat, x \in Nat, y \in Nat, z \in Nat
  <2>. QED BY <2>5, <2>7
<1>. HIDE DEF n
<1>5. Cardinality(1..n) = n
  <2>1. 1 > n => n = 0
    BY <1>1
  <2>2. n - 1 + 1 = n
    BY <1>1
  <2>. QED BY <1>1, <2>1, <2>2, FS_Interval
<1>6. 1 + n = n + 1 /\ n + 1 \in Entry /\ n + 1 \notin 1..n
  BY <1>1, <1>4, BoundsAssumption DEF Entry
<1>. QED BY <1>1, <1>2, <1>5, <1>6 DEF n

LEMMA PentryParts == \A q \in PentryType : q.key \in Key /\ q.freq \in Nat
  BY SketchAssumption DEF PentryType

LEMMA AppendParts ==
  ASSUME NEW S, NEW s \in Seq(S), NEW e \in S
  PROVE  /\ Len(Append(s, e)) = Len(s) + 1 /\ Append(s, e)[Len(s) + 1] = e
         /\ \A j \in 1..Len(s) : Append(s, e)[j] = s[j]
  OBVIOUS

\* An entry that is in time and has room becomes the last of its list.
LEMMA TakeKeeps ==
  ASSUME Inv, Recovering, NEW l \in Segment, Here.type = l, MovesOn, NEW p, NEW e,
         UNCHANGED <<phase, start, ticked, sizes>>,
         p = saved[l][Passed(l) + 1], e = 1 + Cardinality(Listed),
         ~(p.expire # 0 /\ p.expire < NowNano), HasRoom(l),
         list' = [list EXCEPT ![l] = Append(@, e)], InsertSimple(e, p), Addn(p.key, p.freq),
         weighted' = weighted + p.weight
  PROVE  Inv' /\ FilterStep
<1>. DEFINE n == Len(list["window"]) + Len(list["protected"]) + Len(list["probation"])
            r == [key |-> p.key, weight |-> p.weight, expire |-> p.expire, due |-> p.due]
<1>1. /\ phase = "recovering" /\ phase' = "recovering" /\ pending = {} /\ ~settling
      /\ UNCHANGED <<settling, pending, now, cached, file, saved, good, start, ticked, sizes>>
  BY DEF Recovering, Inv, Quiet
<1>2. /\ TypesClock' /\ TypesFile' /\ Ticking' /\ Layout' /\ Reading'
      /\ at.block > 1 /\ at'.block > 1 /\ start = file.start
  BY PlaceKeeps
<1>3. e = n + 1 /\ n \in Nat /\ Listed = 1..n /\ e \in Entry /\ e \notin Listed
  BY <1>1, NextEntry
<1>4. PICK i \in 1..Len(saved[l]) : i = Passed(l) + 1
  <2>1. Passed(l) \in Nat /\ Passed(l) + 1 <= Len(saved[l]) /\ Len(saved[l]) \in Nat
    BY <1>1, OnwardHere, PassedIn
  <2>. QED BY <2>1
<1>5. p \in PentryType /\ Timed(p, file.start)
  BY <1>4 DEF Inv, Types, TypesFile, AllTimed
<1>6. /\ p.key \in Key /\ p.weight \in Nat /\ p.expire \in Nat /\ p.due \in Nat
      /\ p.freq \in 0..MaxCount
  BY <1>5 DEF PentryType
<1>7. /\ data' = [data EXCEPT ![e] = r] /\ map' = [map EXCEPT ![p.key] = e]
      /\ wheel' = (IF p.expire # 0 THEN wheel \cup {e} ELSE wheel)
      /\ EnsureDoor(Cardinality(Mapped \cup {p.key})) /\ UNCHANGED counter
  BY DEF InsertSimple
<1>8. /\ r \in EntryType /\ r.key = p.key /\ r.weight = p.weight /\ r.expire = p.expire
      /\ r.due = p.due
  BY <1>6 DEF EntryType
<1>. HIDE DEF r, n
<1>9. /\ data' \in [Entry -> EntryType] /\ data'[e] = r
      /\ \A f \in Entry : f # e => data'[f] = data[f]
  BY <1>3, <1>7, <1>8 DEF Inv, Types, TypesStore
<1>10. /\ map' \in [Key -> Entry \cup {None}] /\ map'[p.key] = e
       /\ \A k \in Key : k # p.key => map'[k] = map[k]
  BY <1>3, <1>6, <1>7 DEF Inv, Types, TypesStore
<1>11. Lists' /\ Listed' = Listed \cup {e}
  BY <1>3, AppendLists DEF Inv, Types, TypesStore, Lists
<1>12. FilterStep
  <2>1. SketchStep
    BY <1>6 DEF SketchStep
  <2>2. DoorStep
    BY <1>6, <1>7, MappedCount DEF DoorStep
  <2>. QED BY <2>1, <2>2 DEF FilterStep
<1>13. TypesStore' /\ Apart'
  BY <1>1, <1>9, <1>10, <1>11 DEF Inv, Types, TypesStore, Lists
<1>14. \A f \in Listed : f \in Entry /\ f # e /\ data'[f] = data[f] /\ data[f].key \in Key
  BY <1>3, <1>9, ListedEntries DEF Inv, Types, TypesStore, Keyed
<1>15. \A k \in Mapped : map[k] \in Listed /\ data[map[k]].key = k
  BY <1>1 DEF Inv, Whole
<1>16. ASSUME NEW k \in Mapped' PROVE map'[k] \in Listed' /\ data'[map'[k]].key = k
  <2>1. CASE k = p.key
    BY <1>8, <1>9, <1>10, <1>11, <2>1
  <2>2. CASE k # p.key
    BY <1>10, <1>11, <1>14, <1>15, <1>16, <2>2 DEF Mapped
  <2>. QED BY <2>1, <2>2
<1>17. Keyed'
  <2>1. \A f \in Listed' : data'[f].key \in Key
    BY <1>6, <1>8, <1>9, <1>11, <1>14
  <2>. QED BY <1>1, <1>16, <2>1 DEF Keyed, Mapped
<1>18. AllTimed'
  <2>1. Timed(r, start)
    BY <1>2, <1>5, <1>8 DEF Timed
  <2>2. \A f \in Entry : Timed(data'[f], start)
    BY <1>9, <2>1 DEF Inv, AllTimed
  <2>. QED BY <1>1, <2>2 DEF Inv, AllTimed
<1>19. Quiet'
  BY <1>1, <1>2 DEF Quiet, Unread
<1>20. FiltersInv'
  BY <1>12, FilterKeeps DEF Inv
<1>21. /\ \A j \in Key : /\ Estimates[j] \in Nat /\ Estimates'[j] \in Nat
                         /\ Estimates[j] <= Estimates'[j]
       /\ p.freq <= Estimates'[p.key]
  BY <1>6, AddnRaises DEF Inv, FiltersInv
<1>22. Whole'
  <2>1. SavedTwice' <=> SavedTwice
    BY <1>1 DEF SavedTwice, SavedKeys
  <2>2. ASSUME NEW f \in Listed, data[f].key = p.key PROVE SavedTwice
    <3>1. PICK m \in Segment : f \in ToSet(list[m])
      BY ListedIs
    <3>2. PICK j \in 1..Len(list[m]) : list[m][j] = f
      BY <3>1, SetOfIs DEF Inv, Types, TypesStore
    <3>3. /\ Len(list[m]) \in Nat /\ Len(list[m]) <= Len(Taken(m))
          /\ Same(data[list[m][j]], Taken(m)[j], Estimates)
      <4>1. Restored(m)
        BY <1>1 DEF Inv, Faithful, Loading
      <4>2. Len(list[m]) \in Nat
        BY DEF Inv, Types, TypesStore
      <4>. QED BY <3>2, <4>1, <4>2 DEF Restored
    <3>4. PICK t \in Seq(PentryType) : t = Taken(m)
      BY <1>1, TakenIs
    <3>5. t[j] \in ToSet(t) /\ t[j].key = p.key
      <4>1. j \in 1..Len(t) /\ Len(t) \in Nat
        BY <3>2, <3>3, <3>4
      <4>. QED BY <2>2, <3>2, <3>3, <3>4, <4>1, SetOfIs DEF Same
    <3>6. ToSet(t) = {saved[m][x] : x \in (1..Passed(m)) \cap InTime(m)}
      BY <1>1, <3>4, TakenIs
    <3>7. PICK x \in (1..Passed(m)) \cap InTime(m) : t[j] = saved[m][x]
      BY <3>5, <3>6
    <3>8. x \in DOMAIN saved[m] /\ i \in DOMAIN saved[l] /\ <<m, x>> # <<l, i>>
      <4>1. Passed(m) \in 0..Len(saved[m])
        BY <1>1, PassedIn
      <4>2. m = l => x # i
        BY <1>4, <3>7, <4>1
      <4>. QED BY <1>4, <3>7, <4>2 DEF InTime, Inv, Types, TypesFile
    <3>9. saved[m][x].key = saved[l][i].key
      BY <1>4, <3>5, <3>7
    <3>10. SavedKeys[m][x] = saved[m][x].key /\ SavedKeys[l][i] = saved[l][i].key
      BY <3>8 DEF SavedKeys
    <3>. QED BY <3>8, <3>9, <3>10 DEF SavedTwice
  <2>3. SavedTwice' \/ \A f \in Listed' : map'[data'[f].key] = f
    <3>. SUFFICES ASSUME ~SavedTwice, NEW f \in Listed' PROVE map'[data'[f].key] = f
      BY <2>1
    <3>1. CASE f = e
      BY <1>8, <1>9, <1>10, <3>1
    <3>2. CASE f \in Listed
      <4>1. map[data[f].key] = f
        BY <1>1, <3>2 DEF Inv, Whole
      <4>. QED BY <1>10, <1>14, <2>2, <3>2, <4>1
    <3>. QED BY <1>11, <3>1, <3>2
  <2>4. wheel' = {f \in Listed' : data'[f].expire # 0}
    <3>1. wheel = {f \in Listed : data[f].expire # 0}
      BY <1>1 DEF Inv, Whole
    <3>2. data'[e].expire = p.expire
      BY <1>8, <1>9
    <3>3. {f \in Listed' : data'[f].expire # 0}
            = wheel \cup (IF p.expire # 0 THEN {e} ELSE {})
      BY <1>11, <1>14, <3>1, <3>2
    <3>. QED BY <1>7, <3>3
  <2>5. weighted' = Total(data', Listed')
    <3>1. weighted = Total(data, Listed)
      BY <1>1 DEF Inv, Whole
    <3>2. PICK S, d, f : S = Listed /\ d = data' /\ f = data
      OBVIOUS
    <3>3. /\ IsFiniteSet(S) /\ \A x \in S : f[x].weight \in Int /\ d[x].weight = f[x].weight
      <4>1. IsFiniteSet(Listed)
        BY ListedEntries DEF Inv, Types, TypesStore
      <4>2. \A x \in Listed : data[x].weight \in Int
        BY <1>14 DEF Inv, Types, TypesStore, EntryType
      <4>. QED BY <1>14, <3>2, <4>1, <4>2
    <3>4. /\ e \notin S /\ d[e].weight = p.weight /\ p.weight \in Int
      BY <1>3, <1>6, <1>8, <1>9, <3>2
    <3>5. PICK T : T = S \cup {e}
      OBVIOUS
    <3>6. /\ IsFiniteSet(T) /\ e \in T /\ T \ {e} = S /\ \A x \in T : d[x].weight \in Int
      BY <3>3, <3>4, <3>5, FS_AddElement
    <3>7. Total(d, T) = d[e].weight + Total(d, S)
      BY ONLY <3>6, TotalWithout
    <3>8. Total(d, S) = Total(f, S) /\ Total(f, S) \in Int
      BY ONLY <3>3, TotalEqual, TotalInt
    <3>9. Total(d, T) = Total(f, S) + p.weight
      BY ONLY <3>4, <3>7, <3>8
    <3>. QED BY <1>11, <3>1, <3>2, <3>5, <3>9
  <2>. QED BY <1>16, <2>3, <2>4, <2>5 DEF Whole
<1>23. \A m \in Segment : Base(m)' = Base(m) \/ (m = "probation" /\ l = "protected")
  <2>1. CASE l = "protected"
    BY <2>1 DEF Base
  <2>2. CASE l # "protected"
    <3>1. "protected" \in Segment /\ list'["protected"] = list["protected"]
      BY <2>2 DEF Segment, Inv, Types, TypesStore
    <3>2. PICK s \in Seq(Entry) : s = list["protected"]
      BY <3>1 DEF Inv, Types, TypesStore
    <3>3. IsFiniteSet(DOMAIN s) /\ DOMAIN s = 1..Len(s)
      BY UpTo
    <3>4. \A x \in DOMAIN s : s[x] \in Listed
      BY <3>1, <3>2, <3>3, SetOfIs, ListedIs
    <3>5. \A x \in DOMAIN s : data'[s[x]].weight = data[s[x]].weight
      BY <1>14, <3>4
    <3>6. TotalAt(data', s, DOMAIN s) = TotalAt(data, s, DOMAIN s)
      BY <3>3, <3>5, TotalAtEqual
    <3>. QED BY <3>1, <3>2, <3>6 DEF Base
  <2>. QED BY <2>1, <2>2
<1>24. ASSUME NEW m \in Segment, m # l PROVE Restored(m)'
  <2>1. list'[m] = list[m]
    BY <1>24 DEF Inv, Types, TypesStore
  <2>2. Taken(m)' = Taken(m)
    BY <1>1, <1>24, TakenOnward
  <2>3. \A f \in ToSet(list[m]) : data'[f] = data[f]
    BY <1>14, ListedIs
  <2>4. Base(m)' = Base(m) \/ Taken(m) = << >>
    <3>1. l = "protected" /\ m = "probation" => Passed(m) = 0
      BY <1>1, <1>24, OnwardThere
    <3>. QED BY <1>1, <1>23, <3>1, TakenIs
  <2>. QED BY <1>1, <1>21, <2>1, <2>2, <2>3, <2>4, RestoredOn
<1>25. Restored(l)'
  <2>1. i \in InTime(l)
    BY <1>1, <1>2, <1>4, InTimeIs
  <2>2. Taken(l)' = Append(Taken(l), p)
    BY <1>1, <1>4, <2>1, TakenOnward
  <2>3. PICK t \in Seq(PentryType) : t = Taken(l)
    BY <1>1, TakenIs
  <2>4. Restored(l)
    BY <1>1 DEF Inv, Faithful, Loading
  <2>5. PICK s \in Seq(Entry) : s = list[l]
    BY DEF Inv, Types, TypesStore
  <2>6. PICK k \in Nat : k = Len(s)
    OBVIOUS
  <2>7. /\ k <= Len(t) /\ Len(t) \in Nat
        /\ \A j \in 1..k : Same(data[s[j]], t[j], Estimates)
        /\ \A m \in 0..(k - 1) : Base(l) + CostOf(t, m) < Limit(l)
        /\ k < Len(t) => Base(l) + CostOf(t, k) >= Limit(l)
    BY <2>3, <2>4, <2>5, <2>6 DEF Restored
  <2>8. /\ Base(l) + CostOf(t, k) < Limit(l) /\ k = Len(t)
    <3>1. CostOf(t, k) = TotalAt(data, list[l], DOMAIN list[l])
      BY <1>1, <2>3, <2>5, <2>6, LengthTaken
    <3>2. PICK a, b, c \in Int : a = Base(l) /\ b = CostOf(t, k) /\ c = Limit(l) /\ a + b < c
      BY <3>1, HasRoomIs
    <3>3. ~(a + b >= c)
      BY <3>2
    <3>. QED BY <2>6, <2>7, <3>2, <3>3
  <2>9. PICK u, v : u = Append(t, p) /\ v = Append(s, e)
    OBVIOUS
  <2>10. /\ Len(u) = k + 1 /\ u[k + 1] = p /\ \A j \in 1..k : u[j] = t[j]
         /\ Len(v) = k + 1 /\ v[k + 1] = e /\ \A j \in 1..k : v[j] = s[j]
    <3>1. /\ Len(u) = Len(t) + 1 /\ u[Len(t) + 1] = p /\ \A j \in 1..Len(t) : u[j] = t[j]
      BY ONLY <1>5, <2>9, t \in Seq(PentryType), AppendParts
    <3>2. /\ Len(v) = Len(s) + 1 /\ v[Len(s) + 1] = e /\ \A j \in 1..Len(s) : v[j] = s[j]
      BY ONLY <1>3, <2>9, s \in Seq(Entry), AppendParts
    <3>. QED BY <2>6, <2>8, <3>1, <3>2
  <2>11. \A m \in 0..k : CostOf(u, m) = CostOf(t, m)
    BY <1>5, <2>8, <2>9, CostAppend
  <2>12. Taken(l)' = u /\ list'[l] = v /\ Limit(l)' = Limit(l) /\ Base(l)' = Base(l)
    <3>1. list'[l] = v
      BY <2>5, <2>9 DEF Inv, Types, TypesStore
    <3>2. Base(l)' = Base(l)
      BY <1>23
    <3>. QED BY <1>1, <2>2, <2>3, <2>9, <3>1, <3>2 DEF Limit
  <2>13. ASSUME NEW j \in 1..(k + 1) PROVE Same(data'[v[j]], u[j], Estimates')
    <3>1. CASE j = k + 1
      BY <1>6, <1>8, <1>9, <1>21, <2>10, <3>1 DEF Same
    <3>2. CASE j \in 1..k
      <4>1. s[j] \in Listed
        BY <2>5, <2>6, <3>2, SetOfIs, ListedIs
      <4>2. data'[s[j]] = data[s[j]] /\ Same(data[s[j]], t[j], Estimates)
        BY <1>14, <2>7, <3>2, <4>1
      <4>3. t[j] \in PentryType
        BY <2>7, <3>2
      <4>4. t[j].key \in Key /\ t[j].freq \in Nat
        BY <4>3, PentryParts
      <4>5. Same(data'[s[j]], t[j], Estimates')
        BY <1>21, <4>2, <4>4 DEF Same
      <4>. QED BY <2>10, <3>2, <4>5
    <3>. QED BY <3>1, <3>2
  <2>14. \A m \in 0..((k + 1) - 1) : Base(l) + CostOf(u, m) < Limit(l)
    <3>. SUFFICES ASSUME NEW m \in 0..k PROVE Base(l) + CostOf(u, m) < Limit(l)
      OBVIOUS
    <3>1. CASE m = k
      BY <2>8, <2>11, <3>1
    <3>2. CASE m \in 0..(k - 1)
      BY <2>7, <2>11, <3>2
    <3>. QED BY <3>1, <3>2
  <2>15. ~(k + 1 < k + 1) /\ k + 1 <= k + 1
    OBVIOUS
  <2>. QED BY <2>10, <2>12, <2>13, <2>14, <2>15 DEF Restored
<1>26. Faithful'
  <2>1. Listed' = 1..(n + 1)
    BY <1>3, <1>11
  <2>2. n' = n + 1
    <3>1. \A m \in Segment : Len(list'[m]) = IF m = l THEN Len(list[m]) + 1 ELSE Len(list[m])
      BY DEF Inv, Types, TypesStore
    <3>2. \A m \in Segment : Len(list[m]) \in Nat
      BY DEF Inv, Types, TypesStore
    <3>3. /\ "window" \in Segment /\ "protected" \in Segment /\ "probation" \in Segment
          /\ l \in {"window", "protected", "probation"}
      BY DEF Segment
    <3>4. PICK a, b, c \in Nat : /\ a = Len(list["window"]) /\ b = Len(list["protected"])
                                 /\ c = Len(list["probation"])
      BY <3>2, <3>3
    <3>5. /\ Len(list'["window"]) = IF l = "window" THEN a + 1 ELSE a
          /\ Len(list'["protected"]) = IF l = "protected" THEN b + 1 ELSE b
          /\ Len(list'["probation"]) = IF l = "probation" THEN c + 1 ELSE c
      BY <3>1, <3>3, <3>4
    <3>6. Len(list'["window"]) + Len(list'["protected"]) + Len(list'["probation"]) = a + b + c + 1
      <4>1. CASE l = "window"
        <5>1. /\ Len(list'["window"]) = a + 1 /\ Len(list'["protected"]) = b
              /\ Len(list'["probation"]) = c
          BY <3>5, <4>1
        <5>2. (a + 1) + (b) + (c) = a + b + c + 1
          BY ONLY a \in Nat, b \in Nat, c \in Nat
        <5>. QED BY <5>1, <5>2, Zenon
      <4>2. CASE l = "protected"
        <5>1. /\ Len(list'["window"]) = a /\ Len(list'["protected"]) = b + 1
              /\ Len(list'["probation"]) = c
          BY <3>5, <4>2
        <5>2. (a) + (b + 1) + (c) = a + b + c + 1
          BY ONLY a \in Nat, b \in Nat, c \in Nat
        <5>. QED BY <5>1, <5>2, Zenon
      <4>3. CASE l = "probation"
        <5>1. /\ Len(list'["window"]) = a /\ Len(list'["protected"]) = b
              /\ Len(list'["probation"]) = c + 1
          BY <3>5, <4>3
        <5>2. (a) + (b) + (c + 1) = a + b + c + 1
          BY ONLY a \in Nat, b \in Nat, c \in Nat
        <5>. QED BY <5>1, <5>2, Zenon
      <4>. QED BY <3>3, <4>1, <4>2, <4>3
    <3>. QED BY <3>4, <3>6 DEF n
  <2>3. \A m \in Segment : Restored(m)'
    BY <1>24, <1>25
  <2>. QED BY <1>1, <2>1, <2>2, <2>3 DEF Faithful, Loading, n
<1>. QED BY <1>2, <1>12, <1>13, <1>17, <1>18, <1>19, <1>20, <1>22, <1>26 DEF Inv, Types

LEMMA EntryKeeps ==
  ASSUME Inv, Recovering, RecoverEntry
  PROVE  Inv' /\ FilterStep
<1>1. PICK l \in Segment : l = Here.type
  BY DEF RecoverEntry
<1>2. PICK p, e : p = Here.entries[at.entry] /\ e = 1 + Cardinality(Listed)
  OBVIOUS
<1>3. phase = "recovering" /\ UNCHANGED <<saved, phase, sizes, start, ticked>> /\ MovesOn
  BY DEF Recovering, RecoverEntry, MovesOn
<1>4. p = saved[l][Passed(l) + 1]
  BY <1>1, <1>2, <1>3, OnwardHere
<1>5. CASE (p.expire # 0 /\ p.expire < NowNano) \/ ~HasRoom(l)
  <2>1. UNCHANGED <<map, data, listVars, sketchVars, doorVars>>
    BY <1>1, <1>2, <1>5 DEF RecoverEntry
  <2>. QED BY <1>1, <1>3, <1>4, <1>5, <2>1, SkipKeeps
<1>6. CASE ~((p.expire # 0 /\ p.expire < NowNano) \/ ~HasRoom(l))
  <2>1. /\ list' = [list EXCEPT ![l] = Append(@, e)] /\ InsertSimple(e, p)
        /\ Addn(p.key, p.freq) /\ weighted' = weighted + p.weight
    BY <1>1, <1>2, <1>6 DEF RecoverEntry
  <2>2. ~(p.expire # 0 /\ p.expire < NowNano) /\ HasRoom(l)
    BY <1>6
  <2>3. UNCHANGED <<phase, start, ticked, sizes>>
    BY <1>3
  <2>. QED BY <1>1, <1>2, <1>3, <1>4, <2>1, <2>2, <2>3, TakeKeeps
<1>. QED BY <1>5, <1>6

LEMMA RecoverKeeps ==
  ASSUME Inv, Recover
  PROVE  Inv' /\ FilterStep
<1>1. Recovering
  BY DEF Recover, Recovering, fileVars
<1>2. CASE RecoverFails
  BY <1>1, <1>2, StopKeeps DEF RecoverFails
<1>3. CASE RecoverMeta
  BY <1>1, <1>3, MetaKeeps
<1>4. CASE RecoverEntry
  BY <1>1, <1>4, EntryKeeps
<1>5. CASE RecoverEnd
  <2>1. at.block = EndBlock
    BY <1>1, <1>5, AtEnd DEF RecoverEnd, Recovering
  <2>. QED BY <1>1, <1>5, <2>1, StopKeeps DEF RecoverEnd
<1>. QED BY <1>2, <1>3, <1>4, <1>5 DEF Recover

-----------------------------------------------------------------------------
(* The invariant, and what follows from it.                                *)

LEMMA StepKeeps == Inv /\ Next => Inv' /\ FilterStep
<1>. SUFFICES ASSUME Inv, Next PROVE Inv' /\ FilterStep
  OBVIOUS
<1>1. ASSUME NEW c \in Call, Set(c[1], c[2]) PROVE Inv' /\ FilterStep
  BY <1>1, SetKeeps
<1>2. ASSUME NEW k \in Key, Delete(k) PROVE Inv' /\ FilterStep
  BY <1>2, DeleteKeeps
<1>3. ASSUME NEW p \in pending, Sink(p) PROVE Inv' /\ FilterStep
  BY <1>3, SinkKeeps
<1>4. CASE MakeRoom
  BY <1>4, RoomKeeps
<1>5. ASSUME NEW e \in Listed, Access(e) PROVE Inv' /\ FilterStep
  BY <1>5, AccessKeeps
<1>6. CASE Elapse
  BY <1>6, ElapseKeeps
<1>7. CASE Tick
  BY <1>7, TickKeeps
<1>8. CASE Persist
  BY <1>8, PersistKeeps
<1>9. CASE Restart
  BY <1>9, RestartKeeps
<1>10. CASE Recover
  BY <1>10, RecoverKeeps
<1>. QED BY <1>1, <1>2, <1>3, <1>4, <1>5, <1>6, <1>7, <1>8, <1>9, <1>10 DEF Next

LEMMA StutterKeeps ==
  ASSUME Inv, UNCHANGED vars
  PROVE  Inv'
<1>1. UNCHANGED <<phase, settling, sizes, map, data, list, wheel, weighted, pending, now, start,
                  cached, ticked, file, saved, good, at, sketchVars, doorVars>>
  BY DEF vars, listVars, sketchVars, doorVars
<1>2. FilterStep
  BY <1>1, FilterSame
<1>3. Listed' = Listed /\ Mapped' = Mapped
  BY <1>1 DEF Listed, Mapped
<1>4. Types'
  BY <1>1 DEF Inv, Types, TypesStore, TypesClock, TypesFile, NowNano
<1>5. Apart' /\ Keyed'
  BY <1>1, <1>3 DEF Inv, Apart, Keyed
<1>6. Quiet' /\ AllTimed' /\ Ticking'
  BY <1>1 DEF Inv, Quiet, Unread, AllTimed, Ticking, NowNano
<1>7. Layout' /\ Reading' /\ EndBlock' = EndBlock
  BY <1>1, LayoutSame, ReadingSame DEF Inv
<1>8. Whole'
  <2>1. SavedTwice' <=> SavedTwice
    BY <1>1 DEF SavedTwice, SavedKeys
  <2>. QED BY <1>1, <1>3, <2>1 DEF Inv, Whole
<1>9. Faithful'
  <2>1. \A l \in Segment : Restored(l)' <=> Restored(l)
    BY <1>1, RestoredSame
  <2>. QED BY <1>1, <1>3, <1>7, <2>1 DEF Inv, Faithful, Loading
<1>10. FiltersInv'
  BY <1>2, FilterKeeps DEF Inv
<1>. QED BY <1>4, <1>5, <1>6, <1>7, <1>8, <1>9, <1>10 DEF Inv

LEMMA InvHolds == Spec => []Inv
<1>1. Inv /\ [Next]_vars => Inv'
  BY StepKeeps, StutterKeeps
<1>. QED BY InitInv, <1>1, PTL DEF Spec

\* Whatever Set, the maintenance goroutine, Persist and Recover do to the count
\* sketch and the doorkeeper is a step of theirs, with arguments they are made
\* for: the store implements AdmissionSpec.
THEOREM FiltersImplemented == Spec => FiltersInStep
<1>1. Init => AdmissionInit
  BY DEF Init
<1>2. Inv /\ [Next]_vars => [AdmissionNext]_<<sketchVars, doorVars>>
  <2>1. Inv /\ Next => AdmissionNext
    BY StepKeeps DEF FilterStep, AdmissionNext
  <2>2. UNCHANGED vars => UNCHANGED <<sketchVars, doorVars>>
    BY DEF vars, sketchVars, doorVars
  <2>. QED BY <2>1, <2>2
<1>. QED BY <1>1, <1>2, InvHolds, PTL DEF Spec, FiltersInStep, AdmissionSpec

\* The sketch of a store that serves, saves and loads never underestimates a
\* key, goes on ageing, and its doorkeeper lets in every key it has seen.
THEOREM StoreFilters == Spec => [](EstimateCovers /\ SampleBounded /\ NoFalseNegative)
  BY FiltersImplemented, NeverUnderestimates, KeepsAgeing, DoorRemembers, PTL DEF FiltersInStep

\* A store's parts have their types, and the file its layout: the lists are
\* apart, and Persist has written blocks that Recover's index never leaves.
THEOREM StoreTyped == Spec => [](Types /\ Apart /\ Layout /\ Reading)
<1>1. Inv => Types /\ Apart /\ Layout /\ Reading
  BY DEF Inv
<1>. QED BY <1>1, InvHolds, PTL

LEMMA InvFresh == Inv => ReadsFresh
<1>. SUFFICES ASSUME Inv, phase \in {"live", "loaded"}, ticked, NEW k \in Mapped,
                     data[map[k]].due # 0, Found(map[k])
              PROVE  now < data[map[k]].due
  BY DEF ReadsFresh
<1>1. map[k] \in Entry
  BY DEF Inv, Types, TypesStore, Mapped
<1>2. PICK x, due \in Nat : x = data[map[k]].expire /\ due = data[map[k]].due
  <2>1. data[map[k]].expire \in Nat /\ data[map[k]].due \in Nat
    BY <1>1 DEF Inv, Types, TypesStore, EntryType
  <2>. QED BY <2>1
<1>3. due > start /\ x = AtMost(due - start, MaxInt)
  BY <1>1, <1>2 DEF Inv, AllTimed, Timed
<1>4. /\ now \in Nat /\ start \in Nat /\ start <= now /\ cached \in Nat
      /\ MaxInt \in Nat \ {0} /\ Grace \in Nat /\ (now - start) - cached < Grace
  BY BoundsAssumption, CallAssumption DEF Inv, Types, TypesClock, Ticking, NowNano
<1>5. x <= due - start /\ x # 0
  BY <1>3, <1>4 DEF AtMost
<1>6. x - cached >= Grace \/ ~(x <= now - start)
  BY <1>2, <1>5 DEF Found, Expired, NowNano
<1>. QED BY <1>2, <1>4, <1>5, <1>6

\* Store.getFromShard never returns an entry past its deadline in real time,
\* whatever was set, saved and loaded, while the ticker keeps the cached time
\* younger than the 30 seconds for which the code trusts it.
THEOREM GetFresh == Spec => []ReadsFresh
  BY InvFresh, InvHolds, PTL

LEMMA InvConsistent == Inv => Consistent
<1>. SUFFICES ASSUME Inv, phase \in {"loaded", "failed"}
              PROVE  /\ {map[k] : k \in Mapped} \subseteq Listed
                     /\ {data[e].key : e \in Listed} = Mapped \/ SavedTwice
                     /\ Cardinality(Listed) = Cardinality(Mapped) \/ SavedTwice
                     /\ wheel = {e \in Listed : data[e].expire # 0}
                     /\ weighted = Weight(Listed)
  BY DEF Consistent
<1>1. /\ \A k \in Mapped : map[k] \in Listed /\ data[map[k]].key = k
      /\ SavedTwice \/ \A e \in Listed : map[data[e].key] = e
      /\ wheel = {e \in Listed : data[e].expire # 0} /\ weighted = Total(data, Listed)
  BY DEF Inv, Whole
<1>2. Listed \subseteq Entry /\ IsFiniteSet(Listed)
  BY ListedEntries DEF Inv, Types, TypesStore
<1>3. weighted = Weight(Listed)
  BY <1>1, <1>2, WeightsUnfold DEF Weight
<1>4. ASSUME ~SavedTwice
      PROVE  {data[e].key : e \in Listed} = Mapped /\ Cardinality(Listed) = Cardinality(Mapped)
  <2>1. \A e \in Listed : data[e].key \in Mapped /\ map[data[e].key] = e
    BY <1>1, <1>2, <1>4, WantedAssumption DEF Inv, Keyed, Mapped, Entry
  <2>2. {data[e].key : e \in Listed} = Mapped
    BY <1>1, <2>1
  <2>. DEFINE f == [e \in Listed |-> data[e].key]
  <2>3. f \in Bijection(Listed, Mapped)
    <3>1. f \in [Listed -> Mapped]
      BY <2>1
    <3>2. \A a, b \in Listed : f[a] = f[b] => a = b
      BY <2>1
    <3>3. \A k \in Mapped : \E e \in Listed : f[e] = k
      BY <1>1
    <3>. HIDE DEF f
    <3>. QED BY <3>1, <3>2, <3>3 DEF Bijection, Injection, Surjection, IsInjective
  <2>. HIDE DEF f
  <2>4. ExistsBijection(Listed, Mapped)
    BY <2>3 DEF ExistsBijection
  <2>. QED BY <1>2, <2>2, <2>4, FS_Bijection
<1>. QED BY <1>1, <1>3, <1>4

\* A store that Recover has loaded, in whole or up to a damaged block, is in one
\* piece: map, lists, timer wheel and weighted size agree, unless the file has
\* a key twice.
THEOREM LoadedWhole == Spec => []Consistent
  BY InvConsistent, InvHolds, PTL

\* The most that a list can take, by the cost of what comes before.
LEMMA MostIs ==
  ASSUME NEW S \in SUBSET Nat, NEW n \in S, \A k \in S : ~(n < k)
  PROVE  n = Max(S)
<1>1. \A x \in S : n >= x /\ ((\A y \in S : x >= y) => x = n)
  OBVIOUS
<1>. QED BY <1>1 DEF Max

LEMMA ExpectedIs ==
  ASSUME Inv, phase = "loaded", ~ticked, NEW l \in Segment
  PROVE  /\ Expected(l) = SubSeq(Taken(l), 1, Len(list[l]))
         /\ Taken(l) \in Seq(PentryType) /\ Len(list[l]) \in 0..Len(Taken(l))
<1>1. Restored(l) /\ at.block = EndBlock
  BY DEF Inv, Faithful, Loading
<1>2. TypesFile /\ saved[l] \in Seq(PentryType) /\ list[l] \in Seq(Entry)
  BY DEF Inv, Types, TypesFile, TypesStore
<1>3. Taken(l) = Keep(saved[l], InTime(l))
  BY <1>1, <1>2, PassedEnds DEF Taken, Keep
<1>4. Taken(l) \in Seq(PentryType)
  <2>1. Len(saved[l]) \in 0..Len(saved[l])
    BY <1>2
  <2>. QED BY <1>2, <1>3, <2>1, KeptSeq DEF Keep
<1>5. PICK t \in Seq(PentryType) : t = Taken(l)
  BY <1>4
<1>6. PICK L, n \in Nat : L = Len(t) /\ n = Len(list[l]) /\ n <= L
  BY <1>1, <1>2, <1>5 DEF Restored
<1>7. \A m \in 0..L : MapThenSumSet(LAMBDA i : t[i].weight, 1..m) = CostOf(t, m)
  <2>. SUFFICES ASSUME NEW m \in 0..L
                PROVE  MapThenSumSet(LAMBDA i : t[i].weight, 1..m) = CostOf(t, m)
    OBVIOUS
  <2>1. IsFiniteSet(1..m)
    BY <1>6, UpTo
  <2>. QED BY <2>1, WeightsUnfold DEF CostOf
<1>8. \A m \in 0..L : CostOf(t, m) \in Int
  <2>. SUFFICES ASSUME NEW m \in 0..L PROVE CostOf(t, m) \in Int
    OBVIOUS
  <2>1. IsFiniteSet(1..m)
    BY <1>6, UpTo
  <2>2. \A i \in 1..m : t[i] \in PentryType
    BY <1>6
  <2>3. \A i \in 1..m : t[i].weight \in Int
    BY <2>2 DEF PentryType
  <2>. QED BY <2>1, <2>3, TotalInt DEF CostOf
<1>9. PICK base, limit \in Int : base = Base(l) /\ limit = Limit(l)
  BY HasRoomIs
<1>10. /\ base = IF l = "probation" THEN Len_("protected") ELSE 0
       /\ limit = IF l = "probation" THEN sizes.main ELSE sizes[l]
  <2>1. IsFiniteSet(DOMAIN list["protected"])
    <3>1. Len(list["protected"]) \in Nat /\ DOMAIN list["protected"] = 1..Len(list["protected"])
      BY DEF Inv, Types, TypesStore, Segment
    <3>. QED BY <3>1, UpTo
  <2>2. Len_("protected") = TotalAt(data, list["protected"], DOMAIN list["protected"])
    BY <2>1, LengthUnfold DEF Len_
  <2>. QED BY <1>9, <2>2 DEF Base, Limit
<1>. DEFINE c == [m \in 0..L |-> CostOf(t, m)]
            S == {k \in 0..L : \A m \in 0..(k - 1) : base + c[m] < limit}
            C(m) == MapThenSumSet(LAMBDA i : t[i].weight, 1..m)
            R == {k \in 0..L : \A m \in 0..(k - 1) : base + C(m) < limit}
<1>11. /\ \A m \in 0..(n - 1) : base + CostOf(t, m) < limit
       /\ n < L => base + CostOf(t, n) >= limit
  BY <1>1, <1>5, <1>6, <1>9 DEF Restored
<1>12. n = Max(S)
  <2>1. n \in S /\ S \in SUBSET Nat
    BY <1>6, <1>11
  <2>2. ASSUME NEW k \in S, n < k PROVE FALSE
    <3>1. k \in 0..L /\ n \in 0..(k - 1) /\ n \in 0..L /\ n < L
      BY <1>6, <2>2
    <3>2. base + c[n] < limit
      BY <2>2, <3>1
    <3>. QED BY <1>8, <1>11, <3>1, <3>2
  <2>. HIDE DEF S
  <2>. QED BY <2>1, <2>2, MostIs
<1>13. R = S
  <2>1. \A m \in 0..L : C(m) = c[m]
    BY <1>7
  <2>. HIDE DEF C, c
  <2>2. \A k \in 0..L : \A m \in 0..(k - 1) : m \in 0..L
    OBVIOUS
  <2>. QED BY <2>1, <2>2
<1>14. Expected(l) = SubSeq(t, 1, Max(R))
  BY <1>3, <1>5, <1>6, <1>10 DEF Expected
<1>. HIDE DEF R, S
<1>. QED BY <1>5, <1>6, <1>12, <1>13, <1>14

LEMMA InvRoundTrip == Inv => RoundTrip
<1>. SUFFICES ASSUME Inv, phase = "loaded", ~ticked, NEW l \in Segment
              PROVE  LET want == Expected(l) IN
                     /\ Len(list[l]) = Len(want)
                     /\ \A i \in DOMAIN want :
                          LET d == data[list[l][i]] IN
                          /\ <<d.key, d.weight, d.expire, d.due>>
                               = <<want[i].key, want[i].weight, want[i].expire, want[i].due>>
                          /\ Estimate(d.key) >= want[i].freq
  BY DEF RoundTrip
<1>1. PICK t \in Seq(PentryType) : t = Taken(l)
  BY ExpectedIs
<1>2. PICK n \in 0..Len(t) : n = Len(list[l]) /\ Expected(l) = SubSeq(t, 1, n)
  BY <1>1, ExpectedIs
<1>3. PICK w : w = Expected(l) /\ Len(w) = n /\ DOMAIN w = 1..n /\ \A i \in 1..n : w[i] = t[i]
  BY <1>2
<1>4. ASSUME NEW i \in 1..n
      PROVE  LET d == data[list[l][i]] IN
             /\ <<d.key, d.weight, d.expire, d.due>> = <<w[i].key, w[i].weight, w[i].expire, w[i].due>>
             /\ Estimate(d.key) >= w[i].freq
  <2>1. Same(data[list[l][i]], t[i], Estimates) /\ w[i] = t[i]
    BY <1>1, <1>2, <1>3 DEF Inv, Faithful, Loading, Restored
  <2>2. data[list[l][i]].key \in Key
    <3>1. list[l] \in Seq(Entry) /\ i \in DOMAIN list[l]
      BY <1>2 DEF Inv, Types, TypesStore
    <3>2. list[l][i] \in Listed
      BY <3>1, ListedIs DEF ToSet
    <3>. QED BY <3>2 DEF Inv, Keyed
  <2>. QED BY <2>1, <2>2 DEF Same, Estimates
<1>. QED BY <1>2, <1>3, <1>4

\* LoadCache of what SaveCache wrote, when it returns without an error: each
\* list holds the saved entries that are in time and have room, in their order,
\* with their deadlines, and no key counts as rarer than it was.  For every
\* number of entries and blocks, and every size of the new store.
THEOREM RestoresAll == Spec => []RoundTrip
  BY InvRoundTrip, InvHolds, PTL
=============================================================================
