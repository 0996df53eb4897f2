----------------------------- MODULE Admission -----------------------------
(***************************************************************************)
(* The two frequency filters in front of the cache.                        *)
(*                                                                         *)
(* The count-min sketch (internal/sketch.go) counts accesses in small      *)
(* saturating counters, a row of them per hash, and halves them all when   *)
(* enough additions have come.  Counters are kept apart here; that the     *)
(* packed words of the code do the same is checked in PersistenceMC.       *)
(*                                                                         *)
(* The doorkeeper of a shard (internal/bf/bf.go, setShardWithoutLock and   *)
(* Shard.set) is a bloom filter that lets a key in on its second Set.      *)
(*                                                                         *)
(* Hash functions are constants: which bits of a key's hash choose its     *)
(* block, its counters and its bits.                                       *)
(***************************************************************************)
EXTENDS Integers, FiniteSets

CONSTANTS
  Key,
  Power,        \* the powers of two sizes are rounded to
  Wanted,       \* numbers of entries a store may come to
  Wrap,         \* 2^width of the unsigned fields
  \* Sketch.
  Rows,         \* counters per key, 4 in the code
  Nibbles,      \* counters per word, 16
  MaxCount,     \* a full counter, 15
  Factor,       \* additions per word before the counters are halved, 10
  MinSize,      \* words at least, 16
  InitSize,     \* words of a new sketch, 64
  blockHash,    \* the hash that chooses a key's block
  wordHash, nibbleHash,  \* per key and row: the word of the two, the counter
  \* Doorkeeper.
  BitsPer,      \* bits per key of the capacity, 16
  Hashes,       \* bits set per key, 11
  PerEntry,     \* capacity wanted per entry of the map, 20
  InitCapacity, \* 512
  h1, h2        \* the halves of a key's hash

Row == 0..(Rows - 1)
Block == 2 * Rows   \* words of a block, two for each row

ASSUME SketchAssumption ==
  /\ Rows \in Nat \ {0} /\ Nibbles \in Nat \ {0} /\ MaxCount \in Nat \ {0}
  /\ Factor \in Nat \ {0} /\ Nibbles <= Rows * Factor
  /\ MinSize \in Nat /\ MinSize >= Block
  /\ InitSize \in Nat /\ InitSize >= Block
  /\ Power \subseteq Nat \ {0} /\ Wanted \subseteq Nat
  /\ Wrap \in Nat /\ \A s \in Power \cup {InitSize} : Factor * s < Wrap
ASSUME HashAssumption ==
  /\ blockHash \in [Key -> Nat]
  /\ wordHash \in [Key -> [Row -> 0..1]]
  /\ nibbleHash \in [Key -> [Row -> 0..(Nibbles - 1)]]
ASSUME DoorAssumption ==
  /\ BitsPer \in Nat \ {0} /\ Hashes \in Nat \ {0} /\ PerEntry \in Nat
  /\ InitCapacity \in Nat \ {0}
  /\ h1 \in [Key -> Nat] /\ h2 \in [Key -> Nat]

VARIABLES
  size,      \* len(Table)
  table,     \* the counters, by word and place in the word
  additions, \* Additions
  count,     \* ghost: per key its own additions, saturated and halved alike
  bits,      \* the doorkeeper's bits that are set
  capacity,  \* the doorkeeper's Capacity
  counter,   \* Shard.counter: keys refused since the last reset
  seen       \* ghost: the keys inserted since the filter was last cleared

sketchVars == <<size, table, additions, count>>
doorVars   == <<bits, capacity, counter, seen>>

AtLeast(a, b) == IF a < b THEN b ELSE a
AtMost(a, b)  == IF a < b THEN a ELSE b

\* p is n rounded up to a power of two.
RoundsTo(n, p) == p \in Power /\ n <= p /\ \A q \in Power : n <= q => p <= q

-----------------------------------------------------------------------------
(* The sketch.                                                             *)

Counters(s) == (0..(s - 1)) \X (0..(Nibbles - 1))
SampleSize  == Factor * size

NewSketch(s) ==
  /\ size' = s
  /\ table' = [p \in Counters(s) |-> 0]
  /\ additions' = 0
  /\ count' = [k \in Key |-> 0]

\* The word and the counter in it that row r uses for a key.
IndexOf(k, r) ==
  <<(blockHash[k] % (size \div Block)) * Block + wordHash[k][r] + 2 * r,
    nibbleHash[k][r]>>

Places(k) == {IndexOf(k, r) : r \in Row}

\* Seeded fault: a full counter is not left alone, and starts again at 0.
IncOverflows(n, k) ==
  [p \in Counters(size) |->
     IF p \in Places(k) THEN (table[p] + n) % (MaxCount + 1) ELSE table[p]]

\* inc, n times, on each of the key's counters.
Inc(n, k) ==
  [p \in Counters(size) |->
     IF p \in Places(k) THEN AtMost(table[p] + n, MaxCount) ELSE table[p]]

CountUp(n, k) == [count EXCEPT ![k] = AtMost(@ + n, MaxCount)]

\* Seeded fault: reset leaves Additions as it is.
AgedKept(t, a) == a

\* Additions after reset of table t: a quarter of the odd counters, one for
\* each row, is what halving them rounds away.
Aged(t, a) ==
  ((a - Cardinality({p \in Counters(size) : t[p] % 2 = 1}) \div Rows) % Wrap)
    \div 2

Add(k) ==
  LET t == Inc(1, k)
      added == t # table
      full == added /\ additions + 1 = SampleSize
  IN  /\ table' = IF full THEN [p \in Counters(size) |-> t[p] \div 2] ELSE t
      /\ additions' = IF full THEN Aged(t, additions + 1)
                      ELSE IF added THEN additions + 1 ELSE additions
      /\ count' = IF full THEN [j \in Key |-> CountUp(1, k)[j] \div 2]
                          ELSE CountUp(1, k)
      /\ UNCHANGED size

\* Addn, used by Recover: nothing is counted in Additions.
Addn(k, n) ==
  /\ table' = Inc(n, k)
  /\ count' = CountUp(n, k)
  /\ UNCHANGED <<size, additions>>

Estimate(k) ==
  CHOOSE n \in {table[p] : p \in Places(k)} : \A p \in Places(k) : n <= table[p]

\* A larger table is a new one: all counts are lost.
EnsureCapacity(n) ==
  IF size >= n
    THEN UNCHANGED sketchVars
    ELSE \E s \in Power : RoundsTo(AtLeast(n, MinSize), s) /\ NewSketch(s)

-----------------------------------------------------------------------------
(* The doorkeeper of one shard.                                            *)

Bit(k, i) == (h1[k] + i * h2[k]) % (BitsPer * capacity)
BitsOf(k) == {Bit(k, i) : i \in 0..(Hashes - 1)}
Exist(k)  == BitsOf(k) \subseteq bits

NewDoor(c) == capacity' = c /\ bits' = {} /\ seen' = {}

\* The filter is too small for a map of n entries.
Grows(n) == PerEntry * n > capacity

\* Seeded fault: the filter grows and keeps its bits where they were.
EnsureDoorKeeping(n) ==
  IF Grows(n)
    THEN /\ \E c \in Power : RoundsTo(PerEntry * n, c) /\ capacity' = c
         /\ UNCHANGED <<bits, seen>>
    ELSE UNCHANGED <<bits, capacity, seen>>

\* Shard.set: the filter grows with the map, and is empty then.
EnsureDoor(n) ==
  IF Grows(n)
    THEN \E c \in Power : RoundsTo(PerEntry * n, c) /\ NewDoor(c)
    ELSE UNCHANGED <<bits, capacity, seen>>

\* setShardWithoutLock for a key its map lacks: Reset when enough keys have
\* been refused, then Insert; admit says whether the key was there already.
\* An admitted key goes to the map, which then has n entries.
Ask(k, admit, n) ==
  LET stale == counter > capacity
      before == IF stale THEN {} ELSE bits
      refused == IF stale THEN 0 ELSE counter
  IN  /\ admit = (BitsOf(k) \subseteq before)
      /\ counter' = IF admit THEN refused ELSE refused + 1
      /\ IF admit /\ Grows(n)
           THEN EnsureDoor(n)
           ELSE /\ bits' = before \cup BitsOf(k)
                /\ seen' = (IF stale THEN {} ELSE seen) \cup {k}
                /\ UNCHANGED capacity

-----------------------------------------------------------------------------
AdmissionInit ==
  /\ size = InitSize /\ table = [p \in Counters(InitSize) |-> 0]
  /\ additions = 0 /\ count = [k \in Key |-> 0]
  /\ bits = {} /\ capacity = InitCapacity /\ counter = 0 /\ seen = {}

\* What a store does to its filters.
SketchStep ==
  \/ UNCHANGED sketchVars
  \/ \E k \in Key : Add(k) \/ \E n \in 0..MaxCount : Addn(k, n)
  \/ \E n \in Wanted : EnsureCapacity(n)
  \/ NewSketch(InitSize)

DoorStep ==
  \/ UNCHANGED doorVars
  \/ \E k \in Key, admit \in BOOLEAN, n \in Wanted : Ask(k, admit, n)
  \/ \E n \in Wanted : EnsureDoor(n) /\ UNCHANGED counter
  \/ NewDoor(InitCapacity) /\ counter' = 0

AdmissionNext == SketchStep /\ DoorStep

AdmissionSpec == AdmissionInit /\ [][AdmissionNext]_<<sketchVars, doorVars>>

SketchTypeOK ==
  /\ size \in Power \cup {InitSize} /\ size >= Block
  /\ table \in [Counters(size) -> 0..MaxCount]
  /\ additions \in Nat
  /\ count \in [Key -> 0..MaxCount]

DoorTypeOK ==
  /\ bits \subseteq Nat /\ capacity \in Nat \ {0} /\ counter \in Nat
  /\ seen \subseteq Key

\* The sketch never underestimates: whatever keys share its counters, however
\* often they were filled, halved or restored, a key's estimate is no less
\* than a counter of its own would show.  Admission compares estimates.
EstimateCovers == \A k \in Key : Estimate(k) >= count[k]

\* Additions is always short of SampleSize.  The code halves the counters when
\* the two are equal: past that, or wrapped below 0 by what reset takes off,
\* the sketch would never age again.
SampleBounded == additions < SampleSize

\* A key inserted since the doorkeeper was last cleared is in it: its next Set
\* is let in, though the filter grows, and with it every key's bits move.
NoFalseNegative == \A k \in seen : Exist(k)
=============================================================================
