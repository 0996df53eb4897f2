---------------------------- MODULE SketchWords ----------------------------
(***************************************************************************)
(* The words of the count-min sketch (internal/sketch.go).  The code packs *)
(* sixteen 4-bit counters in a uint64 and works on all of them at once;    *)
(* Admission keeps a word as separate counters.  Both agree on every word  *)
(* of two counters.                                                        *)
(***************************************************************************)
EXTENDS Integers, FiniteSets, Bitwise

Word == 0..255
Place == 0..1
ResetMask == 119  \* 0x77
OneMask == 17     \* 0x11

\* The counters of a word.
Nibble(v, o) == (v \div 16^o) % 16

\* inc: a counter that is not full goes up by one.
IncWord(v, o) ==
  LET mask == 15 * 16^o IN
  IF v & mask # mask THEN v + 16^o ELSE v

\* reset: every counter is halved by one shift and one mask.
ResetWord(v) == (v \div 2) & ResetMask

\* bits.OnesCount64 of the low bits of the counters.
OddCount(v) ==
  LET ones == v & OneMask IN
  Cardinality({b \in 0..7 : (ones \div 2^b) % 2 = 1})

\* No counter of a packed word spills into its neighbour: inc and reset act on
\* each counter as if it were alone, and reset counts the odd ones.
ASSUME PackedWordsAgree ==
  \A v \in Word :
    /\ \A o, p \in Place :
         Nibble(IncWord(v, o), p) =
           IF p = o /\ Nibble(v, p) < 15 THEN Nibble(v, p) + 1 ELSE Nibble(v, p)
    /\ \A p \in Place : Nibble(ResetWord(v), p) = Nibble(v, p) \div 2
    /\ OddCount(v) = Cardinality({p \in Place : Nibble(v, p) % 2 = 1})
=============================================================================
