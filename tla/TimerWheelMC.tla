---------------------------- MODULE TimerWheelMC ----------------------------
(* Instances of TimerWheel for TLC.                                        *)
EXTENDS TimerWheel, TLC

ThreeBuckets == <<2, 2, 1>>
ThreeSpans   == <<2, 4, 8, 8>>
Symmetry     == Permutations(Entry)
=============================================================================
