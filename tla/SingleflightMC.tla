--------------------------- MODULE SingleflightMC ---------------------------
(* Instances of Singleflight for TLC.                                      *)
EXTENDS Singleflight, TLC

Symmetry == Permutations(Proc) \cup Permutations(Key) \cup Permutations(Call)
=============================================================================
