---------------------------- MODULE ReadBufferMC ----------------------------
(* Instances of ReadBuffer for TLC.                                        *)
EXTENDS ReadBuffer, TLC

Symmetry == Permutations(Proc)
=============================================================================
