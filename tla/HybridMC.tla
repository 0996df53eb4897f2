------------------------------ MODULE HybridMC ------------------------------
(* Instances of Hybrid for TLC.                                            *)
EXTENDS Hybrid, TLC

Symmetry == Permutations(Client) \cup Permutations(Worker)
=============================================================================
