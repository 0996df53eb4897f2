------------------------------ MODULE StoreMC ------------------------------
(* Instances of Store for TLC.                                             *)
EXTENDS Store, TLC

\* One shard holds every key.
OneShard == [k \in Key |-> 1]

Symmetry == Permutations(Client) \cup Permutations(Key)
=============================================================================
