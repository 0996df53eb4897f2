----------------------------- MODULE TinyLfuMC -----------------------------
(* Instances of TinyLfu for TLC.                                           *)
EXTENDS TinyLfu, TLC

Amounts == {-2, 1, 2}
=============================================================================
