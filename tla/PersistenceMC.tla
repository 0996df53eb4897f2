--------------------------- MODULE PersistenceMC ---------------------------
(* An instance of Persistence for TLC, with the sketch's packed words.     *)
EXTENDS Persistence, SketchWords

\* Two of the three keys share their counter; all share their bit of the
\* doorkeeper until it has grown.
MCBlock  == [k \in Key |-> IF k = 1 THEN 0 ELSE 1]
MCWord   == [k \in Key |-> [r \in Row |-> IF k = 1 THEN 0 ELSE 1]]
MCNibble == [k \in Key |-> [r \in Row |-> 0]]
MCH1     == [k \in Key |-> k]
MCH2     == [k \in Key |-> 1]
MCCost   == [k \in Key |-> IF k = 1 THEN 2 ELSE 1]
MCCall   == {<<1, 2>>, <<2, 0>>, <<3, 0>>}
MCSizes  == {[window |-> 1, protected |-> 1, main |-> 3],
             [window |-> 2, protected |-> 0, main |-> 1]}
=============================================================================
