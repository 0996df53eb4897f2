------------------------------- MODULE Policy ------------------------------
(***************************************************************************)
(* What the store relies on in its eviction policy: a set of entries with  *)
(* weights, changed by one operation at a time.  An operation evicts an    *)
(* entry only while the entries weigh more than the capacity, or because   *)
(* that entry alone does, and it ends only when the rest fits.             *)
(***************************************************************************)
EXTENDS Integers, FiniteSetsExt

CONSTANTS Entry, Cap

VARIABLES members, weight, busy

Size == MapThenSumSet(LAMBDA e : weight[e], members)

Init == members = {} /\ busy = FALSE /\ weight = [e \in Entry |-> 0]

Begin == ~busy /\ busy' = TRUE /\ UNCHANGED <<members, weight>>

\* No weight but that of e changes.
Weigh(e) == weight' = [weight EXCEPT ![e] = weight'[e]]

Add(e) ==
  /\ busy /\ e \notin members
  /\ members' = members \cup {e}
  /\ Weigh(e)
  /\ UNCHANGED busy

Reweigh(e) ==
  /\ ~busy /\ e \in members
  /\ Weigh(e)
  /\ busy' = TRUE
  /\ UNCHANGED members

Remove(e) ==
  /\ ~busy /\ e \in members
  /\ members' = members \ {e}
  /\ UNCHANGED <<weight, busy>>

Evict(e) ==
  /\ busy /\ e \in members
  /\ Size > Cap \/ weight[e] > Cap
  /\ members' = members \ {e}
  /\ UNCHANGED <<weight, busy>>

End == busy /\ Size <= Cap /\ busy' = FALSE /\ UNCHANGED <<members, weight>>

Next ==
  \/ Begin \/ End
  \/ \E e \in Entry : Add(e) \/ Reweigh(e) \/ Remove(e) \/ Evict(e)

Spec == Init /\ [][Next]_<<members, weight, busy>>
=============================================================================
