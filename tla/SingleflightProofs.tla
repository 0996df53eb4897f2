------------------------- MODULE SingleflightProofs -------------------------
(***************************************************************************)
(* For any finite set of goroutines, any keys and any number of call       *)
(* records: one fn runs for a key at a time, every caller gets the outcome *)
(* of its own flight, records come clean out of the pool, and a duplicate  *)
(* that waits has a leader that will wake it.                              *)
(*                                                                         *)
(* The argument is one of reference counting.  A record goes back to the   *)
(* pool only when dups reaches 0, and dups is never less than the number   *)
(* of goroutines that still rely on the record (Counted).  So a record     *)
(* that is led again has no reader left, and what fn wrote stays in it as  *)
(* long as anybody has yet to read it (Kept).                              *)
(***************************************************************************)
EXTENDS Singleflight, FiniteSetTheorems, TLAPS

Label == Holding \cup {"idle", "return"}

\* What Do would return to a goroutine that reads record c now.
Result(c) == IF err[c] \in Failure THEN <<None, err[c]>> ELSE <<val[c], err[c]>>

\* Who is counted in the record's dups.
Holders(c) == {p \in Proc : rec[p] = c /\ pc[p] \in Holding}

Running == {"fn", "exit", "done"}

Typed ==
  /\ m \in [Key -> Call \cup {None}] /\ pool \subseteq Call
  /\ val = [c \in Call |-> val[c]] /\ err \in [Call -> Err]
  /\ wg \in [Call -> 0..1] /\ dups \in [Call -> Nat]
  /\ pc \in [Proc -> Label]
  /\ key \in [Proc -> Key \cup {None}] /\ rec \in [Proc -> Call \cup {None}]
  /\ got = [p \in Proc |-> got[p]] /\ fate = [p \in Proc |-> fate[p]]
  /\ \A p \in Proc : IF pc[p] = "idle" THEN rec[p] = None
                     ELSE rec[p] \in Call /\ key[p] \in Key

\* The map leads to the flights under way, one for a key and for a record.
Flights ==
  /\ \A p \in Proc : pc[p] \in Leading => m[key[p]] = rec[p]
  /\ \A k \in Key : m[k] # None =>
       \E p \in Proc : pc[p] \in Leading /\ key[p] = k /\ rec[p] = m[k]
  /\ \A p, q \in Proc :
       pc[p] \in Leading /\ pc[q] \in Leading /\ rec[p] = rec[q] => p = q

\* The WaitGroup is up as long as fn has not ended, and nobody reads a record
\* before.
GroupUp ==
  /\ \A c \in Call : wg[c] = 1 <=> \E p \in Proc : rec[p] = c /\ pc[p] \in Running
  /\ \A p \in Proc : pc[p] \in {"delete", "read", "release"} => wg[rec[p]] = 0

\* dups counts every goroutine that holds the record.  It may count more: a
\* duplicate that fails is never counted out, and its record never pooled.
Counted ==
  /\ \A c \in Call : Cardinality(Holders(c)) <= dups[c]
  /\ \A c \in pool : dups[c] = 0

\* What fn did is in the record until the last goroutine has read it.
Kept ==
  \A p \in Proc :
    /\ pc[p] = "exit" => fate[p] = <<None, "exit">>
    /\ pc[p] \in {"done", "delete", "read"} => fate[p] = Result(rec[p])
    /\ pc[p] = "read" => err[rec[p]] \notin Failure
    /\ pc[p] \in {"release", "return"} => got[p] = fate[p]
    /\ pc[p] = "wait" =>
         /\ \A q \in Proc : pc[q] \in Leading /\ rec[q] = rec[p] => fate[p] = fate[q]
         /\ wg[rec[p]] = 0 => fate[p] = Result(rec[p])

Inv == Typed /\ Flights /\ GroupUp /\ Counted /\ Kept
-----------------------------------------------------------------------------
(* Counting holders.                                                       *)

LEMMA HoldersFinite ==
  \A c : IsFiniteSet(Holders(c)) /\ Cardinality(Holders(c)) \in Nat
<1> TAKE c
<1>1. Holders(c) \in SUBSET Proc
  BY DEF Holders
<1>2. IsFiniteSet(Holders(c))
  BY <1>1, ProcAssumption, FS_Subset
<1> QED
  BY <1>2, FS_CardinalityType

LEMMA Fewer ==
  ASSUME NEW S \in SUBSET Proc, NEW T \in SUBSET S
  PROVE  Cardinality(T) <= Cardinality(S) /\ Cardinality(S) \in Nat
                                          /\ Cardinality(T) \in Nat
<1>1. IsFiniteSet(S)
  BY ProcAssumption, FS_Subset
<1> QED
  BY <1>1, FS_Subset, FS_CardinalityType

LEMMA OneMore ==
  ASSUME NEW S \in SUBSET Proc, NEW p \in Proc
  PROVE  Cardinality(S \cup {p}) <= Cardinality(S) + 1 /\ Cardinality(S) \in Nat
         /\ Cardinality(S \cup {p}) \in Nat
<1>1. IsFiniteSet(S)
  BY ProcAssumption, FS_Subset
<1>2. Cardinality(S \cup {p}) = IF p \in S THEN Cardinality(S) ELSE Cardinality(S) + 1
  BY <1>1, FS_AddElement
<1>3. Cardinality(S) \in Nat
  BY <1>1, FS_CardinalityType
<1> QED
  BY <1>2, <1>3

\* A record in the pool, or one that New makes, has no holder.
LEMMA Unheld ==
  ASSUME Inv, NEW c \in Call, c \in pool \/ ~Reachable(c)
  PROVE  \A q \in Proc : rec[q] = c => pc[q] \notin Holding
<1>1. CASE c \in pool
  <2>1. dups[c] = 0 /\ Cardinality(Holders(c)) <= dups[c]
    BY <1>1 DEF Inv, Counted
  <2>2. Holders(c) = {}
    BY <2>1, HoldersFinite, FS_EmptySet
  <2> QED
    BY <2>2 DEF Holders
<1>2. CASE ~Reachable(c)
  BY <1>2 DEF Reachable
<1> QED
  BY <1>1, <1>2

\* Nobody is counted in or out, and nobody becomes a holder.
LEMMA CountFrame ==
  ASSUME Inv, dups' = dups, pool' = pool,
         \A q \in Proc : pc'[q] \in Holding => pc[q] \in Holding /\ rec'[q] = rec[q]
  PROVE  Counted'
<1>1. ASSUME NEW c \in Call PROVE Cardinality(Holders(c)') <= dups'[c]
  <2>1. Holders(c)' \subseteq Holders(c) /\ Holders(c) \subseteq Proc
    BY DEF Holders
  <2>2. Cardinality(Holders(c)') <= Cardinality(Holders(c))
        /\ Cardinality(Holders(c)') \in Nat /\ Cardinality(Holders(c)) \in Nat
    BY <2>1, Fewer
  <2>3. Cardinality(Holders(c)) <= dups[c] /\ dups[c] \in Nat
    BY DEF Inv, Counted, Typed
  <2> QED
    BY <2>2, <2>3
<1>2. \A c \in pool' : dups'[c] = 0
  BY DEF Inv, Counted
<1> QED
  BY <1>1, <1>2 DEF Counted

\* p is counted in on record c, which is not in the pool any more.
LEMMA CountIn ==
  ASSUME Inv, NEW p \in Proc, NEW c \in Call,
         dups' = [dups EXCEPT ![c] = @ + 1], pool' \subseteq pool, c \notin pool',
         \A q \in Proc : q # p => pc'[q] = pc[q] /\ rec'[q] = rec[q],
         rec'[p] = c
  PROVE  Counted'
<1>1. ASSUME NEW d \in Call PROVE Cardinality(Holders(d)') <= dups'[d]
  <2>a. Cardinality(Holders(d)) <= dups[d] /\ dups[d] \in Nat
    BY DEF Inv, Counted, Typed
  <2>1. CASE d = c
    <3>1. Holders(d)' \subseteq Holders(d) \cup {p} /\ Holders(d) \cup {p} \subseteq Proc
      BY DEF Holders
    <3>2. Cardinality(Holders(d)') <= Cardinality(Holders(d) \cup {p})
          /\ Cardinality(Holders(d)') \in Nat
      BY <3>1, Fewer
    <3>3. Cardinality(Holders(d) \cup {p}) <= Cardinality(Holders(d)) + 1
          /\ Cardinality(Holders(d) \cup {p}) \in Nat /\ Cardinality(Holders(d)) \in Nat
      BY <3>1, OneMore DEF Holders
    <3>4. dups'[d] = dups[d] + 1
      BY <2>1 DEF Inv, Typed
    <3> QED
      BY <2>a, <3>2, <3>3, <3>4
  <2>2. CASE d # c
    <3>1. Holders(d)' \subseteq Holders(d) /\ Holders(d) \subseteq Proc
      BY <2>2 DEF Holders
    <3>2. Cardinality(Holders(d)') <= Cardinality(Holders(d))
          /\ Cardinality(Holders(d)') \in Nat /\ Cardinality(Holders(d)) \in Nat
      BY <3>1, Fewer
    <3>3. dups'[d] = dups[d]
      BY <2>2 DEF Inv, Typed
    <3> QED
      BY <2>a, <3>2, <3>3
  <2> QED
    BY <2>1, <2>2
<1>2. \A d \in pool' : dups'[d] = 0
  BY DEF Inv, Counted, Typed
<1> QED
  BY <1>1, <1>2 DEF Counted

-----------------------------------------------------------------------------
(* The steps.                                                              *)

LEMMA InitInv == Init => Inv
<1> SUFFICES ASSUME Init PROVE Inv
  OBVIOUS
<1> USE DEF Init
<1>1. Typed
  BY DEF Typed, Err, Failure, Label
<1>2. Flights /\ GroupUp
  BY NoneAssumption DEF Flights, GroupUp, Leading, Running
<1>3. Counted
  <2>1. \A c \in Call : Holders(c) = {}
    BY NoneAssumption DEF Holders, Holding, Leading
  <2>2. \A c \in Call : Cardinality(Holders(c)) = 0 /\ dups[c] = 0
    BY <2>1, FS_EmptySet
  <2> QED
    BY <2>2 DEF Counted
<1>4. Kept
  BY DEF Kept
<1> QED
  BY <1>1, <1>2, <1>3, <1>4 DEF Inv

LEMMA JoinInv == ASSUME NEW p \in Proc, NEW k \in Key, Inv, Join(p, k) PROVE Inv'
<1> DEFINE c == m[k]
<1> USE DEF Inv
<1>1. /\ pc[p] = "idle" /\ pc' = [pc EXCEPT ![p] = "wait"] /\ c \in Call
      /\ dups' = [dups EXCEPT ![c] = @ + 1] /\ key' = [key EXCEPT ![p] = k]
      /\ rec' = [rec EXCEPT ![p] = c]
      /\ fate' = [fate EXCEPT ![p] = fate[Leader(c)]]
      /\ UNCHANGED <<m, mu, pool, val, err, wg, got>>
  BY DEF Join, At, To, Typed
<1>2. PICK l \in Proc : pc[l] \in Leading /\ key[l] = k /\ rec[l] = c
  BY NoneAssumption, <1>1 DEF Flights, Join
<1>3. Leader(c) = l
  BY <1>2 DEF Leader, Flights
<1>4. l # p /\ c \notin pool
  BY <1>1, <1>2, Unheld DEF Leading, Holding
<1>a. /\ \A q \in Proc : q # p => /\ pc'[q] = pc[q] /\ rec'[q] = rec[q]
                                  /\ key'[q] = key[q] /\ fate'[q] = fate[q]
      /\ pc'[p] = "wait" /\ rec'[p] = c /\ key'[p] = k /\ fate'[p] = fate[l]
  BY <1>1, <1>3 DEF Typed
<1>5. Typed'
  BY <1>1, <1>a DEF Typed, Label, Holding
<1>6. Flights'
  BY <1>1, <1>2, <1>a DEF Flights, Leading
<1>7. GroupUp'
  BY <1>1, <1>a DEF GroupUp, Running
<1>8. Counted'
  BY <1>1, <1>4, <1>a, CountIn
<1>9. Kept'
  <2>1. \A d \in Call : Result(d)' = Result(d)
    BY <1>1 DEF Result
  <2>2. wg[c] = 0 => fate[l] = Result(c)
    BY <1>1, <1>2 DEF Kept, GroupUp, Leading, Running, Typed
  <2>3. \A q \in Proc : pc[q] \in Leading /\ rec[q] = c => q = l
    BY <1>2 DEF Flights
  <2>4. \A q \in Proc : pc[q] # "idle" => rec[q] \in Call
    BY DEF Typed
  <2>5. \A q \in Proc : pc'[q] \in Leading => pc[q] \in Leading /\ q # p
    BY <1>a DEF Leading
  <2> QED
    BY <1>1, <1>a, <2>1, <2>2, <2>3, <2>4, <2>5 DEF Kept
<1> QED
  BY <1>5, <1>6, <1>7, <1>8, <1>9

LEMMA LeadInv ==
  ASSUME NEW p \in Proc, NEW k \in Key, NEW c \in Call, Inv, Lead(p, k, c),
         \/ c \in pool /\ pool' = pool \ {c}
         \/ ~Reachable(c) /\ UNCHANGED pool
  PROVE  Inv'
<1> USE DEF Inv
<1>1. /\ pc[p] = "idle" /\ pc' = [pc EXCEPT ![p] = "fn"] /\ m[k] = None
      /\ m' = [m EXCEPT ![k] = c]
      /\ dups' = [dups EXCEPT ![c] = @ + 1] /\ wg' = [wg EXCEPT ![c] = @ + 1]
      /\ key' = [key EXCEPT ![p] = k] /\ rec' = [rec EXCEPT ![p] = c]
      /\ UNCHANGED <<mu, val, err, got, fate>>
  BY DEF Lead, At, To
<1>2. \A q \in Proc : rec[q] = c => pc[q] \notin Holding
  BY Unheld
<1>3. wg[c] = 0
  BY <1>2 DEF GroupUp, Typed, Running, Holding, Leading
<1>a. /\ \A q \in Proc : q # p => /\ pc'[q] = pc[q] /\ rec'[q] = rec[q]
                                  /\ key'[q] = key[q]
      /\ pc'[p] = "fn" /\ rec'[p] = c /\ key'[p] = k
  BY <1>1 DEF Typed
<1>b. /\ \A d \in Call : wg'[d] = IF d = c THEN 1 ELSE wg[d]
      /\ \A l \in Key : m'[l] = IF l = k THEN c ELSE m[l]
  BY <1>1, <1>3 DEF Typed
<1>c. c \notin pool' /\ pool' \subseteq pool
  BY DEF Reachable
<1>5. Typed'
  <2>1. wg' \in [Call -> 0..1]
    BY <1>1, <1>3 DEF Typed
  <2>2. dups' \in [Call -> Nat]
    BY <1>1 DEF Typed
  <2>3. pc' \in [Proc -> Label]
    BY <1>1 DEF Typed, Label, Holding, Leading
  <2> QED
    BY <1>1, <1>a, <1>c, <2>1, <2>2, <2>3 DEF Typed
<1>6. Flights'
  <2>1. \A q \in Proc : pc[q] \in Leading => key[q] # k /\ rec[q] # c
    BY <1>1, <1>2, NoneAssumption DEF Flights, Typed, Holding, Leading
  <2>2. \A q \in Proc : pc[q] \in Leading => key[q] \in Key
    BY DEF Typed, Leading
  <2> QED
    BY <1>1, <1>a, <1>b, <2>1, <2>2 DEF Flights, Leading
<1>7. GroupUp'
  <2>1. \A q \in Proc : pc'[q] \in {"delete", "read", "release"} =>
          q # p /\ rec[q] # c /\ rec[q] \in Call
    BY <1>1, <1>2, <1>a DEF Holding, Leading, Typed
  <2>2. \A q \in Proc : pc'[q] \in {"delete", "read", "release"} => wg'[rec'[q]] = 0
    BY <1>a, <1>b, <2>1 DEF GroupUp
  <2>3. ASSUME NEW d \in Call
        PROVE  (wg'[d] = 1 <=> \E q \in Proc : rec'[q] = d /\ pc'[q] \in Running)
    <3>1. CASE d = c
      BY <1>a, <1>b, <3>1 DEF Running
    <3>2. CASE d # c
      BY <1>1, <1>a, <1>b, <3>2 DEF Running, GroupUp
    <3> QED
      BY <3>1, <3>2
  <2> QED
    BY <2>2, <2>3 DEF GroupUp
<1>8. Counted'
  BY <1>1, <1>a, <1>c, CountIn
<1>9. Kept'
  <2>1. \A d \in Call : Result(d)' = Result(d)
    BY <1>1 DEF Result
  <2>2. \A q \in Proc : pc'[q] \in {"exit", "done", "delete", "read", "wait"} =>
          q # p /\ rec[q] # c /\ rec[q] \in Call
    BY <1>1, <1>2, <1>a DEF Holding, Leading, Typed
  <2>3. \A q \in Proc : pc'[q] \in Leading => q = p \/ pc[q] \in Leading
    BY <1>a
  <2>4. \A q \in Proc : pc'[q] \in {"release", "return"} => q # p
    BY <1>a
  <2> QED
    BY <1>1, <1>a, <1>b, <2>1, <2>2, <2>3, <2>4 DEF Kept
<1> QED
  BY <1>5, <1>6, <1>7, <1>8, <1>9

\* fn ends: only the leader touches the record, and all the others of its
\* flight are waiting.
LEMMA FnInv == ASSUME NEW p \in Proc, NEW e \in Err, Inv, Fn(p, e) PROVE Inv'
<1> DEFINE v == IF e \in Failure THEN None ELSE Fresh
           c == rec[p]
<1> USE DEF Inv
<1>1. /\ pc[p] = "fn" /\ pc' = [pc EXCEPT ![p] = IF e = "exit" THEN "exit" ELSE "done"]
      /\ val' = IF e \in Failure THEN val ELSE [val EXCEPT ![c] = v]
      /\ err' = IF e = "exit" THEN err ELSE [err EXCEPT ![c] = e]
      /\ fate' = [q \in Proc |-> IF q \in Aboard(c) THEN <<v, e>> ELSE fate[q]]
      /\ UNCHANGED <<m, mu, pool, wg, dups, key, rec, got>>
  BY DEF Fn, At, To
<1>2. c \in Call /\ wg[c] = 1
  BY <1>1 DEF Typed, GroupUp, Running
<1>3. /\ \A q \in Proc : q # p => pc'[q] = pc[q]
      /\ pc'[p] \in {"exit", "done"} /\ (pc'[p] = "exit" <=> e = "exit")
  BY <1>1 DEF Typed
<1>4. /\ \A d \in Call : d # c => val'[d] = val[d] /\ err'[d] = err[d]
      /\ e # "exit" => err'[c] = e
      /\ e \notin Failure => val'[c] = v
  BY <1>1, <1>2 DEF Typed, Failure
<1>5. Typed'
  <2>1. err' \in [Call -> Err]
    BY <1>1, <1>2 DEF Typed
  <2>2. val' = [d \in Call |-> val'[d]]
    BY <1>1 DEF Typed
  <2>3. fate' = [q \in Proc |-> fate'[q]]
    BY <1>1
  <2>4. pc' \in [Proc -> Label]
    BY <1>1 DEF Typed, Label, Holding, Leading
  <2>5. \A q \in Proc : pc'[q] = "idle" <=> pc[q] = "idle"
    BY <1>1, <1>3
  <2> QED
    BY <1>1, <2>1, <2>2, <2>3, <2>4, <2>5 DEF Typed
<1>6. Flights'
  BY <1>1, <1>3 DEF Flights, Leading
<1>7. GroupUp'
  <2>1. \A q \in Proc : /\ pc'[q] \in Running <=> pc[q] \in Running
                        /\ pc'[q] \in {"delete", "read", "release"} => pc[q] = pc'[q]
    BY <1>1, <1>3 DEF Running
  <2> QED
    BY <1>1, <2>1 DEF GroupUp
<1>8. Counted'
  <2>1. \A q \in Proc : pc'[q] \in Holding => pc[q] \in Holding
    BY <1>1, <1>3 DEF Holding, Leading
  <2> QED
    BY <1>1, <2>1, CountFrame
<1>9. Kept'
  <2>1. \A q \in Proc : pc[q] \in Leading /\ rec[q] = c => q = p
    BY <1>1 DEF Flights, Leading
  <2>2. \A q \in Proc : rec[q] = c /\ q # p => pc[q] \notin {"delete", "read", "release"}
    BY <1>2 DEF GroupUp
  <2>3. \A q \in Proc : fate'[q] = IF rec[q] = c /\ pc[q] \in Leading \cup {"wait"}
                                     THEN <<v, e>> ELSE fate[q]
    BY <1>1 DEF Aboard
  <2>4. \A d \in Call : d # c => Result(d)' = Result(d)
    BY <1>4 DEF Result
  <2>5. e # "exit" => Result(c)' = <<v, e>>
    BY <1>1, <1>4 DEF Result
  <2>6. SUFFICES ASSUME NEW q \in Proc
                 PROVE  /\ pc'[q] = "exit" => fate'[q] = <<None, "exit">>
                        /\ pc'[q] \in {"done", "delete", "read"} =>
                             fate'[q] = Result(rec[q])'
                        /\ pc'[q] = "read" => err'[rec[q]] \notin Failure
                        /\ pc'[q] \in {"release", "return"} => got'[q] = fate'[q]
                        /\ pc'[q] = "wait" =>
                             /\ \A r \in Proc : pc'[r] \in Leading /\ rec[r] = rec[q] =>
                                  fate'[q] = fate'[r]
                             /\ wg[rec[q]] = 0 => fate'[q] = Result(rec[q])'
    <3>1. rec' = rec /\ wg' = wg
      BY <1>1
    <3> QED
      BY <2>6, <3>1 DEF Kept
  <2>7. CASE q = p
    <3>1. fate'[p] = <<v, e>>
      BY <1>1, <2>3 DEF Leading
    <3>2. e = "exit" => v = None
      BY DEF Failure
    <3> QED
      BY <1>3, <2>5, <2>7, <3>1, <3>2
  <2>8. CASE q # p /\ rec[q] = c
    <3>1. pc'[q] = pc[q] /\ pc[q] \notin {"delete", "read", "release", "exit", "done"}
      BY <1>3, <2>1, <2>2, <2>8 DEF Leading
    <3>2. pc[q] = "wait" => fate'[q] = <<v, e>>
      BY <2>3, <2>8
    <3>3. pc[q] = "return" => fate'[q] = fate[q] /\ got'[q] = got[q]
      BY <1>1, <2>3 DEF Leading
    <3>4. \A r \in Proc : pc'[r] \in Leading /\ rec[r] = c => fate'[r] = <<v, e>>
      <4> SUFFICES ASSUME NEW r \in Proc, pc'[r] \in Leading, rec[r] = c
                   PROVE  fate'[r] = <<v, e>>
        OBVIOUS
      <4>1. pc[r] \in Leading
        BY <1>1, <1>3 DEF Leading
      <4> QED
        BY <2>3, <4>1
    <3> QED
      BY <1>2, <2>8, <3>1, <3>2, <3>3, <3>4 DEF Kept
  <2>9. CASE rec[q] # c
    <3>1. pc'[q] = pc[q] /\ fate'[q] = fate[q] /\ got'[q] = got[q]
      BY <1>1, <1>3, <2>3, <2>9
    <3>2. pc[q] # "idle" => rec[q] \in Call
      BY DEF Typed
    <3>3. \A r \in Proc : pc'[r] \in Leading /\ rec[r] = rec[q] =>
            pc[r] \in Leading /\ fate'[r] = fate[r]
      BY <1>3, <2>3, <2>9
    <3> QED
      BY <1>1, <1>4, <2>4, <2>9, <3>1, <3>2, <3>3 DEF Kept
  <2> QED
    BY <2>7, <2>8, <2>9
<1> QED
  BY <1>5, <1>6, <1>7, <1>8, <1>9

LEMMA SetExitInv == ASSUME NEW p \in Proc, Inv, SetExit(p) PROVE Inv'
<1> DEFINE c == rec[p]
<1> USE DEF Inv
<1>1. /\ pc[p] = "exit" /\ pc' = [pc EXCEPT ![p] = "done"]
      /\ err' = [err EXCEPT ![c] = "exit"]
      /\ UNCHANGED <<m, mu, pool, val, wg, dups, key, rec, got, fate>>
  BY DEF SetExit, At, To
<1>2. c \in Call /\ wg[c] = 1
  BY <1>1 DEF Typed, GroupUp, Running
<1>3. (\A q \in Proc : q # p => pc'[q] = pc[q]) /\ pc'[p] = "done"
  BY <1>1 DEF Typed
<1>4. err'[c] = "exit" /\ \A d \in Call : d # c => err'[d] = err[d]
  BY <1>1, <1>2 DEF Typed
<1>5. Typed'
  BY <1>1, <1>2, <1>3 DEF Typed, Label, Holding, Leading, Err, Failure
<1>6. Flights'
  BY <1>1, <1>3 DEF Flights, Leading
<1>7. GroupUp'
  <2>1. \A q \in Proc : /\ pc'[q] \in Running <=> pc[q] \in Running
                        /\ pc'[q] \in {"delete", "read", "release"} => pc[q] = pc'[q]
    BY <1>1, <1>3 DEF Running
  <2> QED
    BY <1>1, <2>1 DEF GroupUp
<1>8. Counted'
  <2>1. \A q \in Proc : pc'[q] \in Holding => pc[q] \in Holding
    BY <1>1, <1>3 DEF Holding, Leading
  <2> QED
    BY <1>1, <2>1, CountFrame
<1>9. Kept'
  <2>1. \A q \in Proc : pc[q] \in Leading /\ rec[q] = c => q = p
    BY <1>1 DEF Flights, Leading
  <2>2. \A q \in Proc : rec[q] = c /\ q # p => pc[q] \notin {"done", "delete", "read"}
    BY <1>2, <2>1 DEF GroupUp, Leading
  <2>3. \A d \in Call : d # c => Result(d)' = Result(d)
    BY <1>1, <1>4 DEF Result
  <2>4. Result(c)' = <<None, "exit">> /\ fate[p] = <<None, "exit">>
    BY <1>1, <1>4 DEF Result, Failure, Kept
  <2>5. \A q \in Proc : pc'[q] \in Leading <=> pc[q] \in Leading
    BY <1>1, <1>3 DEF Leading
  <2>6. \A q \in Proc : pc[q] # "idle" => rec[q] \in Call
    BY DEF Typed
  <2>7. ASSUME NEW q \in Proc, q # p PROVE Kept!(q)'
    BY <1>1, <1>2, <1>3, <1>4, <2>2, <2>3, <2>5, <2>6, <2>7 DEF Kept
  <2> QED
    BY <1>1, <1>3, <2>4, <2>7 DEF Kept
<1> QED
  BY <1>5, <1>6, <1>7, <1>8, <1>9

\* The WaitGroup comes down: what the waiters will read is in the record.
LEMMA DoneInv == ASSUME NEW p \in Proc, Inv, Done(p) PROVE Inv'
<1> DEFINE c == rec[p]
<1> USE DEF Inv
<1>1. /\ pc[p] = "done" /\ pc' = [pc EXCEPT ![p] = "delete"]
      /\ wg' = [wg EXCEPT ![c] = @ - 1]
      /\ UNCHANGED <<m, pool, val, err, dups, key, rec, got, fate>>
  BY DEF Done, At, To
<1>2. c \in Call /\ wg[c] = 1
  BY <1>1 DEF Typed, GroupUp, Running
<1>3. (\A q \in Proc : q # p => pc'[q] = pc[q]) /\ pc'[p] = "delete"
  BY <1>1 DEF Typed
<1>4. \A d \in Call : wg'[d] = IF d = c THEN 0 ELSE wg[d]
  BY <1>1, <1>2 DEF Typed
<1>a. \A q \in Proc : pc[q] \in Leading /\ rec[q] = c => q = p
  BY <1>1 DEF Flights, Leading
<1>b. \A q \in Proc : pc'[q] \in Leading <=> pc[q] \in Leading
  BY <1>1, <1>3 DEF Leading
<1>c. \A q \in Proc : pc[q] # "idle" => rec[q] \in Call
  BY DEF Typed
<1>5. Typed'
  <2>1. wg' \in [Call -> 0..1]
    BY <1>1, <1>2 DEF Typed
  <2> QED
    BY <1>1, <1>3, <2>1 DEF Typed, Label, Holding, Leading
<1>6. Flights'
  BY <1>1, <1>b DEF Flights
<1>7. GroupUp'
  <2>1. ASSUME NEW d \in Call
        PROVE  (wg'[d] = 1 <=> \E q \in Proc : rec'[q] = d /\ pc'[q] \in Running)
    <3>1. CASE d = c
      BY <1>1, <1>3, <1>4, <1>a, <3>1 DEF Running, Leading
    <3>2. CASE d # c
      BY <1>1, <1>3, <1>4, <3>2 DEF Running, GroupUp
    <3> QED
      BY <3>1, <3>2
  <2>2. \A q \in Proc : pc'[q] \in {"delete", "read", "release"} => wg'[rec'[q]] = 0
    BY <1>1, <1>2, <1>3, <1>4, <1>c DEF GroupUp
  <2> QED
    BY <2>1, <2>2 DEF GroupUp
<1>8. Counted'
  <2>1. \A q \in Proc : pc'[q] \in Holding => pc[q] \in Holding
    BY <1>1, <1>3 DEF Holding, Leading
  <2> QED
    BY <1>1, <2>1, CountFrame
<1>9. Kept'
  <2>1. \A d \in Call : Result(d)' = Result(d)
    BY <1>1 DEF Result
  <2>2. \A q \in Proc : pc[q] = "wait" /\ rec[q] = c => fate[q] = Result(c)
    BY <1>1 DEF Kept, Leading
  <2> QED
    BY <1>1, <1>2, <1>3, <1>4, <1>b, <1>c, <2>1, <2>2 DEF Kept
<1> QED
  BY <1>5, <1>6, <1>7, <1>8, <1>9

\* A goroutine has seen how its flight ended, and nothing else changes but
\* perhaps the map.
LEMMA OutcomeKept ==
  ASSUME NEW p \in Proc, NEW failed \in {"release", "return"}, Inv,
         pc[p] \in {"delete", "wait"}, wg[rec[p]] = 0, Outcome(p, failed),
         UNCHANGED <<pool, record, key, rec, fate>>
  PROVE  /\ Typed' <=> m' \in [Key -> Call \cup {None}]
         /\ GroupUp' /\ Counted' /\ Kept'
         /\ pc' = [pc EXCEPT ![p] = pc'[p]] /\ pc'[p] \in {failed, "read"}
<1> DEFINE c == rec[p]
<1> USE DEF Inv, record
<1>1. /\ pc' = [pc EXCEPT ![p] = pc'[p]] /\ pc'[p] \in {failed, "read"}
      /\ \A q \in Proc : q # p => pc'[q] = pc[q] /\ got'[q] = got[q]
      /\ pc'[p] = failed => err[c] \in Failure /\ got'[p] = <<None, err[c]>>
      /\ pc'[p] = "read" => err[c] \notin Failure
      /\ got' = [q \in Proc |-> got'[q]]
  <2>1. CASE err[c] \in Failure
    BY <2>1 DEF Outcome, To, Typed
  <2>2. CASE err[c] \notin Failure
    BY <2>2 DEF Outcome, To, Typed
  <2> QED
    BY <2>1, <2>2
<1>2. c \in Call /\ fate[p] = Result(c)
  BY DEF Typed, Kept
<1>3. \A d : Result(d)' = Result(d)
  BY DEF Result
<1>4. Typed' <=> m' \in [Key -> Call \cup {None}]
  BY <1>1 DEF Typed, Label, Holding, Leading
<1>5. \A q \in Proc : pc'[q] \in Running <=> pc[q] \in Running
  BY <1>1 DEF Running
<1>6. GroupUp'
  BY <1>1, <1>5 DEF GroupUp
<1>7. Counted'
  <2>1. \A q \in Proc : pc'[q] \in Holding => pc[q] \in Holding
    BY <1>1 DEF Holding, Leading
  <2> QED
    BY <2>1, CountFrame
<1>8. Kept'
  <2>1. \A q \in Proc : pc'[q] \in Leading => pc[q] \in Leading
    BY <1>1 DEF Leading
  <2>2. ASSUME NEW q \in Proc, q # p PROVE Kept!(q)'
    BY <1>1, <1>3, <2>1, <2>2 DEF Kept
  <2>3. Kept!(p)'
    BY <1>1, <1>2, <1>3 DEF Result
  <2> QED
    BY <2>2, <2>3 DEF Kept
<1> QED
  BY <1>1, <1>4, <1>6, <1>7, <1>8

LEMMA DeleteCallInv == ASSUME NEW p \in Proc, Inv, DeleteCall(p) PROVE Inv'
<1> USE DEF Inv
<1>1. /\ pc[p] = "delete" /\ wg[rec[p]] = 0 /\ Outcome(p, "release")
      /\ UNCHANGED <<pool, record, key, rec, fate>>
  BY DEF DeleteCall, At, GroupUp
<1>2. m[key[p]] = rec[p] /\ key[p] \in Key /\ rec[p] \in Call
  BY <1>1 DEF Flights, Leading, Typed
<1>3. m' = [m EXCEPT ![key[p]] = None]
  BY <1>2 DEF DeleteCall
<1>4. Typed' /\ GroupUp' /\ Counted' /\ Kept'
      /\ pc' = [pc EXCEPT ![p] = pc'[p]] /\ pc'[p] \in {"release", "read"}
  <2>1. m' \in [Key -> Call \cup {None}]
    BY <1>3 DEF Typed
  <2> QED
    BY <1>1, <2>1, OutcomeKept
<1>5. \A q \in Proc : pc'[q] \in Leading <=> q # p /\ pc[q] \in Leading
  BY <1>4 DEF Typed, Leading
<1>6. \A k \in Key : m'[k] = IF k = key[p] THEN None ELSE m[k]
  BY <1>3 DEF Typed
<1>7. Flights'
  <2>1. \A q \in Proc : pc'[q] \in Leading => key[q] \in Key /\ rec[q] # rec[p]
    BY <1>1, <1>5 DEF Flights, Typed, Leading
  <2>2. \A q \in Proc : pc'[q] \in Leading => m'[key[q]] = rec[q]
    BY <1>2, <1>5, <1>6, <2>1 DEF Flights
  <2>3. ASSUME NEW k \in Key, m'[k] # None
        PROVE  \E q \in Proc : pc'[q] \in Leading /\ key[q] = k /\ rec[q] = m'[k]
    <3>1. k # key[p] /\ m'[k] = m[k]
      BY <1>6, <2>3
    <3>2. PICK q \in Proc : pc[q] \in Leading /\ key[q] = k /\ rec[q] = m[k]
      BY <2>3, <3>1 DEF Flights
    <3> QED
      BY <1>5, <3>1, <3>2
  <2>4. \A q, r \in Proc :
          pc'[q] \in Leading /\ pc'[r] \in Leading /\ rec[q] = rec[r] => q = r
    BY <1>5 DEF Flights
  <2>5. rec' = rec /\ key' = key
    BY <1>1
  <2> QED
    BY <2>2, <2>3, <2>4, <2>5 DEF Flights
<1> QED
  BY <1>4, <1>7

LEMMA WakeInv == ASSUME NEW p \in Proc, Inv, Wake(p) PROVE Inv'
<1> USE DEF Inv
<1>1. /\ pc[p] = "wait" /\ wg[rec[p]] = 0 /\ Outcome(p, "return")
      /\ UNCHANGED <<m, pool, record, key, rec, fate>>
  BY DEF Wake, At
<1>2. Typed' /\ GroupUp' /\ Counted' /\ Kept'
      /\ pc' = [pc EXCEPT ![p] = pc'[p]] /\ pc'[p] \in {"return", "read"}
  <2>1. m' \in [Key -> Call \cup {None}]
    BY <1>1 DEF Typed
  <2> QED
    BY <1>1, <2>1, OutcomeKept
<1>3. \A q \in Proc : pc'[q] \in Leading <=> pc[q] \in Leading
  BY <1>1, <1>2 DEF Typed, Leading
<1>4. Flights'
  BY <1>1, <1>3 DEF Flights
<1> QED
  BY <1>2, <1>4

LEMMA ReadInv == ASSUME NEW p \in Proc, Inv, Read(p) PROVE Inv'
<1> DEFINE c == rec[p]
<1> USE DEF Inv, record
<1>1. /\ pc[p] = "read" /\ pc' = [pc EXCEPT ![p] = "release"]
      /\ got' = [got EXCEPT ![p] = <<val[c], err[c]>>]
      /\ UNCHANGED <<m, mu, pool, val, err, wg, dups, key, rec, fate>>
  BY DEF Read, At, To
<1>2. /\ \A q \in Proc : q # p => pc'[q] = pc[q] /\ got'[q] = got[q]
      /\ pc'[p] = "release" /\ got'[p] = <<val[c], err[c]>>
  BY <1>1 DEF Typed
<1>3. Typed'
  BY <1>1, <1>2 DEF Typed, Label, Holding, Leading
<1>4. \A q \in Proc : /\ pc'[q] \in Leading <=> pc[q] \in Leading
                      /\ pc'[q] \in Running <=> pc[q] \in Running
                      /\ pc'[q] \in Holding => pc[q] \in Holding
  BY <1>1, <1>2 DEF Leading, Running, Holding
<1>5. Flights'
  BY <1>1, <1>4 DEF Flights
<1>6. GroupUp'
  BY <1>1, <1>2, <1>4 DEF GroupUp
<1>7. Counted'
  BY <1>1, <1>4, CountFrame
<1>8. Kept'
  <2>1. \A d : Result(d)' = Result(d)
    BY <1>1 DEF Result
  <2>2. ASSUME NEW q \in Proc, q # p PROVE Kept!(q)'
    BY <1>1, <1>2, <1>4, <2>1, <2>2 DEF Kept
  <2>3. got'[p] = fate[p]
    BY <1>1, <1>2 DEF Kept, Result
  <2> QED
    BY <1>1, <1>2, <2>2, <2>3 DEF Kept
<1> QED
  BY <1>3, <1>5, <1>6, <1>7, <1>8

\* The last one out takes the record to the pool: nobody else holds it.
LEMMA ReleaseInv == ASSUME NEW p \in Proc, Inv, Release(p) PROVE Inv'
<1> DEFINE c == rec[p]
<1> USE DEF Inv
<1>1. /\ pc[p] = "release" /\ pc' = [pc EXCEPT ![p] = "return"]
      /\ dups' = [dups EXCEPT ![c] = @ - 1]
      /\ IF dups[c] = 1 THEN pool' = pool \cup {c} /\ val' = [val EXCEPT ![c] = Old]
                        ELSE UNCHANGED <<pool, val>>
      /\ UNCHANGED <<m, mu, err, wg, key, rec, got, fate>>
  BY DEF Release, At, To
<1>2. c \in Call /\ wg[c] = 0 /\ p \in Holders(c)
  BY <1>1 DEF Typed, GroupUp, Holders, Holding
<1>3. (\A q \in Proc : q # p => pc'[q] = pc[q]) /\ pc'[p] = "return"
  BY <1>1 DEF Typed
<1>4. \A q \in Proc : /\ pc'[q] \in Leading <=> pc[q] \in Leading
                      /\ pc'[q] \in Running <=> pc[q] \in Running
                      /\ pc'[q] \in Holding <=> q # p /\ pc[q] \in Holding
  BY <1>1, <1>3 DEF Leading, Running, Holding
<1>5. /\ Cardinality(Holders(c) \ {p}) = Cardinality(Holders(c)) - 1
      /\ Cardinality(Holders(c)) <= dups[c]
      /\ Cardinality(Holders(c)) \in Nat /\ dups[c] \in Nat
      /\ IsFiniteSet(Holders(c) \ {p}) /\ Cardinality(Holders(c) \ {p}) \in Nat
  <2>1. Cardinality(Holders(c) \ {p}) = Cardinality(Holders(c)) - 1
        /\ IsFiniteSet(Holders(c) \ {p})
    BY <1>2, HoldersFinite, FS_RemoveElement
  <2> QED
    BY <1>2, <2>1, HoldersFinite, FS_CardinalityType DEF Counted, Typed
<1>6. dups[c] = 1 => Holders(c) \ {p} = {}
  <2>1. dups[c] = 1 => Cardinality(Holders(c) \ {p}) = 0
    BY <1>5
  <2> QED
    BY <1>5, <2>1, FS_EmptySet
<1>7. dups[c] = 1 => \A q \in Proc : q # p /\ rec[q] = c => pc[q] \notin Holding
  BY <1>6 DEF Holders
<1>8. Typed'
  <2>1. dups' \in [Call -> Nat]
    BY <1>1, <1>2, <1>5 DEF Typed
  <2>2. pool' \subseteq Call /\ val' = [d \in Call |-> val'[d]]
    <3>1. CASE dups[c] = 1
      BY <1>1, <1>2, <3>1 DEF Typed
    <3>2. CASE dups[c] # 1
      BY <1>1, <3>2 DEF Typed
    <3> QED
      BY <3>1, <3>2
  <2>3. pc' \in [Proc -> Label]
    BY <1>1 DEF Typed, Label
  <2>4. \A q \in Proc : pc'[q] = "idle" <=> pc[q] = "idle"
    BY <1>1, <1>3
  <2> QED
    BY <1>1, <2>1, <2>2, <2>3, <2>4 DEF Typed
<1>9. Flights'
  BY <1>1, <1>4 DEF Flights
<1>10. GroupUp'
  BY <1>1, <1>3, <1>4 DEF GroupUp
<1>11. Counted'
  <2>1. \A d \in Call : Holders(d)' = IF d = c THEN Holders(d) \ {p} ELSE Holders(d)
    BY <1>1, <1>4 DEF Holders
  <2>2. \A d \in Call : dups'[d] = IF d = c THEN dups[d] - 1 ELSE dups[d]
    BY <1>1 DEF Typed
  <2>3. \A d \in Call : Cardinality(Holders(d)') <= dups'[d]
    BY <1>5, <2>1, <2>2 DEF Counted
  <2>4. \A d \in pool' : dups'[d] = 0
    <3>1. c \notin pool
      BY <1>1, <1>2, Unheld DEF Holding
    <3>2. \A d \in pool : dups'[d] = 0
      BY <2>2, <3>1 DEF Counted, Typed
    <3>3. dups[c] = 1 => dups'[c] = 0
      BY <1>2, <2>2
    <3> QED
      BY <1>1, <3>2, <3>3
  <2> QED
    BY <2>3, <2>4 DEF Counted
<1>12. Kept'
  <2>1. \A d \in Call : d # c => Result(d)' = Result(d)
    <3>1. \A d \in Call : d # c => val'[d] = val[d] /\ err'[d] = err[d]
      BY <1>1 DEF Typed
    <3> QED
      BY <3>1 DEF Result
  <2>2. dups[c] # 1 => \A d : Result(d)' = Result(d)
    BY <1>1 DEF Result
  <2>3. \A q \in Proc : q # p /\ pc[q] \in {"done", "delete", "read", "wait"} =>
          rec[q] \in Call /\ (dups[c] = 1 => rec[q] # c)
    BY <1>7 DEF Typed, Holding, Leading
  <2>4. ASSUME NEW q \in Proc, q # p PROVE Kept!(q)'
    <3>1. pc[q] \in {"done", "delete", "read", "wait"} => Result(rec[q])' = Result(rec[q])
      <4>1. CASE dups[c] = 1
        <5>1. \A d \in Call : d = rec[q] /\ d # c => Result(rec[q])' = Result(d)'
          BY <1>1 DEF Result
        <5> QED
          BY <2>1, <2>3, <2>4, <4>1, <5>1
      <4>2. CASE dups[c] # 1
        BY <1>1, <4>2 DEF Result
      <4> QED
        BY <4>1, <4>2
    <3> QED
      BY <1>1, <1>3, <1>4, <2>4, <3>1 DEF Kept
  <2>5. got[p] = fate[p]
    BY <1>1 DEF Kept
  <2> QED
    BY <1>1, <1>3, <2>4, <2>5 DEF Kept
<1> QED
  BY <1>8, <1>9, <1>10, <1>11, <1>12

\* Do is over.  A record that is given up is nobody's.
LEMMA ReturnInv == ASSUME NEW p \in Proc, Inv, Return(p) PROVE Inv'
<1> DEFINE c == rec[p]
           kept == c \in pool \/ \E q \in Proc \ {p} : rec[q] = c
<1> USE DEF Inv, record
<1>1. /\ pc[p] = "return" /\ pc' = [pc EXCEPT ![p] = "idle"]
      /\ key' = [key EXCEPT ![p] = None] /\ rec' = [rec EXCEPT ![p] = None]
      /\ got' = [got EXCEPT ![p] = Unknown] /\ fate' = [fate EXCEPT ![p] = Unknown]
      /\ UNCHANGED <<m, mu, pool>>
  BY DEF Return, At, To
<1>2. c \in Call
  BY <1>1 DEF Typed
<1>3. /\ \A q \in Proc : q # p => /\ pc'[q] = pc[q] /\ key'[q] = key[q]
                                  /\ rec'[q] = rec[q] /\ got'[q] = got[q]
                                  /\ fate'[q] = fate[q]
      /\ pc'[p] = "idle" /\ rec'[p] = None
  BY <1>1 DEF Typed
<1>4. /\ \A d \in Call : d # c => /\ val'[d] = val[d] /\ err'[d] = err[d]
                                  /\ wg'[d] = wg[d] /\ dups'[d] = dups[d]
      /\ kept => UNCHANGED record
      /\ ~kept => wg'[c] = 0 /\ dups'[c] = 0
      /\ ~kept => \A q \in Proc : rec[q] = c => q = p
      /\ val' = [d \in Call |-> val'[d]] /\ err' \in [Call -> Err]
      /\ wg' \in [Call -> 0..1] /\ dups' \in [Call -> Nat]
  <2>1. CASE kept
    BY <2>1 DEF Return, Typed
  <2>2. CASE ~kept
    <3>1. /\ val' = [val EXCEPT ![c] = None] /\ err' = [err EXCEPT ![c] = "nil"]
          /\ wg' = [wg EXCEPT ![c] = 0] /\ dups' = [dups EXCEPT ![c] = 0]
      BY <2>2 DEF Return
    <3> QED
      BY <1>2, <2>2, <3>1 DEF Typed, Err
  <2> QED
    BY <2>1, <2>2
<1>5. Typed'
  BY <1>1, <1>3, <1>4 DEF Typed, Label
<1>6. \A q \in Proc : /\ pc'[q] \in Leading <=> pc[q] \in Leading
                      /\ pc'[q] \in Leading => q # p
                      /\ pc'[q] \in Running <=> pc[q] \in Running
                      /\ pc'[q] \in Running => q # p
                      /\ pc'[q] \in Holding => q # p /\ pc[q] \in Holding
  BY <1>1, <1>3 DEF Leading, Running, Holding
<1>7. Flights'
  BY <1>1, <1>3, <1>6 DEF Flights
<1>8. GroupUp'
  <2>1. ASSUME NEW d \in Call
        PROVE  (wg'[d] = 1 <=> \E q \in Proc : rec'[q] = d /\ pc'[q] \in Running)
    <3>0. (\E q \in Proc : rec'[q] = d /\ pc'[q] \in Running)
            <=> (\E q \in Proc : rec[q] = d /\ pc[q] \in Running)
      BY <1>3, <1>6
    <3>1. CASE kept \/ d # c
      BY <1>4, <3>0, <3>1 DEF GroupUp
    <3>2. CASE ~kept /\ d = c
      BY <1>4, <1>3, <1>6, <3>2
    <3> QED
      BY <3>1, <3>2
  <2>2. \A q \in Proc : pc'[q] \in {"delete", "read", "release"} =>
          q # p /\ pc[q] = pc'[q] /\ rec[q] \in Call
    BY <1>3 DEF Typed
  <2>3. \A q \in Proc : pc'[q] \in {"delete", "read", "release"} => wg'[rec'[q]] = 0
    BY <1>3, <1>4, <2>2 DEF GroupUp
  <2> QED
    BY <2>1, <2>3 DEF GroupUp
<1>9. Counted'
  <2>1. ASSUME NEW d \in Call PROVE Cardinality(Holders(d)') <= dups'[d]
    <3>1. Holders(d)' \subseteq Holders(d) /\ Holders(d) \subseteq Proc
      BY <1>3, <1>6 DEF Holders
    <3>2. CASE kept \/ d # c
      <4>1. dups'[d] = dups[d] /\ dups[d] \in Nat /\ Cardinality(Holders(d)) <= dups[d]
        BY <1>4, <3>2 DEF Counted, Typed
      <4>2. Cardinality(Holders(d)') <= Cardinality(Holders(d))
            /\ Cardinality(Holders(d)') \in Nat /\ Cardinality(Holders(d)) \in Nat
        BY <3>1, Fewer
      <4> QED
        BY <4>1, <4>2
    <3>3. CASE ~kept /\ d = c
      <4>1. Holders(d)' = {}
        BY <1>4, <1>6, <3>1, <3>3 DEF Holders
      <4>2. Cardinality(Holders(d)') = 0
        BY <4>1, FS_EmptySet
      <4> QED
        BY <1>4, <3>3, <4>2
    <3> QED
      BY <3>2, <3>3
  <2>2. \A d \in pool' : dups'[d] = 0
    BY <1>1, <1>4 DEF Counted, Typed
  <2> QED
    BY <2>1, <2>2 DEF Counted
<1>10. Kept'
  <2>1. \A d \in Call : kept \/ d # c =>
          Result(d)' = Result(d) /\ wg'[d] = wg[d] /\ err'[d] = err[d]
    BY <1>4 DEF Result
  <2>2. ASSUME NEW q \in Proc, q # p PROVE Kept!(q)'
    <3>1. pc[q] # "idle" => rec[q] \in Call /\ (kept \/ rec[q] # c)
      BY <1>4, <2>2 DEF Typed
    <3>2. pc[q] # "idle" =>
            Result(rec[q])' = Result(rec[q]) /\ wg'[rec[q]] = wg[rec[q]]
              /\ err'[rec[q]] = err[rec[q]]
      <4>1. \A d \in Call : d = rec[q] => Result(rec[q])' = Result(d)'
        BY <1>3, <2>2 DEF Result
      <4> QED
        BY <2>1, <3>1, <4>1
    <3> QED
      BY <1>3, <1>6, <2>2, <3>2 DEF Kept
  <2> QED
    BY <1>3, <2>2 DEF Kept
<1> QED
  BY <1>5, <1>7, <1>8, <1>9, <1>10

LEMMA StepInv == Inv /\ [Next]_vars => Inv'
<1> SUFFICES ASSUME Inv, [Next]_vars PROVE Inv'
  OBVIOUS
<1>1. CASE Next
  <2>1. PICK p \in Proc : Do(p) \/ Step(p)
    BY <1>1 DEF Next
  <2>2. CASE Do(p)
    <3>1. PICK k \in Key : Join(p, k) \/ LeadPooled(p, k) \/ LeadNew(p, k)
      BY <2>2 DEF Do
    <3>2. CASE Join(p, k)
      BY <3>2, JoinInv
    <3>3. CASE LeadPooled(p, k)
      <4>1. PICK c \in pool : Lead(p, k, c) /\ pool' = pool \ {c}
        BY <3>3 DEF LeadPooled
      <4>2. c \in Call
        BY DEF Inv, Typed
      <4> QED
        BY <4>1, <4>2, LeadInv
    <3>4. CASE LeadNew(p, k)
      BY <3>4, LeadInv DEF LeadNew
    <3> QED
      BY <3>1, <3>2, <3>3, <3>4
  <2>3. CASE Step(p)
    BY <2>3, FnInv, SetExitInv, DoneInv, DeleteCallInv, WakeInv, ReadInv,
       ReleaseInv, ReturnInv DEF Step
  <2> QED
    BY <2>1, <2>2, <2>3
<1>2. CASE UNCHANGED vars
  <2>1. \A c : Holders(c)' = Holders(c) /\ Result(c)' = Result(c)
    BY <1>2 DEF vars, record, Holders, Result
  <2>2. Typed' /\ Flights' /\ GroupUp'
    BY <1>2 DEF vars, record, Inv, Typed, Flights, GroupUp
  <2>3. Counted' /\ Kept'
    BY <1>2, <2>1 DEF vars, record, Inv, Counted, Kept
  <2> QED
    BY <2>2, <2>3 DEF Inv
<1> QED
  BY <1>1, <1>2

-----------------------------------------------------------------------------
(* The theorems.                                                           *)

\* Group.Do runs one fn at a time for a key, and no two flights share a call
\* record of the pool.
THEOREM FlightsApart == Spec => []OneFlight
<1>1. Inv => OneFlight
  BY DEF Inv, Flights, OneFlight
<1> QED
  BY <1>1, InitInv, StepInv, PTL DEF Spec

\* Every caller of Group.Do gets what the fn of its own flight did, though the
\* record it reads is pooled and used again.
THEOREM OwnResult == Spec => []SameResult
<1>1. Inv => SameResult
  BY DEF Inv, Kept, SameResult, At
<1> QED
  BY <1>1, InitInv, StepInv, PTL DEF Spec

\* A record in callPool has no goroutine, no key and no count left.
THEOREM PooledClean == Spec => []PoolClean
<1>1. Inv => PoolClean
  <2> SUFFICES ASSUME Inv, NEW c \in pool
               PROVE  /\ dups[c] = 0 /\ wg[c] = 0
                      /\ \A k \in Key : m[k] # c
                      /\ \A p \in Proc : pc[p] \in Holding => rec[p] # c
    BY DEF PoolClean
  <2>1. c \in Call /\ c # None
    BY NoneAssumption DEF Inv, Typed
  <2>2. \A p \in Proc : pc[p] \in Holding => rec[p] # c
    BY <2>1, Unheld
  <2>3. wg[c] = 0
    BY <2>1, <2>2 DEF Inv, GroupUp, Typed, Running, Holding, Leading
  <2>4. \A k \in Key : m[k] # c
    BY <2>1, <2>2 DEF Inv, Flights, Holding
  <2> QED
    BY <2>2, <2>3, <2>4 DEF Inv, Counted
<1> QED
  BY <1>1, InitInv, StepInv, PTL DEF Spec

\* A duplicate held up by the WaitGroup has a leader on its way to wg.Done,
\* whether fn returns, panics or exits.
THEOREM NoDuplicateStranded == Spec => []LeaderOnItsWay
<1>1. Inv => LeaderOnItsWay
  <2> SUFFICES ASSUME Inv, NEW p \in Proc, pc[p] = "wait", wg[rec[p]] > 0
               PROVE  \E q \in Proc : rec[q] = rec[p] /\ pc[q] \in {"fn", "exit", "done"}
    BY DEF LeaderOnItsWay, At
  <2>1. rec[p] \in Call
    BY DEF Inv, Typed
  <2>2. wg[rec[p]] = 1
    BY <2>1 DEF Inv, Typed
  <2> QED
    BY <2>1, <2>2 DEF Inv, GroupUp, Running
<1> QED
  BY <1>1, InitInv, StepInv, PTL DEF Spec
=============================================================================
