---------------------------- MODULE Singleflight ----------------------------
(***************************************************************************)
(* Duplicate suppression of a shard (internal/singleflight.go): Group.Do   *)
(* and doCall, with the pool of call records.  The loading store and the   *)
(* hybrid store run their loader, or their secondary lookup, in it.        *)
(*                                                                         *)
(* The goroutine that finds no call for its key leads a flight: it takes a *)
(* record, publishes it in the map and runs fn.  Those that find the       *)
(* record wait for its WaitGroup and read the result out of it.  Whoever   *)
(* counts the record's dups down to 0 gives it back to the pool.           *)
(*                                                                         *)
(* fn returns a value that nothing in sight holds, so that a value read    *)
(* out of the wrong record, or too late, shows.  Records and values are    *)
(* used again when nothing refers to them: no run is cut short.            *)
(***************************************************************************)
EXTENDS Integers, FiniteSetsExt

CONSTANTS
  Proc,        \* goroutines calling Do
  Key,
  Call,        \* call records: as many as goroutines are enough
  Value,       \* results of fn: as many as goroutines and records are enough
  None         \* the nil pointer and the zero value

ASSUME NoneAssumption == None \notin Proc \cup Key \cup Call \cup Value
ASSUME ProcAssumption == IsFiniteSet(Proc)
ASSUME ValueAssumption == Value \subseteq Nat \ {0}

Old == 0       \* the value of some earlier flight, whichever it was

VARIABLES
  m,           \* Group.m
  mu,          \* Group.mu, where it is held for more than one step
  pool,        \* callPool
  val, err, wg, dups,   \* the fields of the call records
  pc, key, rec,         \* of a goroutine in Do: its key and its record
  got,         \* and what it has read out of the record, <<val, err>>
  fate         \* what fn of the flight it leads or has joined did, <<val, err>>

record == <<val, err, wg, dups>>
vars   == <<m, mu, pool, record, pc, key, rec, got, fate>>

Failure == {"panic", "exit"}
Err     == {"nil", "error"} \cup Failure
Unknown == <<None, "unknown">>

Init ==
  /\ m = [k \in Key |-> None] /\ mu = None /\ pool = {}
  /\ val = [c \in Call |-> None] /\ err = [c \in Call |-> "nil"]
  /\ wg = [c \in Call |-> 0] /\ dups = [c \in Call |-> 0]
  /\ pc = [p \in Proc |-> "idle"] /\ key = [p \in Proc |-> None]
  /\ rec = [p \in Proc |-> None] /\ got = [p \in Proc |-> Unknown]
  /\ fate = [p \in Proc |-> Unknown]

At(p, from) == pc[p] = from
To(p, label) == pc' = [pc EXCEPT ![p] = label]

\* Who leads the flight of a record, and who is in it.
Leading == {"fn", "exit", "done", "delete"}
Leader(c) == CHOOSE p \in Proc : rec[p] = c /\ pc[p] \in Leading
Aboard(c) == {p \in Proc : rec[p] = c /\ pc[p] \in Leading \cup {"wait"}}

\* A call for the key is in the map: count in and wait for it.
Join(p, k) ==
  /\ At(p, "idle") /\ To(p, "wait")
  /\ mu = None /\ m[k] # None
  /\ dups' = [dups EXCEPT ![m[k]] = @ + 1]
  /\ key' = [key EXCEPT ![p] = k]
  /\ rec' = [rec EXCEPT ![p] = m[k]]
  /\ fate' = [fate EXCEPT ![p] = fate[Leader(m[k])]]
  /\ UNCHANGED <<m, mu, pool, val, err, wg, got>>

\* No call for the key: under mu, record c is counted in and published.
Lead(p, k, c) ==
  /\ At(p, "idle") /\ To(p, "fn")
  /\ mu = None /\ m[k] = None
  /\ m' = [m EXCEPT ![k] = c]
  /\ dups' = [dups EXCEPT ![c] = @ + 1]
  /\ wg' = [wg EXCEPT ![c] = @ + 1]
  /\ key' = [key EXCEPT ![p] = k]
  /\ rec' = [rec EXCEPT ![p] = c]
  /\ UNCHANGED <<mu, val, err, got, fate>>

\* callPool.Get finds a record; its val and err are those of an old flight.
LeadPooled(p, k) == \E c \in pool : Lead(p, k, c) /\ pool' = pool \ {c}

\* callPool.Get calls New, which it may do at any time.
Reachable(c) == c \in pool \/ \E p \in Proc : rec[p] = c
LeadNew(p, k) == \E c \in Call : ~Reachable(c) /\ Lead(p, k, c) /\ UNCHANGED pool

\* fn ends.  A return writes both fields, a panic only err, and Goexit
\* nothing yet.
Fresh == Min({v \in Value : \A c \in Call : val[c] # v}
               \ {fate[p][1] : p \in Proc})
Fn(p, e) ==
  LET v == IF e \in Failure THEN None ELSE Fresh
  IN  /\ At(p, "fn") /\ To(p, IF e = "exit" THEN "exit" ELSE "done")
      /\ val' = IF e \in Failure THEN val ELSE [val EXCEPT ![rec[p]] = v]
      /\ err' = IF e = "exit" THEN err ELSE [err EXCEPT ![rec[p]] = e]
      /\ fate' = [q \in Proc |-> IF q \in Aboard(rec[p]) THEN <<v, e>> ELSE fate[q]]
      /\ UNCHANGED <<m, mu, pool, wg, dups, key, rec, got>>

\* Seeded fault: a fn that left by Goexit leaves the old err in the record.
SetExitNot(p) ==
  /\ At(p, "exit") /\ To(p, "done")
  /\ UNCHANGED <<m, mu, pool, record, key, rec, got, fate>>

\* The deferred function of doCall: fn invoked runtime.Goexit.
SetExit(p) ==
  /\ At(p, "exit") /\ To(p, "done")
  /\ err' = [err EXCEPT ![rec[p]] = "exit"]
  /\ UNCHANGED <<m, mu, pool, val, wg, dups, key, rec, got, fate>>

\* Seeded fault: a panic leaves doCall before wg.Done.
DoneUnlessPanic(p) ==
  /\ At(p, "done") /\ To(p, "delete")
  /\ mu = None /\ mu' = p
  /\ wg' = IF err[rec[p]] = "panic" THEN wg ELSE [wg EXCEPT ![rec[p]] = @ - 1]
  /\ UNCHANGED <<m, pool, val, err, dups, key, rec, got, fate>>

\* c.wg.Done() under mu: the duplicates wake up while mu is still held.
Done(p) ==
  /\ At(p, "done") /\ To(p, "delete")
  /\ mu = None /\ mu' = p
  /\ wg' = [wg EXCEPT ![rec[p]] = @ - 1]
  /\ UNCHANGED <<m, pool, val, err, dups, key, rec, got, fate>>

\* Whoever sees a failure in the record fails the same way; the others go on
\* to read the result.
Outcome(p, failed) ==
  IF err[rec[p]] \in Failure
    THEN To(p, failed) /\ got' = [got EXCEPT ![p] = <<None, err[rec[p]]>>]
    ELSE To(p, "read") /\ UNCHANGED got

\* Seeded fault: a failed flight stays in the map.
DeleteCallUnlessFailed(p) ==
  /\ At(p, "delete") /\ Outcome(p, "release")
  /\ m' = IF err[rec[p]] \in Failure THEN m ELSE [m EXCEPT ![key[p]] = None]
  /\ mu' = None
  /\ UNCHANGED <<pool, record, key, rec, fate>>

\* delete(g.m, key) and the unlock of mu.
DeleteCall(p) ==
  /\ At(p, "delete") /\ Outcome(p, "release")
  /\ m' = IF m[key[p]] = rec[p] THEN [m EXCEPT ![key[p]] = None] ELSE m
  /\ mu' = None
  /\ UNCHANGED <<pool, record, key, rec, fate>>

\* The duplicate's Wait returns.  One that fails never counts itself out.
Wake(p) ==
  /\ At(p, "wait") /\ wg[rec[p]] = 0
  /\ Outcome(p, "return")
  /\ UNCHANGED <<m, mu, pool, record, key, rec, fate>>

Read(p) ==
  /\ At(p, "read") /\ To(p, "release")
  /\ got' = [got EXCEPT ![p] = <<val[rec[p]], err[rec[p]]>>]
  /\ UNCHANGED <<m, mu, pool, record, key, rec, fate>>

\* Seeded fault: the leader takes the record back whoever still reads it.
ReleaseAlways(p) ==
  /\ At(p, "release") /\ To(p, "return")
  /\ dups' = [dups EXCEPT ![rec[p]] = @ - 1]
  /\ pool' = pool \cup {rec[p]}
  /\ val' = [val EXCEPT ![rec[p]] = Old]
  /\ UNCHANGED <<m, mu, err, wg, key, rec, got, fate>>

\* n := c.dups.Add(-1); the last one out returns the record with what is in
\* it.
Release(p) ==
  /\ At(p, "release") /\ To(p, "return")
  /\ dups' = [dups EXCEPT ![rec[p]] = @ - 1]
  /\ IF dups[rec[p]] = 1
       THEN pool' = pool \cup {rec[p]} /\ val' = [val EXCEPT ![rec[p]] = Old]
       ELSE UNCHANGED <<pool, val>>
  /\ UNCHANGED <<m, mu, err, wg, key, rec, got, fate>>

\* Do is over, by return, panic or Goexit.  A record nobody can reach any
\* more is garbage: what New makes of it later is zero.
Return(p) ==
  LET c == rec[p]
      kept == c \in pool \/ \E q \in Proc \ {p} : rec[q] = c
  IN  /\ At(p, "return") /\ To(p, "idle")
      /\ key' = [key EXCEPT ![p] = None]
      /\ rec' = [rec EXCEPT ![p] = None]
      /\ got' = [got EXCEPT ![p] = Unknown]
      /\ fate' = [fate EXCEPT ![p] = Unknown]
      /\ IF kept THEN UNCHANGED record
                 ELSE /\ val' = [val EXCEPT ![c] = None] /\ err' = [err EXCEPT ![c] = "nil"]
                      /\ wg' = [wg EXCEPT ![c] = 0] /\ dups' = [dups EXCEPT ![c] = 0]
      /\ UNCHANGED <<m, mu, pool>>

Do(p) == \E k \in Key : Join(p, k) \/ LeadPooled(p, k) \/ LeadNew(p, k)

Step(p) == \/ \E e \in Err : Fn(p, e)
           \/ SetExit(p) \/ Done(p) \/ DeleteCall(p)
           \/ Wake(p) \/ Read(p) \/ Release(p) \/ Return(p)

Next == \E p \in Proc : Do(p) \/ Step(p)

Spec == Init /\ [][Next]_vars

-----------------------------------------------------------------------------
\* Where a goroutine still counts on its record staying its own.
Holding == Leading \cup {"wait", "read", "release"}

\* Do runs one fn at a time for a key, and no two flights share a record,
\* though records come from a pool.
OneFlight ==
  \A p, q \in Proc :
    (/\ pc[p] \in Leading /\ pc[q] \in Leading
     /\ key[p] = key[q] \/ rec[p] = rec[q]) => p = q

\* Every caller of Do gets what the fn of its own flight did, its value, its
\* error, its panic or its Goexit, however late the caller reads the record.
SameResult == \A p \in Proc : At(p, "return") => got[p] = fate[p]

\* What goes back to the pool is as good as new: nobody is counted in, the
\* WaitGroup is at 0 with nobody in Wait, and no key leads to it.
PoolClean ==
  \A c \in pool : /\ dups[c] = 0 /\ wg[c] = 0
                  /\ \A k \in Key : m[k] # c
                  /\ \A p \in Proc : pc[p] \in Holding => rec[p] # c

\* Nobody waits for nothing: as long as a duplicate is held up by the
\* WaitGroup, the leader of its flight is still on its way to wg.Done, also
\* when fn panics or exits its goroutine.
LeaderOnItsWay ==
  \A p \in Proc : At(p, "wait") /\ wg[rec[p]] > 0 =>
    \E q \in Proc : rec[q] = rec[p] /\ pc[q] \in {"fn", "exit", "done"}
=============================================================================
