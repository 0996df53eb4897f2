------------------------------- MODULE Hybrid -------------------------------
(***************************************************************************)
(* The loading cache, the hybrid cache and the hybrid loading cache:       *)
(* GetWithSecodary, DeleteWithSecondary, processSecondary, the eviction    *)
(* path of removeEntry and LoadingStore.Get of internal/store.go, over one *)
(* shard.                                                                  *)
(*                                                                         *)
(* A Get that misses loads the key in a flight it shares with other Gets.  *)
(* An evicted entry stays in the map and is queued; a worker saves it in   *)
(* the secondary cache and unmaps it then.  Locks of the shard: a section  *)
(* under the write lock is one step and waits for readers, the workers     *)
(* that are inside the secondary cache's Set.                              *)
(*                                                                         *)
(* An event is in pending from the moment the map changes: its sender may  *)
(* be delayed, so events meet the policy in any order, as if every call    *)
(* had a goroutine of its own.  The policy evicts what it likes, for the   *)
(* sake of other keys: which entry is TinyLfu's matter.                    *)
(***************************************************************************)
EXTENDS Naturals, Sequences, FiniteSets

CONSTANTS
  Key, Client, Worker,
  Flavour,     \* which of "loading", "hybrid", "hybridloading" to look at
  TTL,         \* of a Set and of a loaded value, 0 for none
  BufSize,     \* of secondaryCacheBuf, 256 in the code
  MaxEntries, MaxValues, MaxTime,  \* bounds of the model
  None

Entry == 1..MaxEntries

ASSUME BoundsAssumption ==
  /\ MaxEntries \in Nat /\ MaxValues \in Nat /\ BufSize \in Nat
  /\ TTL \subseteq Nat
ASSUME NoneAssumption == None \notin Entry /\ None \notin Key

VARIABLES
  cache,    \* the flavour
  closed,   \* shard.closed
  hashmap,  \* entry of a key, or None
  ent,      \* the entries: key, value and deadline
  removed, deleted, nvm,  \* entries whose flag is set
  tracked,  \* entries in a list of the policy
  wheel,    \* entries in the timer wheel
  busy,     \* entry removeEntry is about to unmap, holding policyMu
  pending,  \* write events
  buf,      \* secondaryCacheBuf
  worker,   \* what each worker does and with which entry
  readers,  \* workers that hold the shard's read lock
  sec,      \* the secondary cache
  flight,   \* keys with a flight
  client,   \* what each Get does
  now,
  values,   \* values made so far, by Set or the loader
  gone,     \* ghost: "found" or "asked": a Delete of the key succeeded, and
            \* no value came since
  failed    \* ghost: entries a call of the secondary cache failed for

polVars == <<removed, deleted, nvm, tracked, wheel, busy, pending>>
secVars == <<buf, worker, readers>>
getVars == <<flight, client>>
vars == <<cache, closed, hashmap, ent, polVars, secVars, sec, getVars, now,
          values, gone, failed>>

Secondary == cache # "loading"
Locked == readers = {}   \* the write lock can be taken
Expired(t) == t # 0 /\ t <= now
Idle == [pc |-> "idle", key |-> None]
Rest == [pc |-> "idle", entry |-> None]

Unused == {e \in Entry : ent[e].key = None}   \* entries not made yet

\* flag: fromNVM of a NEW event, reschedule of an UPDATE.
Event(code, e, flag, by) ==
  [code |-> code, entry |-> e, flag |-> flag, by |-> by]

-----------------------------------------------------------------------------
(* Set, and the insertion of a loaded value: setShardWithoutLock.          *)

\* The value goes to entry e of key k, new or not, and its event is posted
\* by each of the callers in by.
Store(k, e, v, expire, fromNVM, by) ==
  IF hashmap[k] = e
    THEN /\ ent' = [ent EXCEPT ![e].val = v,
                               ![e].expire = IF expire > 0 THEN expire ELSE @]
         /\ LET reschedule == expire \notin {0, ent[e].expire} IN
            pending' = pending \cup {Event("UPDATE", e, reschedule, p) : p \in by}
         /\ UNCHANGED hashmap
    ELSE /\ hashmap' = [hashmap EXCEPT ![k] = e]
         /\ ent' = [ent EXCEPT ![e] = [key |-> k, val |-> v, expire |-> expire]]
         /\ pending' = pending \cup {Event("NEW", e, fromNVM, p) : p \in by}

\* The entry a value for key k goes to.
Target(k) ==
  IF hashmap[k] # None THEN {hashmap[k]}
  ELSE {e \in Unused : \A f \in Unused : e <= f}

Deadline(ttl) == IF ttl = 0 THEN 0 ELSE now + ttl

Set(k, ttl) ==
  /\ Locked /\ ~closed /\ values < MaxValues
  /\ values' = values + 1
  /\ \E e \in Target(k) : Store(k, e, values', Deadline(ttl), FALSE, {"set"})
  /\ gone' = [gone EXCEPT ![k] = "no"]
  /\ UNCHANGED <<cache, closed, removed, deleted, nvm, tracked, wheel, busy,
                 secVars, sec, getVars, now, failed>>

-----------------------------------------------------------------------------
(* Get.                                                                    *)

\* getFromShard finds nothing; a hit changes nothing here.
Miss(c, k) ==
  /\ client[c].pc = "idle"
  /\ hashmap[k] # None => Expired(ent[hashmap[k]].expire)
  /\ client' = [client EXCEPT ![c] = [pc |-> "missed", key |-> k]]
  /\ UNCHANGED <<cache, closed, hashmap, ent, polVars, secVars, sec, flight,
                 now, values, gone, failed>>

\* Group.Do: the first to come leads.
Enter(c) ==
  LET k == client[c].key IN
  /\ client[c].pc = "missed"
  /\ IF ~flight[k]
       THEN /\ flight' = [flight EXCEPT ![k] = TRUE]
            /\ client' = [client EXCEPT ![c].pc = "lead"]
       ELSE /\ client' = [client EXCEPT ![c].pc = "join"]
            /\ UNCHANGED flight
  /\ UNCHANGED <<cache, closed, hashmap, ent, polVars, secVars, sec, now,
                 values, gone, failed>>

Joined(k) == {d \in Client : client[d].pc = "join" /\ client[d].key = k}

\* Seeded fault: those who share the flight post the new entry too.
PosterAny(k) == IF Joined(k) = {} THEN {"lead"} ELSE {"lead", "join"}

\* Who posts the result of a flight: its function runs for the leader alone, and
\* sets variables of the leader.
Poster(k) == {"lead"}

Insert(k, v, expire) ==
  /\ \E e \in Target(k) : Store(k, e, v, expire, TRUE, Poster(k))
  /\ gone' = [gone EXCEPT ![k] = "no"]

\* The flight ends with an error or without a value.
Nothing == UNCHANGED <<hashmap, ent, pending, sec, values, gone>>

\* The body of GetWithSecodary.  A deadline of 0 counts as past.
LoadHybrid(k) ==
  \/ Nothing  \* not found, or Get failed
  \/ /\ sec[k] # None /\ sec[k].expire <= now
     /\ sec' = [sec EXCEPT ![k] = None]
     /\ UNCHANGED <<hashmap, ent, pending, values, gone>>
  \/ /\ sec[k] # None /\ sec[k].expire > now
     /\ Insert(k, sec[k].val, sec[k].expire)
     /\ UNCHANGED <<sec, values>>

\* The body of LoadingStore.Get.
LoadLoading(k) ==
  \/ Nothing  \* closed, or Get or the loader failed
  \/ /\ ~closed /\ Secondary /\ sec[k] # None
     /\ Insert(k, sec[k].val, sec[k].expire)
     /\ UNCHANGED <<sec, values>>
  \/ /\ ~closed /\ sec[k] = None /\ values < MaxValues
     /\ values' = values + 1
     /\ \E ttl \in TTL : Insert(k, values', Deadline(ttl))
     /\ UNCHANGED sec

\* The flight: its body under the shard's lock, and its end for all who share it.
Load(c) ==
  LET k == client[c].key IN
  /\ client[c].pc = "lead" /\ Locked
  /\ IF cache = "hybrid" THEN LoadHybrid(k) ELSE LoadLoading(k)
  /\ flight' = [flight EXCEPT ![k] = FALSE]
  /\ client' = [d \in Client |-> IF d \in Joined(k) \cup {c} THEN Idle ELSE client[d]]
  /\ UNCHANGED <<cache, closed, removed, deleted, nvm, tracked, wheel, busy,
                 secVars, now, failed>>

-----------------------------------------------------------------------------
(* Delete and Close.                                                       *)

\* DeleteWithSecondary and Delete, for a key that is in memory.
DeleteFound(k) ==
  /\ hashmap[k] # None
  /\ hashmap' = [hashmap EXCEPT ![k] = None]
  /\ gone' = [gone EXCEPT ![k] = "found"]
  /\ sec' = [sec EXCEPT ![k] = None]
  /\ pending' = pending \cup {Event("REMOVE", hashmap[k], FALSE, "delete")}
  /\ UNCHANGED failed

\* The secondary cache fails: the entry has left the map, no event is sent.
DeleteFails(k) ==
  /\ hashmap[k] # None /\ Secondary
  /\ hashmap' = [hashmap EXCEPT ![k] = None]
  /\ failed' = failed \cup {hashmap[k]}
  /\ UNCHANGED <<gone, sec, pending>>

\* A key that is not in memory: the secondary cache is not asked.
DeleteAbsent(k) ==
  /\ hashmap[k] = None /\ gone[k] = "no" /\ ~closed
  /\ gone' = [gone EXCEPT ![k] = "asked"]
  /\ UNCHANGED <<hashmap, sec, pending, failed>>

Delete(k) ==
  /\ Locked
  /\ DeleteFound(k) \/ DeleteFails(k) \/ DeleteAbsent(k)
  /\ UNCHANGED <<cache, closed, ent, removed, deleted, nvm, tracked, wheel, busy,
                 secVars, getVars, now, values>>

\* Close of the hybrid cache does nothing.
Close ==
  /\ cache # "hybrid" /\ ~closed /\ Locked
  /\ closed' = TRUE
  /\ hashmap' = [k \in Key |-> None]
  /\ UNCHANGED <<cache, ent, polVars, secVars, sec, getVars, now, values, gone,
                 failed>>

-----------------------------------------------------------------------------
(* The policy: sinkWrite and removeEntry.                                  *)

\* removeEntry, up to the reason.
Untrack(e) ==
  /\ removed' = removed \cup {e}
  /\ tracked' = tracked \ {e}
  /\ wheel' = wheel \ {e}

\* A removed entry waits for the shard's lock.
Drop(e) == Untrack(e) /\ busy' = e

SinkNew(e) ==
  IF Expired(ent[e].expire)
    THEN Drop(e)
    ELSE /\ removed' = removed \ {e}
         /\ wheel' = IF ent[e].expire # 0 THEN wheel \cup {e} ELSE wheel
         /\ tracked' = tracked \cup {e}
         /\ UNCHANGED busy

SinkUpdate(e, reschedule) ==
  /\ wheel' = IF e \notin removed /\ reschedule THEN wheel \cup {e} ELSE wheel
  /\ UNCHANGED <<removed, tracked, busy>>

SinkRemove(e) ==
  IF e \in removed THEN UNCHANGED <<removed, tracked, wheel, busy>>
                   ELSE Untrack(e) /\ UNCHANGED busy

Sink(p) ==
  LET e == p.entry IN
  /\ busy = None
  /\ pending' = pending \ {p}
  /\ IF e \in deleted
       THEN UNCHANGED <<removed, deleted, nvm, tracked, wheel, busy>>
       ELSE /\ deleted' = IF p.code = "REMOVE" THEN deleted \cup {e} ELSE deleted
            /\ nvm' = IF p.code = "NEW" /\ p.flag THEN nvm \cup {e} ELSE nvm
            /\ \/ p.code = "NEW" /\ SinkNew(e)
               \/ p.code = "UPDATE" /\ SinkUpdate(e, p.flag)
               \/ p.code = "REMOVE" /\ SinkRemove(e)
  /\ UNCHANGED <<cache, closed, hashmap, ent, secVars, sec, getVars, now, values,
                 gone, failed>>

\* Seeded fault: the queue is full and nobody unmaps the entry.
EvictLosing(e) ==
  /\ busy = None /\ e \in tracked
  /\ Untrack(e) /\ UNCHANGED busy
  /\ buf' = IF Len(buf) < BufSize THEN Append(buf, e) ELSE buf
  /\ UNCHANGED <<cache, closed, hashmap, ent, deleted, nvm, pending, worker,
                 readers, sec, getVars, now, values, gone, failed>>

\* removeEntry(EVICTED): to the secondary cache if there is one, the entry did
\* not come from it, the dice agree and the queue has room.
Evict(e) ==
  /\ busy = None /\ e \in tracked
  /\ \/ /\ Secondary /\ e \notin nvm /\ Len(buf) < BufSize
        /\ buf' = Append(buf, e)
        /\ Untrack(e) /\ UNCHANGED busy
     \/ Drop(e) /\ UNCHANGED buf
  /\ UNCHANGED <<cache, closed, hashmap, ent, deleted, nvm, pending, worker,
                 readers, sec, getVars, now, values, gone, failed>>

Expire(e) ==
  /\ busy = None /\ e \in wheel /\ Expired(ent[e].expire)
  /\ Drop(e)
  /\ UNCHANGED <<cache, closed, hashmap, ent, deleted, nvm, pending, secVars, sec,
                 getVars, now, values, gone, failed>>

\* Shard.delete: only if the key is still this entry's.
Without(e) == [k \in Key |-> IF hashmap[k] = e THEN None ELSE hashmap[k]]

Unmap ==
  /\ busy # None /\ Locked
  /\ hashmap' = Without(busy)
  /\ busy' = None
  /\ UNCHANGED <<cache, closed, ent, removed, deleted, nvm, tracked, wheel, pending,
                 secVars, sec, getVars, now, values, gone, failed>>

-----------------------------------------------------------------------------
(* processSecondary.                                                       *)

Receive(w) ==
  /\ worker[w].pc = "idle" /\ buf # <<>>
  /\ worker' = [worker EXCEPT ![w] = [pc |-> "check", entry |-> Head(buf)]]
  /\ buf' = Tail(buf)
  /\ UNCHANGED <<cache, closed, hashmap, ent, polVars, readers, sec, getVars, now,
                 values, gone, failed>>

\* Seeded fault: the read lock is given up before the value is saved.
CheckUnlocked(w) ==
  /\ worker[w].pc = "check"
  /\ worker' = [worker EXCEPT ![w] =
                  IF hashmap[ent[@.entry].key] # None
                    THEN [@ EXCEPT !.pc = "save"] ELSE Rest]
  /\ UNCHANGED <<cache, closed, hashmap, ent, polVars, buf, readers, sec, getVars,
                 now, values, gone, failed>>

\* Under the read lock: is the key, not this entry, still in the map?
Check(w) ==
  /\ worker[w].pc = "check"
  /\ IF hashmap[ent[worker[w].entry].key] # None
       THEN /\ worker' = [worker EXCEPT ![w].pc = "save"]
            /\ readers' = readers \cup {w}
       ELSE /\ worker' = [worker EXCEPT ![w] = Rest]
            /\ UNCHANGED readers
  /\ UNCHANGED <<cache, closed, hashmap, ent, polVars, buf, sec, getVars, now,
                 values, gone, failed>>

\* The secondary cache's Set, and the read lock given up.
Save(w) ==
  LET e == worker[w].entry IN
  /\ worker[w].pc = "save"
  /\ readers' = readers \ {w}
  /\ \/ /\ sec' = [sec EXCEPT ![ent[e].key] = [val |-> ent[e].val,
                                               expire |-> ent[e].expire]]
        /\ worker' = [worker EXCEPT ![w].pc = "delete"]
        /\ UNCHANGED failed
     \/ /\ failed' = failed \cup {e}
        /\ worker' = [worker EXCEPT ![w] = Rest]
        /\ UNCHANGED sec
  /\ UNCHANGED <<cache, closed, hashmap, ent, polVars, buf, getVars, now, values,
                 gone>>

RemoveSaved(w) ==
  /\ worker[w].pc = "delete" /\ Locked
  /\ hashmap' = Without(worker[w].entry)
  /\ worker' = [worker EXCEPT ![w] = Rest]
  /\ UNCHANGED <<cache, closed, ent, polVars, buf, readers, sec, getVars, now,
                 values, gone, failed>>

Elapse ==
  /\ now < MaxTime /\ now' = now + 1
  /\ UNCHANGED <<cache, closed, hashmap, ent, polVars, secVars, sec, getVars,
                 values, gone, failed>>

-----------------------------------------------------------------------------
Init ==
  /\ cache \in Flavour /\ closed = FALSE
  /\ hashmap = [k \in Key |-> None]
  /\ ent = [e \in Entry |-> [key |-> None, val |-> 0, expire |-> 0]]
  /\ removed = {} /\ deleted = {} /\ nvm = {} /\ tracked = {} /\ wheel = {}
  /\ busy = None /\ pending = {}
  /\ buf = <<>> /\ worker = [w \in Worker |-> Rest] /\ readers = {}
  /\ sec = [k \in Key |-> None]
  /\ flight = [k \in Key |-> FALSE] /\ client = [c \in Client |-> Idle]
  /\ now = 0 /\ values = 0
  /\ gone = [k \in Key |-> "no"] /\ failed = {}

GetStep(c) == (\E k \in Key : Miss(c, k)) \/ Enter(c) \/ Load(c)
WorkerStep(w) == Receive(w) \/ Check(w) \/ Save(w) \/ RemoveSaved(w)

Next ==
  \/ \E k \in Key, ttl \in TTL : Set(k, ttl)
  \/ \E k \in Key : Delete(k)
  \/ \E c \in Client : GetStep(c)
  \/ \E p \in pending : Sink(p)
  \/ \E e \in Entry : Evict(e) \/ Expire(e)
  \/ Unmap
  \/ \E w \in Worker : WorkerStep(w)
  \/ Close \/ Elapse

Spec == Init /\ [][Next]_vars

-----------------------------------------------------------------------------
(* Properties.                                                             *)

TypeOK ==
  /\ cache \in Flavour /\ closed \in BOOLEAN
  /\ hashmap \in [Key -> Entry \cup {None}]
  /\ \A e \in Entry : ent[e].val \in 0..MaxValues
  /\ removed \cup deleted \cup nvm \cup tracked \cup wheel \cup failed \subseteq Entry
  /\ busy \in Entry \cup {None}
  /\ \A p \in pending : p.entry \in Entry
  /\ buf \in Seq(Entry) /\ Len(buf) <= BufSize
  /\ readers = {w \in Worker : worker[w].pc = "save"}
  /\ \A k \in Key : flight[k] <=>
       \E c \in Client : client[c].key = k /\ client[c].pc = "lead"

\* How often the policy's side knows of an entry: its NEW event on the way, a
\* list, the queue, a worker.
Places(e) ==
  Cardinality({p \in pending : p.entry = e /\ p.code = "NEW"})
    + (IF e \in tracked THEN 1 ELSE 0)
    + Cardinality({i \in DOMAIN buf : buf[i] = e})
    + Cardinality({w \in Worker : worker[w].entry = e})

\* An entry has one place: it is never announced to the policy twice, by two
\* Gets of one flight, and never listed while it is queued or being saved.
KnownOnce == \A e \in Entry : Places(e) <= 1

\* What is in the map has a place, or is about to be unmapped: otherwise
\* nothing would ever evict it.  The exception is an entry for which a call of
\* the secondary cache failed: processSecondary forgets it, mapped.
NoStrays ==
  \A k \in Key :
    LET e == hashmap[k] IN
    e # None => Places(e) = 1 \/ busy = e \/ e \in failed

\* Once Delete has returned for a key that was in memory, the secondary cache
\* does not hold it until somebody sets or loads it again, though the entry was
\* queued for it or in a worker's hands.
DeletedGone == \A k \in Key : gone[k] = "found" => sec[k] = None

\* Delete deletes the key from the cache: the secondary cache, which Get asks,
\* does not hold it then.
DeletedForGood == \A k \in Key : gone[k] # "no" => sec[k] = None
=============================================================================
