---------------------------- MODULE HybridProofs ----------------------------
(***************************************************************************)
(* The hybrid and loading caches, for any keys, callers, workers, bounds   *)
(* and queue size: type correctness, an entry has one place on the         *)
(* policy's side, what is mapped has one, and what was deleted from memory *)
(* is not in the secondary cache.                                          *)
(*                                                                         *)
(* The argument.  An entry gets its key once, and its NEW event with it    *)
(* (Made): from there the one place it has moves from the events to a list *)
(* to the queue to a worker, and each step that drops it finds the entry   *)
(* unmapped, marks it busy or failed (Placed).  A dropped NEW event is of  *)
(* a deleted entry, and those are never mapped again (Mapped).  A worker   *)
(* that saves holds the read lock, so what it found mapped stays so        *)
(* (Savings): no Delete of that key has returned meanwhile.                *)
(***************************************************************************)
EXTENDS Hybrid, FiniteSetTheorems, TLAPS

EventType == [code : {"NEW", "UPDATE", "REMOVE"}, entry : Entry,
              flag : BOOLEAN, by : {"set", "lead", "delete"}]
EntType == [key : Key \cup {None}, val : 0..MaxValues, expire : Nat]
SecType == [val : 0..MaxValues, expire : Nat]
WorkerType == [pc : {"idle", "check", "save", "delete"}, entry : Entry \cup {None}]
ClientType == [pc : {"idle", "missed", "lead", "join"}, key : Key \cup {None}]

\* What the types of the runs leave open: the parts of records.
TypesMap ==
  /\ cache \in Flavour /\ closed \in BOOLEAN
  /\ hashmap \in [Key -> Entry \cup {None}]
  /\ ent \in [Entry -> EntType]
  /\ pending \subseteq EventType
  /\ sec \in [Key -> SecType \cup {None}]
  /\ now \in Nat /\ values \in 0..MaxValues
  /\ gone \in [Key -> {"no", "found", "asked"}]
TypesPolicy ==
  /\ removed \subseteq Entry /\ deleted \subseteq Entry /\ nvm \subseteq Entry
  /\ tracked \subseteq Entry /\ wheel \subseteq Entry /\ failed \subseteq Entry
  /\ busy \in Entry \cup {None}
TypesWorker ==
  /\ buf \in Seq(Entry) /\ Len(buf) <= BufSize
  /\ worker \in [Worker -> WorkerType]
  /\ \A w \in Worker : worker[w].pc = "idle" <=> worker[w].entry = None
  /\ readers = {w \in Worker : worker[w].pc = "save"}
TypesClient ==
  /\ flight \in [Key -> BOOLEAN]
  /\ client \in [Client -> ClientType]
  /\ \A c \in Client : client[c].pc # "idle" => client[c].key \in Key
Types == TypesMap /\ TypesPolicy /\ TypesWorker /\ TypesClient

\* The places of an entry.
Seen(e) == \E p \in pending : p.entry = e /\ p.code = "NEW"
Queued(e) == \E i \in 1..Len(buf) : buf[i] = e
Held(e) == \E w \in Worker : worker[w].entry = e

\* An entry without a key is nowhere.
Made ==
  \A e \in Entry : ent[e].key = None =>
    /\ \A p \in pending : p.entry # e
    /\ e \notin tracked /\ ~Queued(e) /\ ~Held(e)

\* No entry is in two places, or twice in one.
Once ==
  /\ \A p, q \in pending :
       p.code = "NEW" /\ q.code = "NEW" /\ p.entry = q.entry => p = q
  /\ \A e \in Entry : Seen(e) => e \notin tracked /\ ~Queued(e) /\ ~Held(e)
  /\ \A e \in tracked : ~Queued(e) /\ ~Held(e)
  /\ \A i, j \in 1..Len(buf) : buf[i] = buf[j] => i = j
  /\ \A e \in Entry : Queued(e) => ~Held(e)
  /\ \A w, v \in Worker :
       worker[w].entry = worker[v].entry /\ worker[w].entry # None => w = v

\* A mapped entry is under its own key, and no Delete has found it.
Mapped ==
  /\ \A k \in Key : hashmap[k] # None =>
       /\ ent[hashmap[k]].key = k /\ hashmap[k] \notin deleted
       /\ \A p \in pending : p.code = "REMOVE" => p.entry # hashmap[k]
  /\ \A e \in deleted : ent[e].key # None

Safe(e) == \/ Seen(e) \/ e \in tracked \/ Queued(e) \/ Held(e)
           \/ busy = e \/ e \in failed
Placed == \A k \in Key : hashmap[k] # None => Safe(hashmap[k])

\* A flight has one leader.
Led ==
  /\ \A c, d \in Client :
       client[c].pc = "lead" /\ client[d].pc = "lead" /\ client[c].key = client[d].key
         => c = d
  /\ \A k \in Key : flight[k] <=>
       \E c \in Client : client[c].key = k /\ client[c].pc = "lead"

\* What a worker saves is under a key of the map; what was deleted is not.
Savings ==
  /\ \A k \in Key : gone[k] # "no" => hashmap[k] = None
  /\ \A w \in Worker :
       worker[w].pc = "save" => hashmap[ent[worker[w].entry].key] # None

-----------------------------------------------------------------------------
(* Sequences.                                                              *)

LEMMA AppendIs ==
  ASSUME NEW S, NEW s \in Seq(S), NEW x \in S
  PROVE  /\ Append(s, x) \in Seq(S) /\ Len(Append(s, x)) = Len(s) + 1
         /\ \A i \in 1..Len(s) : Append(s, x)[i] = s[i]
         /\ Append(s, x)[Len(s) + 1] = x
         /\ Len(s) \in Nat
  OBVIOUS

LEMMA TailIs ==
  ASSUME NEW S, NEW s \in Seq(S), s # << >>
  PROVE  /\ Tail(s) \in Seq(S) /\ Len(Tail(s)) = Len(s) - 1
         /\ Len(s) \in Nat /\ Len(s) > 0
         /\ Head(s) = s[1] /\ Head(s) \in S
         /\ \A i \in 1..Len(Tail(s)) : i + 1 \in 1..Len(s) /\ Tail(s)[i] = s[i + 1]
  OBVIOUS

-----------------------------------------------------------------------------
(* What Set and Load do to the map.                                        *)

\* A value reaches an entry that is mapped, or one that has just been made.
Updates(k) ==
  /\ hashmap[k] # None /\ UNCHANGED hashmap
  /\ ent' \in [Entry -> EntType] /\ \A f \in Entry : ent'[f].key = ent[f].key
  /\ \E ev \in EventType :
       ev.code = "UPDATE" /\ ev.entry = hashmap[k] /\ pending' = pending \cup {ev}
Makes(k, e) ==
  /\ hashmap[k] = None /\ ent[e].key = None
  /\ hashmap' = [hashmap EXCEPT ![k] = e]
  /\ ent' \in [Entry -> EntType] /\ ent'[e].key = k
  /\ \A f \in Entry : f # e => ent'[f] = ent[f]
  /\ \E ev \in EventType :
       ev.code = "NEW" /\ ev.entry = e /\ pending' = pending \cup {ev}
Arrives(k) ==
  /\ Updates(k) \/ \E e \in Entry : Makes(k, e)
  /\ gone' = [gone EXCEPT ![k] = "no"]

LEMMA StoreArrives ==
  ASSUME TypesMap, NEW k \in Key, NEW e \in Target(k), NEW v \in 0..MaxValues,
         NEW x \in Nat, NEW f \in BOOLEAN, NEW b \in {"set", "lead"},
         Store(k, e, v, x, f, {b})
  PROVE  Updates(k) \/ \E g \in Entry : Makes(k, g)
<1>1. CASE hashmap[k] # None
  <2>1. e = hashmap[k] /\ e \in Entry
    BY <1>1 DEF Target, TypesMap
  <2>2. /\ ent' = [ent EXCEPT ![e].val = v,
                             ![e].expire = IF x > 0 THEN x ELSE @]
        /\ UNCHANGED hashmap
        /\ pending' = pending \cup
             {Event("UPDATE", e, x \notin {0, ent[e].expire}, p) : p \in {b}}
    BY <2>1 DEF Store
  <2>3. ent' \in [Entry -> EntType] /\ \A g \in Entry : ent'[g].key = ent[g].key
    BY <2>1, <2>2 DEF TypesMap, EntType
  <2>4. pending' = pending \cup {Event("UPDATE", e, x \notin {0, ent[e].expire}, b)}
    BY <2>2
  <2>5. Event("UPDATE", e, x \notin {0, ent[e].expire}, b) \in EventType
    BY <2>1 DEF Event, EventType
  <2>. QED BY <1>1, <2>1, <2>2, <2>3, <2>4, <2>5 DEF Updates, Event
<1>2. CASE hashmap[k] = None
  <2>1. e \in Entry /\ ent[e].key = None /\ hashmap[k] # e
    BY <1>2, NoneAssumption DEF Target, Unused
  <2>2. /\ hashmap' = [hashmap EXCEPT ![k] = e]
        /\ ent' = [ent EXCEPT ![e] = [key |-> k, val |-> v, expire |-> x]]
        /\ pending' = pending \cup {Event("NEW", e, f, p) : p \in {b}}
    BY <2>1 DEF Store
  <2>3. /\ ent' \in [Entry -> EntType] /\ ent'[e].key = k
        /\ \A g \in Entry : g # e => ent'[g] = ent[g]
    BY <2>1, <2>2 DEF TypesMap, EntType
  <2>4. pending' = pending \cup {Event("NEW", e, f, b)}
    BY <2>2
  <2>5. Event("NEW", e, f, b) \in EventType
    BY <2>1 DEF Event, EventType
  <2>. QED BY <1>2, <2>1, <2>2, <2>3, <2>4, <2>5 DEF Makes, Event
<1>. QED BY <1>1, <1>2

LEMMA DeadlineNat == ASSUME TypesMap, NEW t \in TTL PROVE Deadline(t) \in Nat
  BY BoundsAssumption DEF TypesMap, Deadline

Rests == UNCHANGED <<removed, deleted, nvm, tracked, wheel, busy, secVars, failed>>

LEMMA SetArrives ==
  ASSUME TypesMap, NEW k \in Key, NEW t \in TTL, Set(k, t)
  PROVE  Arrives(k) /\ Rests /\ Locked /\ values' \in 0..MaxValues
         /\ UNCHANGED <<sec, getVars, now, cache, closed>>
<1>1. values' \in 0..MaxValues
  BY BoundsAssumption DEF Set, TypesMap
<1>2. PICK e \in Target(k) : Store(k, e, values', Deadline(t), FALSE, {"set"})
  BY DEF Set
<1>3. Updates(k) \/ \E g \in Entry : Makes(k, g)
  BY <1>1, <1>2, DeadlineNat, StoreArrives
<1>. QED BY <1>1, <1>3 DEF Arrives, Rests, Set

LEMMA InsertArrives ==
  ASSUME TypesMap, NEW k \in Key, NEW v \in 0..MaxValues, NEW x \in Nat, Insert(k, v, x)
  PROVE  Arrives(k)
<1>1. PICK e \in Target(k) : Store(k, e, v, x, TRUE, {"lead"})
  BY DEF Insert, Poster
<1>2. Updates(k) \/ \E g \in Entry : Makes(k, g)
  BY <1>1, StoreArrives
<1>. QED BY <1>2 DEF Arrives, Insert

\* A flight brings a value, or clears the secondary cache of its key, or does
\* neither.
LEMMA LoadArrives ==
  ASSUME TypesMap, TypesClient, NEW c \in Client, Load(c)
  PROVE  LET k == client[c].key IN
         /\ k \in Key
         /\ \/ Arrives(k) /\ UNCHANGED sec
            \/ UNCHANGED <<hashmap, ent, pending, gone>>
               /\ (UNCHANGED sec \/ sec' = [sec EXCEPT ![k] = None])
         /\ Rests /\ Locked /\ values' \in 0..MaxValues
         /\ UNCHANGED <<now, cache, closed>>
<1>. DEFINE k == client[c].key
<1>1. k \in Key
  BY DEF Load, TypesClient
<1>2. Rests /\ Locked /\ UNCHANGED <<now, cache, closed>>
  BY DEF Load, Rests
<1>3. sec[k] # None => sec[k].val \in 0..MaxValues /\ sec[k].expire \in Nat
  BY <1>1 DEF TypesMap, SecType
<1>4. values \in 0..MaxValues /\ (values < MaxValues => values + 1 \in 0..MaxValues)
  BY BoundsAssumption DEF TypesMap
<1>5. LoadHybrid(k) \/ LoadLoading(k)
  BY DEF Load
<1>6. CASE LoadHybrid(k)
  <2>1. CASE Nothing
    BY <1>1, <1>2, <1>4, <2>1 DEF Nothing
  <2>2. CASE /\ sec' = [sec EXCEPT ![k] = None]
             /\ UNCHANGED <<hashmap, ent, pending, values, gone>>
    BY <1>1, <1>2, <1>4, <2>2
  <2>3. CASE /\ sec[k] # None /\ Insert(k, sec[k].val, sec[k].expire)
             /\ UNCHANGED <<sec, values>>
    BY <1>1, <1>2, <1>3, <1>4, <2>3, InsertArrives
  <2>. QED BY <1>6, <2>1, <2>2, <2>3 DEF LoadHybrid
<1>7. CASE LoadLoading(k)
  <2>1. CASE Nothing
    BY <1>1, <1>2, <1>4, <2>1 DEF Nothing
  <2>2. CASE /\ sec[k] # None /\ Insert(k, sec[k].val, sec[k].expire)
             /\ UNCHANGED <<sec, values>>
    BY <1>1, <1>2, <1>3, <1>4, <2>2, InsertArrives
  <2>3. CASE /\ values < MaxValues /\ values' = values + 1
             /\ \E t \in TTL : Insert(k, values', Deadline(t))
             /\ UNCHANGED sec
    BY <1>1, <1>2, <1>4, <2>3, InsertArrives, DeadlineNat
  <2>. QED BY <1>7, <2>1, <2>2, <2>3 DEF LoadLoading
<1>. QED BY <1>5, <1>6, <1>7

-----------------------------------------------------------------------------
(* Types.                                                                  *)

\* What the policy's steps do to its side.
LEMMA SinkKeepsTypes ==
  ASSUME TypesMap, TypesPolicy, NEW p \in pending, Sink(p)
  PROVE  TypesMap' /\ TypesPolicy'
<1>1. p.entry \in Entry
  BY DEF TypesMap, EventType
<1>2. TypesMap'
  BY DEF Sink, TypesMap
<1>3. TypesPolicy'
  BY <1>1 DEF Sink, SinkNew, SinkUpdate, SinkRemove, Drop, Untrack, TypesPolicy
<1>. QED BY <1>2, <1>3

LEMMA TypesInit == Init => Types
<1>. SUFFICES ASSUME Init PROVE Types
  OBVIOUS
<1>1. TypesMap
  <2>1. [key |-> None, val |-> 0, expire |-> 0] \in EntType
    BY BoundsAssumption DEF EntType
  <2>2. ent \in [Entry -> EntType]
    BY <2>1 DEF Init
  <2>3. now \in Nat /\ values \in 0..MaxValues
    BY BoundsAssumption DEF Init
  <2>4. hashmap \in [Key -> Entry \cup {None}] /\ sec \in [Key -> SecType \cup {None}]
        /\ gone \in [Key -> {"no", "found", "asked"}]
    BY DEF Init
  <2>5. cache \in Flavour /\ closed \in BOOLEAN /\ pending \subseteq EventType
    BY DEF Init
  <2>. QED BY <2>2, <2>3, <2>4, <2>5 DEF TypesMap
<1>2. TypesPolicy
  BY DEF Init, TypesPolicy
<1>3. TypesWorker
  BY BoundsAssumption DEF Init, TypesWorker, WorkerType, Rest
<1>4. TypesClient
  BY DEF Init, TypesClient, ClientType, Idle
<1>. QED BY <1>1, <1>2, <1>3, <1>4 DEF Types

LEMMA TypesNext == Types /\ [Next]_vars => Types'
<1>. SUFFICES ASSUME Types, [Next]_vars PROVE Types'
  OBVIOUS
<1>. USE DEF Types
<1>1. ASSUME NEW k \in Key, NEW t \in TTL, Set(k, t) PROVE Types'
  <2>1. /\ Arrives(k) /\ Rests /\ values' \in 0..MaxValues
        /\ UNCHANGED <<sec, getVars, now, cache, closed>>
    BY <1>1, SetArrives
  <2>2. TypesMap'
    BY <2>1 DEF TypesMap, Arrives, Updates, Makes
  <2>. QED BY <2>1, <2>2 DEF Rests, secVars, getVars, TypesPolicy, TypesWorker, TypesClient
<1>2. ASSUME NEW k \in Key, Delete(k) PROVE Types'
  <2>1. hashmap[k] # None => hashmap[k] \in Entry
    BY DEF TypesMap
  <2>2. hashmap[k] # None => Event("REMOVE", hashmap[k], FALSE, "delete") \in EventType
    BY <2>1 DEF Event, EventType
  <2>3. TypesMap'
    BY <1>2, <2>1, <2>2 DEF Delete, DeleteFound, DeleteFails, DeleteAbsent, TypesMap
  <2>4. TypesPolicy'
    BY <1>2, <2>1 DEF Delete, DeleteFound, DeleteFails, DeleteAbsent, TypesPolicy
  <2>. QED BY <1>2, <2>3, <2>4 DEF Delete, secVars, getVars, TypesWorker, TypesClient
<1>3. ASSUME NEW c \in Client, NEW k \in Key, Miss(c, k) PROVE Types'
  <2>1. TypesClient'
    BY <1>3 DEF Miss, TypesClient, ClientType
  <2>. QED BY <1>3, <2>1 DEF Miss, polVars, secVars, TypesMap, TypesPolicy, TypesWorker
<1>4. ASSUME NEW c \in Client, Enter(c) PROVE Types'
  <2>1. client[c].key \in Key
    BY <1>4 DEF Enter, TypesClient
  <2>2. TypesClient'
    <3>1. CASE ~flight[client[c].key]
      <4>1. /\ client' = [client EXCEPT ![c].pc = "lead"]
            /\ flight' = [flight EXCEPT ![client[c].key] = TRUE]
        BY <1>4, <3>1 DEF Enter
      <4>. QED BY <2>1, <4>1 DEF TypesClient, ClientType
    <3>2. CASE flight[client[c].key]
      <4>1. client' = [client EXCEPT ![c].pc = "join"] /\ UNCHANGED flight
        BY <1>4, <3>2 DEF Enter
      <4>. QED BY <2>1, <4>1 DEF TypesClient, ClientType
    <3>. QED BY <3>1, <3>2
  <2>. QED BY <1>4, <2>2 DEF Enter, polVars, secVars, TypesMap, TypesPolicy, TypesWorker
<1>5. ASSUME NEW c \in Client, Load(c) PROVE Types'
  <2>. DEFINE k == client[c].key
  <2>1. /\ k \in Key
        /\ \/ Arrives(k) /\ UNCHANGED sec
           \/ UNCHANGED <<hashmap, ent, pending, gone>>
              /\ (UNCHANGED sec \/ sec' = [sec EXCEPT ![k] = None])
        /\ Rests /\ values' \in 0..MaxValues
        /\ UNCHANGED <<now, cache, closed>>
    BY <1>5, LoadArrives
  <2>2. TypesMap'
    BY <2>1 DEF TypesMap, Arrives, Updates, Makes
  <2>3. TypesClient'
    BY <1>5, <2>1 DEF Load, TypesClient, ClientType, Idle
  <2>. QED BY <2>1, <2>2, <2>3 DEF Rests, secVars, TypesPolicy, TypesWorker
<1>6. ASSUME NEW p \in pending, Sink(p) PROVE Types'
  BY <1>6, SinkKeepsTypes DEF Sink, secVars, getVars, TypesWorker, TypesClient
<1>7. ASSUME NEW e \in Entry, Evict(e) PROVE Types'
  <2>1. TypesPolicy'
    BY <1>7 DEF Evict, Drop, Untrack, TypesPolicy
  <2>2. TypesWorker'
    <3>1. CASE buf' = Append(buf, e) /\ Len(buf) < BufSize
      BY <1>7, <3>1, BoundsAssumption, AppendIs DEF Evict, TypesWorker
    <3>2. CASE UNCHANGED buf
      BY <1>7, <3>2 DEF Evict, TypesWorker
    <3>. QED BY <1>7, <3>1, <3>2 DEF Evict
  <2>. QED BY <1>7, <2>1, <2>2 DEF Evict, getVars, TypesMap, TypesClient
<1>8. ASSUME NEW e \in Entry, Expire(e) PROVE Types'
  <2>1. TypesPolicy'
    BY <1>8 DEF Expire, Drop, Untrack, TypesPolicy
  <2>. QED BY <1>8, <2>1 DEF Expire, getVars, secVars, TypesMap, TypesClient, TypesWorker
<1>9. CASE Unmap
  <2>1. TypesMap' /\ TypesPolicy'
    BY <1>9 DEF Unmap, Without, TypesMap, TypesPolicy
  <2>. QED BY <1>9, <2>1 DEF Unmap, getVars, secVars, TypesClient, TypesWorker
<1>10. ASSUME NEW w \in Worker, Receive(w) PROVE Types'
  <2>1. Head(buf) \in Entry /\ Tail(buf) \in Seq(Entry) /\ Len(Tail(buf)) <= BufSize
    BY <1>10, TailIs, BoundsAssumption DEF Receive, TypesWorker
  <2>2. TypesWorker'
    BY <1>10, <2>1, NoneAssumption DEF Receive, TypesWorker, WorkerType
  <2>. QED BY <1>10, <2>2 DEF Receive, polVars, getVars, TypesMap, TypesClient, TypesPolicy
<1>11. ASSUME NEW w \in Worker, Check(w) PROVE Types'
  <2>1. TypesWorker'
    BY <1>11 DEF Check, TypesWorker, WorkerType, Rest
  <2>. QED BY <1>11, <2>1 DEF Check, polVars, getVars, TypesMap, TypesClient, TypesPolicy
<1>12. ASSUME NEW w \in Worker, Save(w) PROVE Types'
  <2>1. worker[w].entry \in Entry
    BY <1>12 DEF Save, TypesWorker, WorkerType
  <2>2. TypesWorker'
    <3>1. CASE worker' = [worker EXCEPT ![w].pc = "delete"]
      BY <1>12, <2>1, <3>1, NoneAssumption DEF Save, TypesWorker, WorkerType
    <3>2. CASE worker' = [worker EXCEPT ![w] = Rest]
      BY <1>12, <3>2 DEF Save, TypesWorker, WorkerType, Rest
    <3>. QED BY <1>12, <3>1, <3>2 DEF Save
  <2>3. TypesMap'
    <3>1. ent[worker[w].entry] \in EntType
      BY <2>1 DEF TypesMap
    <3>2. [val |-> ent[worker[w].entry].val, expire |-> ent[worker[w].entry].expire] \in SecType
      BY <3>1 DEF EntType, SecType
    <3>. QED BY <1>12, <3>2 DEF Save, polVars, TypesMap
  <2>4. TypesPolicy'
    BY <1>12, <2>1 DEF Save, polVars, TypesPolicy
  <2>. QED BY <1>12, <2>2, <2>3, <2>4 DEF Save, getVars, TypesClient
<1>13. ASSUME NEW w \in Worker, RemoveSaved(w) PROVE Types'
  <2>1. TypesWorker'
    BY <1>13 DEF RemoveSaved, TypesWorker, WorkerType, Rest
  <2>2. TypesMap'
    BY <1>13 DEF RemoveSaved, Without, polVars, TypesMap
  <2>. QED BY <1>13, <2>1, <2>2 DEF RemoveSaved, polVars, getVars, TypesClient, TypesPolicy
<1>14. CASE Close
  BY <1>14 DEF Close, polVars, secVars, getVars, TypesMap, TypesPolicy, TypesWorker, TypesClient
<1>15. CASE Elapse
  BY <1>15 DEF Elapse, polVars, secVars, getVars, TypesMap, TypesPolicy, TypesWorker, TypesClient
<1>16. CASE UNCHANGED vars
  BY <1>16 DEF vars, polVars, secVars, getVars, TypesMap, TypesPolicy, TypesWorker, TypesClient
<1>. QED BY <1>1, <1>2, <1>3, <1>4, <1>5, <1>6, <1>7, <1>8, <1>9, <1>10, <1>11,
            <1>12, <1>13, <1>14, <1>15, <1>16 DEF Next, GetStep, WorkerStep

-----------------------------------------------------------------------------
(* Flights.                                                                *)

LEMMA LedInit == Init => Led
  BY DEF Init, Led, Idle

LEMMA LedNext == Types /\ Led /\ [Next]_vars => Led'
<1>. SUFFICES ASSUME Types, Led, [Next]_vars PROVE Led'
  OBVIOUS
<1>1. ASSUME NEW c \in Client, NEW k \in Key, Miss(c, k) PROVE Led'
  <2>1. /\ client' = [client EXCEPT ![c] = [pc |-> "missed", key |-> k]]
        /\ client[c].pc = "idle" /\ UNCHANGED flight
    BY <1>1 DEF Miss
  <2>. QED BY <2>1 DEF Led, Types, TypesClient, ClientType
<1>2. ASSUME NEW c \in Client, Enter(c) PROVE Led'
  <2>1. client[c].key \in Key
    BY <1>2 DEF Enter, Types, TypesClient
  <2>2. CASE ~flight[client[c].key]
    <3>1. /\ client' = [client EXCEPT ![c].pc = "lead"]
          /\ flight' = [flight EXCEPT ![client[c].key] = TRUE]
      BY <1>2, <2>2 DEF Enter
    <3>. QED BY <2>1, <2>2, <3>1 DEF Led, Types, TypesClient, ClientType
  <2>3. CASE flight[client[c].key]
    <3>1. /\ client' = [client EXCEPT ![c].pc = "join"] /\ client[c].pc = "missed"
          /\ UNCHANGED flight
      BY <1>2, <2>3 DEF Enter
    <3>. QED BY <2>1, <3>1 DEF Led, Types, TypesClient, ClientType
  <2>. QED BY <2>2, <2>3
<1>3. ASSUME NEW c \in Client, Load(c) PROVE Led'
  <2>. DEFINE k == client[c].key
  <2>1. /\ client[c].pc = "lead" /\ k \in Key
        /\ flight' = [flight EXCEPT ![k] = FALSE]
        /\ client' = [d \in Client |-> IF d \in Joined(k) \cup {c} THEN Idle ELSE client[d]]
    BY <1>3 DEF Load, Types, TypesClient
  <2>2. \A d \in Client : d \in Joined(k) => client[d].pc = "join" /\ client[d].key = k
    BY DEF Joined
  <2>3. \A d \in Client : \/ client'[d] = client[d] /\ d # c
                          \/ client'[d] = Idle /\ client[d].key = k
    BY <2>1, <2>2
  <2>4. \A d \in Client : client'[d] = Idle => client'[d].pc = "idle"
    BY DEF Idle
  <2>5. \A d \in Client : client'[d].pc = "lead" => client'[d] = client[d] /\ client[d].key # k
    BY <2>1, <2>3, <2>4 DEF Led
  <2>6. \A d \in Client : client[d].pc = "lead" /\ client[d].key # k => client'[d] = client[d]
    BY <2>3
  <2>7. \A l \in Key : flight'[l] <=> (flight[l] /\ l # k)
    BY <2>1 DEF Types, TypesClient
  <2>. HIDE DEF k
  <2>. QED BY <2>5, <2>6, <2>7 DEF Led
<1>4. CASE UNCHANGED getVars
  BY <1>4 DEF Led, getVars
<1>. QED BY <1>1, <1>2, <1>3, <1>4 DEF Next, GetStep, WorkerStep, Set, Delete, Sink, Evict,
            Expire, Unmap, Receive, Check, Save, RemoveSaved, Close, Elapse, vars, getVars

-----------------------------------------------------------------------------
(* Places.                                                                 *)

LEMMA PlacesInit == Init => Made /\ Once /\ Mapped /\ Placed /\ Savings
<1>. SUFFICES ASSUME Init PROVE Made /\ Once /\ Mapped /\ Placed /\ Savings
  OBVIOUS
<1>1. buf = << >> /\ Len(buf) = 0
  BY DEF Init
<1>2. \A w \in Worker : worker[w].entry = None /\ worker[w].pc = "idle"
  BY DEF Init, Rest
<1>3. pending = {} /\ tracked = {} /\ deleted = {}
  BY DEF Init
<1>4. \A k \in Key : hashmap[k] = None
  BY DEF Init
<1>5. Made
  BY <1>1, <1>2, <1>3, NoneAssumption DEF Made, Queued, Held
<1>6. Once
  BY <1>1, <1>2, <1>3, NoneAssumption DEF Once, Seen, Queued, Held
<1>. QED BY <1>2, <1>3, <1>4, <1>5, <1>6 DEF Mapped, Placed, Savings

\* The steps that leave the places alone, but for events that are not NEW.
LEMMA PlacesKept ==
  ASSUME Types, Made, Once,
         \A e \in Entry : ent'[e].key = ent[e].key,
         \A p \in pending' : p \in pending \/ (p.code # "NEW" /\ ent[p.entry].key # None),
         UNCHANGED <<tracked, buf, worker>>
  PROVE  Made' /\ Once'
<1>1. \A e \in Entry : Seen(e)' => Seen(e)
  BY DEF Seen
<1>2. \A e : (Queued(e)' <=> Queued(e)) /\ (Held(e)' <=> Held(e))
  BY DEF Queued, Held
<1>3. Made'
  BY <1>2 DEF Made
<1>4. Once'
  <2>1. \A p, q \in pending' :
          p.code = "NEW" /\ q.code = "NEW" /\ p.entry = q.entry => p = q
    BY DEF Once
  <2>. QED BY <1>1, <1>2, <2>1 DEF Once
<1>. QED BY <1>3, <1>4

LEMMA PlacesStay ==
  ASSUME Types, Made, Once, UNCHANGED <<ent, pending, tracked, buf, worker>>
  PROVE  Made' /\ Once'
<1>1. /\ \A e \in Entry : ent'[e].key = ent[e].key
      /\ \A p \in pending' : p \in pending \/ (p.code # "NEW" /\ ent[p.entry].key # None)
  OBVIOUS
<1>. QED BY <1>1, PlacesKept

LEMMA PlacesArrive ==
  ASSUME Types, Made, Once, Mapped, NEW k \in Key, Arrives(k), Rests
  PROVE  Made' /\ Once'
<1>0. UNCHANGED <<tracked, buf, worker>>
  BY DEF Rests, secVars
<1>1. CASE Updates(k)
  <2>1. ent[hashmap[k]].key # None
    BY <1>1, NoneAssumption DEF Updates, Mapped
  <2>2. /\ \A e \in Entry : ent'[e].key = ent[e].key
        /\ \A p \in pending' : p \in pending \/ (p.code # "NEW" /\ ent[p.entry].key # None)
    BY <1>1, <2>1 DEF Updates
  <2>. QED BY <1>0, <2>2, PlacesKept
<1>2. ASSUME NEW e \in Entry, Makes(k, e) PROVE Made' /\ Once'
  <2>1. PICK ev \in EventType :
          ev.code = "NEW" /\ ev.entry = e /\ pending' = pending \cup {ev}
    BY <1>2 DEF Makes
  <2>2. ent[e].key = None /\ ent'[e].key = k /\ k # None
        /\ \A f \in Entry : f # e => ent'[f] = ent[f]
    BY <1>2, NoneAssumption DEF Makes
  <2>3. \A f \in Entry : f # e => (Seen(f)' => Seen(f))
    BY <2>1 DEF Seen
  <2>4. \A f : (Queued(f)' <=> Queued(f)) /\ (Held(f)' <=> Held(f))
    BY <1>0 DEF Queued, Held
  <2>5. ~Queued(e) /\ ~Held(e) /\ e \notin tracked /\ \A p \in pending : p.entry # e
    BY <2>2 DEF Made
  <2>6. Made'
    BY <1>0, <2>1, <2>2, <2>4 DEF Made
  <2>7. Once'
    <3>1. \A p, q \in pending' :
            p.code = "NEW" /\ q.code = "NEW" /\ p.entry = q.entry => p = q
      BY <2>1, <2>5 DEF Once
    <3>. QED BY <1>0, <2>3, <2>4, <2>5, <3>1 DEF Once
  <2>. QED BY <2>6, <2>7
<1>. QED BY <1>1, <1>2 DEF Arrives

\* An entry leaves the list, or goes from it to the queue.
LEMMA PlacesUntrack ==
  ASSUME Types, Made, Once, NEW e \in Entry,
         tracked' = tracked \ {e}, pending' \subseteq pending,
         \/ UNCHANGED buf
         \/ buf' = Append(buf, e) /\ e \in tracked,
         UNCHANGED <<ent, worker>>
  PROVE  Made' /\ Once'
<1>1. \A f : Held(f)' <=> Held(f)
  BY DEF Held
<1>2. \A f : Seen(f)' => Seen(f)
  BY DEF Seen
<1>3. \A p, q \in pending' :
        p.code = "NEW" /\ q.code = "NEW" /\ p.entry = q.entry => p = q
  BY DEF Once
<1>4. CASE UNCHANGED buf
  <2>1. \A f : Queued(f)' <=> Queued(f)
    BY <1>4 DEF Queued
  <2>. QED BY <1>1, <1>2, <1>3, <1>4, <2>1 DEF Made, Once
<1>5. CASE buf' = Append(buf, e) /\ e \in tracked
  <2>1. /\ Len(buf') = Len(buf) + 1 /\ Len(buf) \in Nat
        /\ \A i \in 1..Len(buf) : buf'[i] = buf[i]
        /\ buf'[Len(buf) + 1] = e
    BY <1>5, AppendIs DEF Types, TypesWorker
  <2>2. \A f : Queued(f)' <=> Queued(f) \/ f = e
    BY <2>1 DEF Queued
  <2>3. ~Queued(e) /\ ~Held(e) /\ ent[e].key # None /\ ~Seen(e)
    BY <1>5 DEF Made, Once
  <2>4. Made'
    BY <1>1, <2>2, <2>3 DEF Made
  <2>5. \A i \in 1..Len(buf) : buf[i] # e
    BY <2>3 DEF Queued
  <2>6. \A i, j \in 1..Len(buf') : buf'[i] = buf'[j] => i = j
    <3>. SUFFICES ASSUME NEW i \in 1..Len(buf'), NEW j \in 1..Len(buf'), buf'[i] = buf'[j]
                  PROVE  i = j
      OBVIOUS
    <3>1. (i \in 1..Len(buf) \/ i = Len(buf) + 1) /\ (j \in 1..Len(buf) \/ j = Len(buf) + 1)
      BY <2>1
    <3>. QED BY <2>1, <2>5, <3>1 DEF Once
  <2>8. Once'
    BY <1>1, <1>2, <1>3, <2>2, <2>3, <2>6 DEF Once
  <2>. QED BY <2>4, <2>8
<1>. QED BY <1>4, <1>5

LEMMA PlacesSink ==
  ASSUME Types, Made, Once, NEW p \in pending, Sink(p)
  PROVE  Made' /\ Once'
<1>. DEFINE e == p.entry
<1>0. e \in Entry /\ pending' = pending \ {p} /\ UNCHANGED <<ent, buf, worker>>
  BY DEF Sink, Types, TypesMap, EventType, secVars
<1>1. CASE UNCHANGED tracked
  <2>1. /\ \A f \in Entry : ent'[f].key = ent[f].key
        /\ \A q \in pending' : q \in pending \/ (q.code # "NEW" /\ ent[q.entry].key # None)
    BY <1>0
  <2>. QED BY <1>0, <1>1, <2>1, PlacesKept
<1>2. CASE tracked' = tracked \ {e}
  BY <1>0, <1>2, PlacesUntrack
<1>3. CASE p.code = "NEW" /\ tracked' = tracked \cup {e}
  <2>1. \A f : (Queued(f)' <=> Queued(f)) /\ (Held(f)' <=> Held(f))
    BY <1>0 DEF Queued, Held
  <2>2. Seen(e) /\ ent[e].key # None
    BY <1>0, <1>3 DEF Seen, Made
  <2>3. ~Seen(e)' /\ \A f \in Entry : Seen(f)' => Seen(f)
    <3>1. \A q \in pending : q.code = "NEW" /\ q.entry = e => q = p
      BY <1>3 DEF Once
    <3>. QED BY <1>0, <3>1 DEF Seen
  <2>4. Made'
    BY <1>0, <1>3, <2>1, <2>2 DEF Made
  <2>5. \A r, q \in pending' :
          r.code = "NEW" /\ q.code = "NEW" /\ r.entry = q.entry => r = q
    BY <1>0 DEF Once
  <2>6. Once'
    BY <1>0, <1>3, <2>1, <2>2, <2>3, <2>5 DEF Once
  <2>. QED BY <2>4, <2>6
<1>. QED BY <1>1, <1>2, <1>3 DEF Sink, SinkNew, SinkUpdate, SinkRemove, Drop, Untrack

\* The head of the queue goes to a worker.
LEMMA PlacesReceive ==
  ASSUME Types, Made, Once, NEW w \in Worker, Receive(w)
  PROVE  Made' /\ Once'
<1>. DEFINE h == Head(buf)
<1>0. /\ worker' = [worker EXCEPT ![w] = [pc |-> "check", entry |-> h]]
      /\ buf' = Tail(buf) /\ worker[w].pc = "idle" /\ buf # << >>
      /\ UNCHANGED <<ent, tracked, pending>>
  BY DEF Receive, polVars
<1>1. /\ Len(buf') = Len(buf) - 1 /\ Len(buf) \in Nat /\ Len(buf) > 0
      /\ h = buf[1] /\ h \in Entry
      /\ \A i \in 1..Len(buf') : i + 1 \in 1..Len(buf) /\ buf'[i] = buf[i + 1]
  BY <1>0, TailIs DEF Types, TypesWorker
<1>2. /\ \A v \in Worker : v # w => worker'[v] = worker[v]
      /\ worker'[w].entry = h /\ worker[w].entry = None
  BY <1>0 DEF Types, TypesWorker
<1>3. Queued(h) /\ ~Held(h)
  BY <1>1 DEF Queued, Once
<1>4. \A f : Queued(f)' => Queued(f)
  BY <1>1 DEF Queued
<1>5. \A f \in Entry : Held(f)' <=> Held(f) \/ f = h
  BY <1>2, NoneAssumption DEF Held
<1>6. \A f : Seen(f)' <=> Seen(f)
  BY <1>0 DEF Seen
<1>7. \A i \in 1..Len(buf') : buf'[i] # h
  <2>. SUFFICES ASSUME NEW i \in 1..Len(buf') PROVE buf'[i] # h
    OBVIOUS
  <2>1. i + 1 \in 1..Len(buf) /\ 1 \in 1..Len(buf) /\ i + 1 # 1 /\ buf'[i] = buf[i + 1]
    BY <1>1
  <2>. QED BY <1>1, <2>1 DEF Once
<1>. HIDE DEF h
<1>8. \A f : Queued(f)' => f # h
  BY <1>7 DEF Queued
<1>9. Made'
  BY <1>0, <1>1, <1>3, <1>4, <1>5 DEF Made
<1>10. \A i, j \in 1..Len(buf') : buf'[i] = buf'[j] => i = j
  BY <1>1 DEF Once
<1>11. \A f \in Entry : Queued(f)' => ~Held(f)'
  BY <1>4, <1>5, <1>8 DEF Once
<1>12. \A u, v \in Worker :
         worker'[u].entry = worker'[v].entry /\ worker'[u].entry # None => u = v
  BY <1>2, <1>3 DEF Once, Held
<1>13. \A f \in Entry : Seen(f)' => f \notin tracked' /\ ~Queued(f)' /\ ~Held(f)'
  BY <1>0, <1>3, <1>4, <1>5, <1>6 DEF Once
<1>14. \A f \in tracked' : ~Queued(f)' /\ ~Held(f)'
  BY <1>0, <1>3, <1>4, <1>5 DEF Once, Types, TypesPolicy
<1>15. Once'
  BY <1>0, <1>10, <1>11, <1>12, <1>13, <1>14 DEF Once
<1>. QED BY <1>9, <1>15

\* A worker keeps its entry or lets it go.
LEMMA PlacesWorker ==
  ASSUME Types, Made, Once, NEW w \in Worker,
         \A v \in Worker : v # w => worker'[v] = worker[v],
         worker'[w].entry \in {worker[w].entry, None},
         UNCHANGED <<ent, tracked, pending, buf>>
  PROVE  Made' /\ Once'
<1>1. \A f \in Entry : Held(f)' => Held(f)
  BY NoneAssumption DEF Held
<1>2. \A f : (Queued(f)' <=> Queued(f)) /\ (Seen(f)' <=> Seen(f))
  BY DEF Queued, Seen
<1>3. \A u, v \in Worker :
        worker'[u].entry = worker'[v].entry /\ worker'[u].entry # None => u = v
  BY DEF Once
<1>4. Made'
  BY <1>1, <1>2 DEF Made
<1>5. \A f \in Entry : Queued(f)' => ~Held(f)'
  BY <1>1, <1>2 DEF Once
<1>6. \A f \in tracked' : ~Queued(f)' /\ ~Held(f)'
  BY <1>1, <1>2 DEF Once, Types, TypesPolicy
<1>7. Once'
  BY <1>1, <1>2, <1>3, <1>5, <1>6 DEF Once
<1>. QED BY <1>4, <1>7

LEMMA PlacesNext == Types /\ Made /\ Once /\ Mapped /\ [Next]_vars => Made' /\ Once'
<1>. SUFFICES ASSUME Types, Made, Once, Mapped, [Next]_vars PROVE Made' /\ Once'
  OBVIOUS
<1>1. ASSUME NEW k \in Key, NEW t \in TTL, Set(k, t) PROVE Made' /\ Once'
  BY <1>1, SetArrives, PlacesArrive DEF Types
<1>2. ASSUME NEW k \in Key, Delete(k) PROVE Made' /\ Once'
  <2>0. UNCHANGED <<ent, tracked, buf, worker>>
    BY <1>2 DEF Delete, secVars
  <2>1. CASE hashmap[k] # None /\ pending' = pending \cup {Event("REMOVE", hashmap[k], FALSE, "delete")}
    <3>1. ent[hashmap[k]].key # None
      BY <2>1, NoneAssumption DEF Mapped
    <3>2. \A p \in pending' : p \in pending \/ (p.code # "NEW" /\ ent[p.entry].key # None)
      BY <2>1, <3>1 DEF Event
    <3>3. \A f \in Entry : ent'[f].key = ent[f].key
      BY <2>0
    <3>. QED BY <2>0, <3>2, <3>3, PlacesKept
  <2>2. CASE UNCHANGED pending
    BY <2>0, <2>2, PlacesStay
  <2>. QED BY <1>2, <2>1, <2>2 DEF Delete, DeleteFound, DeleteFails, DeleteAbsent
<1>3. ASSUME NEW c \in Client, Load(c) PROVE Made' /\ Once'
  <2>1. /\ client[c].key \in Key /\ Rests
        /\ Arrives(client[c].key) \/ UNCHANGED <<hashmap, ent, pending, gone>>
    BY <1>3, LoadArrives DEF Types
  <2>2. CASE UNCHANGED <<ent, pending>>
    BY <2>1, <2>2, PlacesStay DEF Rests, secVars
  <2>. QED BY <2>1, <2>2, PlacesArrive
<1>4. ASSUME NEW p \in pending, Sink(p) PROVE Made' /\ Once'
  BY <1>4, PlacesSink
<1>5. ASSUME NEW e \in Entry, Evict(e) PROVE Made' /\ Once'
  BY <1>5, PlacesUntrack DEF Evict, Drop, Untrack
<1>6. ASSUME NEW e \in Entry, Expire(e) PROVE Made' /\ Once'
  BY <1>6, PlacesUntrack DEF Expire, Drop, Untrack, secVars
<1>7. ASSUME NEW w \in Worker, Receive(w) PROVE Made' /\ Once'
  BY <1>7, PlacesReceive
<1>8. ASSUME NEW w \in Worker, Check(w) \/ Save(w) \/ RemoveSaved(w) PROVE Made' /\ Once'
  <2>1. /\ \A v \in Worker : v # w => worker'[v] = worker[v]
        /\ worker'[w].entry \in {worker[w].entry, None}
    BY <1>8 DEF Check, Save, RemoveSaved, Rest, Types, TypesWorker, WorkerType
  <2>2. UNCHANGED <<ent, tracked, pending, buf>>
    BY <1>8 DEF Check, Save, RemoveSaved, polVars
  <2>. QED BY <2>1, <2>2, PlacesWorker
<1>9. CASE UNCHANGED <<ent, pending, tracked, buf, worker>>
  BY <1>9, PlacesStay
<1>. QED BY <1>1, <1>2, <1>3, <1>4, <1>5, <1>6, <1>7, <1>8, <1>9
         DEF Next, GetStep, WorkerStep, Miss, Enter, Unmap, Close, Elapse, vars, polVars, secVars

-----------------------------------------------------------------------------
(* The map.                                                                *)

LEMMA MappedArrive ==
  ASSUME Types, Made, Mapped, NEW k \in Key, Arrives(k), Rests
  PROVE  Mapped'
<1>0. UNCHANGED deleted
  BY DEF Rests
<1>1. CASE Updates(k)
  <2>1. hashmap' = hashmap /\ \A e \in Entry : ent'[e].key = ent[e].key
    BY <1>1 DEF Updates
  <2>2. \A p \in pending' : p \in pending \/ p.code # "REMOVE"
    BY <1>1 DEF Updates
  <2>3. \A l \in Key : hashmap[l] # None => hashmap[l] \in Entry
    BY DEF Types, TypesMap
  <2>4. deleted \subseteq Entry
    BY DEF Types, TypesPolicy
  <2>. QED BY <1>0, <2>1, <2>2, <2>3, <2>4 DEF Mapped
<1>2. ASSUME NEW e \in Entry, Makes(k, e) PROVE Mapped'
  <2>1. \A p \in pending' : p \in pending \/ p.code # "REMOVE"
    BY <1>2 DEF Makes
  <2>2. ent[e].key = None /\ ent'[e].key = k /\ k # None
        /\ \A f \in Entry : f # e => ent'[f] = ent[f]
    BY <1>2, NoneAssumption DEF Makes
  <2>3. hashmap'[k] = e /\ \A l \in Key : l # k => hashmap'[l] = hashmap[l]
    BY <1>2 DEF Makes, Types, TypesMap
  <2>4. e \notin deleted /\ \A p \in pending : p.entry # e
    BY <2>2 DEF Made, Mapped
  <2>5. \A l \in Key : hashmap[l] # None => hashmap[l] \in Entry /\ hashmap[l] # e
    BY <2>2, NoneAssumption DEF Mapped, Types, TypesMap
  <2>6. deleted \subseteq Entry
    BY DEF Types, TypesPolicy
  <2>7. ASSUME NEW l \in Key, hashmap'[l] # None
        PROVE  /\ ent'[hashmap'[l]].key = l /\ hashmap'[l] \notin deleted'
               /\ \A p \in pending' : p.code = "REMOVE" => p.entry # hashmap'[l]
    <3>1. CASE l = k
      BY <1>0, <2>1, <2>2, <2>3, <2>4, <3>1
    <3>2. CASE l # k
      <4>1. hashmap'[l] = hashmap[l] /\ hashmap[l] \in Entry /\ hashmap[l] # e
        BY <2>3, <2>5, <2>7, <3>2
      <4>. QED BY <1>0, <2>1, <2>2, <2>7, <4>1 DEF Mapped
    <3>. QED BY <3>1, <3>2
  <2>8. \A f \in deleted' : ent'[f].key # None
    BY <1>0, <2>2, <2>4, <2>6 DEF Mapped
  <2>. QED BY <2>7, <2>8 DEF Mapped
<1>. QED BY <1>1, <1>2 DEF Arrives

\* Keys leave the map; no event but the REMOVE of what left it.
LEMMA MappedShrinks ==
  ASSUME Types, Mapped,
         \A k \in Key : hashmap'[k] \in {hashmap[k], None},
         \A p \in pending' : p \in pending \/
           (p.code = "REMOVE" => \A k \in Key : hashmap'[k] # p.entry),
         UNCHANGED <<ent, deleted>>
  PROVE  Mapped'
<1>1. ASSUME NEW k \in Key, hashmap'[k] # None
      PROVE  /\ ent'[hashmap'[k]].key = k /\ hashmap'[k] \notin deleted'
             /\ \A p \in pending' : p.code = "REMOVE" => p.entry # hashmap'[k]
  BY <1>1 DEF Mapped
<1>2. \A f \in deleted' : ent'[f].key # None
  BY DEF Mapped
<1>. QED BY <1>1, <1>2 DEF Mapped

LEMMA MappedStays ==
  ASSUME Types, Mapped, UNCHANGED <<hashmap, ent, deleted, pending>>
  PROVE  Mapped'
  BY DEF Mapped

LEMMA MappedLeaves ==
  ASSUME Types, Mapped, NEW x, hashmap' = Without(x), UNCHANGED <<ent, deleted, pending>>
  PROVE  Mapped'
<1>1. \A k \in Key : hashmap'[k] \in {hashmap[k], None}
  BY DEF Without
<1>2. \A p \in pending' : p \in pending \/
           (p.code = "REMOVE" => \A k \in Key : hashmap'[k] # p.entry)
  OBVIOUS
<1>. QED BY <1>1, <1>2, MappedShrinks

LEMMA MappedNext == Types /\ Made /\ Mapped /\ [Next]_vars => Mapped'
<1>. SUFFICES ASSUME Types, Made, Mapped, [Next]_vars PROVE Mapped'
  OBVIOUS
<1>1. ASSUME NEW k \in Key, NEW t \in TTL, Set(k, t) PROVE Mapped'
  BY <1>1, SetArrives, MappedArrive DEF Types
<1>2. ASSUME NEW k \in Key, Delete(k) PROVE Mapped'
  <2>0. UNCHANGED <<ent, deleted>>
    BY <1>2 DEF Delete
  <2>1. CASE UNCHANGED <<hashmap, pending>>
    BY <2>0, <2>1, MappedStays
  <2>2. CASE hashmap[k] # None /\ hashmap' = [hashmap EXCEPT ![k] = None]
    <3>1. hashmap'[k] = None /\ \A l \in Key : l # k => hashmap'[l] = hashmap[l]
      BY <2>2 DEF Types, TypesMap
    <3>2. \A l \in Key : hashmap'[l] # hashmap[k]
      BY <2>2, <3>1 DEF Mapped
    <3>3. \A p \in pending' : p \in pending \/ p.entry = hashmap[k]
      BY <1>2 DEF Delete, DeleteFound, DeleteFails, DeleteAbsent, Event
    <3>4. \A l \in Key : hashmap'[l] \in {hashmap[l], None}
      BY <3>1
    <3>5. \A p \in pending' : p \in pending \/
            (p.code = "REMOVE" => \A l \in Key : hashmap'[l] # p.entry)
      BY <3>2, <3>3
    <3>. QED BY <2>0, <3>4, <3>5, MappedShrinks
  <2>. QED BY <1>2, <2>1, <2>2 DEF Delete, DeleteFound, DeleteFails, DeleteAbsent
<1>3. ASSUME NEW c \in Client, Load(c) PROVE Mapped'
  <2>1. /\ client[c].key \in Key /\ Rests
        /\ Arrives(client[c].key) \/ UNCHANGED <<hashmap, ent, pending, gone>>
    BY <1>3, LoadArrives DEF Types
  <2>2. CASE UNCHANGED <<hashmap, ent, pending>>
    BY <2>1, <2>2, MappedStays DEF Rests
  <2>. QED BY <2>1, <2>2, MappedArrive
<1>4. ASSUME NEW p \in pending, Sink(p) PROVE Mapped'
  <2>1. /\ UNCHANGED <<hashmap, ent>> /\ pending' \subseteq pending
        /\ UNCHANGED deleted \/ (p.code = "REMOVE" /\ deleted' = deleted \cup {p.entry})
    BY <1>4 DEF Sink
  <2>2. ent[p.entry].key # None
    BY DEF Made, Types, TypesMap, EventType
  <2>. QED BY <2>1, <2>2 DEF Mapped
<1>5. CASE Unmap
  BY <1>5, MappedLeaves DEF Unmap
<1>6. ASSUME NEW w \in Worker, RemoveSaved(w) PROVE Mapped'
  BY <1>6, MappedLeaves DEF RemoveSaved, polVars
<1>7. CASE Close
  <2>1. \A k \in Key : hashmap'[k] = None
    BY <1>7 DEF Close
  <2>2. UNCHANGED <<ent, deleted>>
    BY <1>7 DEF Close, polVars
  <2>. QED BY <2>1, <2>2 DEF Mapped
<1>8. CASE UNCHANGED <<hashmap, ent, deleted, pending>>
  BY <1>8, MappedStays
<1>. QED BY <1>1, <1>2, <1>3, <1>4, <1>5, <1>6, <1>7, <1>8
         DEF Next, GetStep, WorkerStep, Miss, Enter, Evict, Expire, Receive, Check, Save,
             Elapse, vars, polVars

-----------------------------------------------------------------------------
(* What is mapped has a place.                                             *)

LEMMA PlacedArrive ==
  ASSUME Types, Placed, NEW k \in Key, Arrives(k), Rests
  PROVE  Placed'
<1>0. UNCHANGED <<tracked, buf, worker, busy, failed>>
  BY DEF Rests, secVars
<1>1. pending \subseteq pending'
  BY DEF Arrives, Updates, Makes
<1>2. \A f : Safe(f) => Safe(f)'
  BY <1>0, <1>1 DEF Safe, Seen, Queued, Held
<1>3. CASE Updates(k)
  BY <1>2, <1>3 DEF Updates, Placed
<1>4. ASSUME NEW e \in Entry, Makes(k, e) PROVE Placed'
  <2>1. Seen(e)'
    BY <1>4 DEF Makes, Seen
  <2>2. hashmap'[k] = e /\ \A l \in Key : l # k => hashmap'[l] = hashmap[l]
    BY <1>4 DEF Makes, Types, TypesMap
  <2>3. \A f : f = e => Safe(f)'
    BY <2>1 DEF Safe
  <2>4. \A l \in Key : hashmap'[l] # None => (hashmap'[l] = e \/ Safe(hashmap'[l]))
    BY <2>2 DEF Placed
  <2>5. \A l \in Key : \A f : hashmap'[l] = f /\ f # None => Safe(f)'
    BY <1>2, <2>3, <2>4
  <2>. QED BY <2>5 DEF Placed
<1>. QED BY <1>3, <1>4 DEF Arrives

\* The map shrinks at most, and what is left of it keeps a place.
LEMMA PlacedKept ==
  ASSUME Types, Placed,
         \A k \in Key : hashmap'[k] \in {hashmap[k], None},
         \A k \in Key, f \in Entry : hashmap'[k] = f /\ Safe(f) => Safe(f)'
  PROVE  Placed'
<1>1. \A k \in Key : hashmap'[k] # None => hashmap'[k] \in Entry /\ Safe(hashmap'[k])
  BY DEF Placed, Types, TypesMap
<1>2. \A k \in Key : \A f : hashmap'[k] = f /\ f # None => Safe(f)'
  BY <1>1
<1>. QED BY <1>2 DEF Placed

LEMMA PlacedSink ==
  ASSUME Types, Mapped, Placed, NEW p \in pending, Sink(p)
  PROVE  Placed'
<1>. DEFINE e == p.entry
<1>0. /\ e \in Entry /\ pending' = pending \ {p} /\ busy = None
      /\ UNCHANGED <<hashmap, buf, worker, failed>>
  BY DEF Sink, Types, TypesMap, EventType, secVars
<1>1. \A f : (Queued(f)' <=> Queued(f)) /\ (Held(f)' <=> Held(f))
  BY <1>0 DEF Queued, Held
<1>2. \A f : f # e => (Seen(f) => Seen(f)')
  BY <1>0 DEF Seen
<1>3. p.code # "NEW" => (Seen(e) => Seen(e)')
  BY <1>0 DEF Seen
<1>4. \A f \in Entry : f # e => (f \in tracked => f \in tracked')
  BY DEF Sink, SinkNew, SinkUpdate, SinkRemove, Drop, Untrack
<1>5. \A f \in Entry : f # e => (Safe(f) => Safe(f)')
  BY <1>0, <1>1, <1>2, <1>4, NoneAssumption DEF Safe
<1>6. ASSUME NEW k \in Key, hashmap[k] = e, Safe(e) PROVE Safe(e)'
  <2>1. e \notin deleted /\ p.code # "REMOVE"
    BY <1>0, <1>6, NoneAssumption DEF Mapped
  <2>2. CASE p.code = "NEW"
    <3>1. e \in tracked' \/ busy' = e
      BY <2>1, <2>2 DEF Sink, SinkNew, Drop
    <3>. QED BY <3>1 DEF Safe
  <2>3. CASE p.code = "UPDATE"
    <3>1. UNCHANGED <<tracked, busy>>
      BY <2>1, <2>3 DEF Sink, SinkUpdate
    <3>. QED BY <1>0, <1>1, <1>3, <1>6, <2>3, <3>1 DEF Safe
  <2>. QED BY <2>1, <2>2, <2>3 DEF Types, TypesMap, EventType
<1>. HIDE DEF e
<1>7. \A k \in Key, f \in Entry : hashmap'[k] = f /\ Safe(f) => Safe(f)'
  BY <1>0, <1>5, <1>6
<1>. QED BY <1>0, <1>7, PlacedKept

LEMMA PlacedNext == Types /\ Mapped /\ Placed /\ [Next]_vars => Placed'
<1>. SUFFICES ASSUME Types, Mapped, Placed, [Next]_vars PROVE Placed'
  OBVIOUS
<1>1. ASSUME NEW k \in Key, NEW t \in TTL, Set(k, t) PROVE Placed'
  BY <1>1, SetArrives, PlacedArrive DEF Types
<1>2. ASSUME NEW k \in Key, Delete(k) PROVE Placed'
  <2>1. UNCHANGED <<tracked, buf, worker, busy>>
    BY <1>2 DEF Delete, secVars
  <2>2. pending \subseteq pending' /\ failed \subseteq failed'
    BY <1>2 DEF Delete, DeleteFound, DeleteFails, DeleteAbsent
  <2>3. \A f : Safe(f) => Safe(f)'
    BY <2>1, <2>2 DEF Safe, Seen, Queued, Held
  <2>4. \A l \in Key : hashmap'[l] \in {hashmap[l], None}
    BY <1>2 DEF Delete, DeleteFound, DeleteFails, DeleteAbsent, Types, TypesMap
  <2>. QED BY <2>3, <2>4, PlacedKept
<1>3. ASSUME NEW c \in Client, Load(c) PROVE Placed'
  <2>1. /\ client[c].key \in Key /\ Rests
        /\ Arrives(client[c].key) \/ UNCHANGED <<hashmap, ent, pending, gone>>
    BY <1>3, LoadArrives DEF Types
  <2>2. CASE UNCHANGED <<hashmap, ent, pending>>
    BY <2>1, <2>2 DEF Rests, secVars, Placed, Safe, Seen, Queued, Held
  <2>. QED BY <2>1, <2>2, PlacedArrive
<1>4. ASSUME NEW p \in pending, Sink(p) PROVE Placed'
  BY <1>4, PlacedSink
<1>5. ASSUME NEW e \in Entry, Evict(e) PROVE Placed'
  <2>1. UNCHANGED <<hashmap, pending, worker, failed>> /\ busy = None
        /\ tracked' = tracked \ {e}
    BY <1>5 DEF Evict, Drop, Untrack
  <2>2. \A f : (Seen(f)' <=> Seen(f)) /\ (Held(f)' <=> Held(f))
    BY <2>1 DEF Seen, Held
  <2>3. /\ \A f : Queued(f) => Queued(f)'
        /\ Queued(e)' \/ busy' = e
    <3>1. CASE buf' = Append(buf, e)
      <4>1. /\ Len(buf') = Len(buf) + 1 /\ Len(buf) \in Nat
            /\ \A i \in 1..Len(buf) : buf'[i] = buf[i]
            /\ buf'[Len(buf) + 1] = e
        BY <3>1, AppendIs DEF Types, TypesWorker
      <4>2. 1..Len(buf) \subseteq 1..Len(buf') /\ Len(buf) + 1 \in 1..Len(buf')
        BY <4>1
      <4>. QED BY <4>1, <4>2 DEF Queued
    <3>2. CASE UNCHANGED buf /\ busy' = e
      BY <3>2 DEF Queued
    <3>. QED BY <1>5, <3>1, <3>2 DEF Evict, Drop
  <2>4. \A f \in Entry : Safe(f) => Safe(f)'
    BY <2>1, <2>2, <2>3, NoneAssumption DEF Safe
  <2>. QED BY <2>1, <2>4, PlacedKept
<1>6. ASSUME NEW e \in Entry, Expire(e) PROVE Placed'
  <2>1. UNCHANGED <<hashmap, pending, worker, buf, failed>> /\ busy = None
        /\ tracked' = tracked \ {e} /\ busy' = e
    BY <1>6 DEF Expire, Drop, Untrack, secVars
  <2>2. \A f : (Seen(f)' <=> Seen(f)) /\ (Held(f)' <=> Held(f)) /\ (Queued(f)' <=> Queued(f))
    BY <2>1 DEF Seen, Held, Queued
  <2>3. \A f \in Entry : Safe(f) => Safe(f)'
    BY <2>1, <2>2, NoneAssumption DEF Safe
  <2>. QED BY <2>1, <2>3, PlacedKept
<1>7. CASE Unmap
  <2>1. UNCHANGED <<pending, worker, buf, tracked, failed>> /\ hashmap' = Without(busy)
    BY <1>7 DEF Unmap, secVars
  <2>2. \A f : (Seen(f)' <=> Seen(f)) /\ (Held(f)' <=> Held(f)) /\ (Queued(f)' <=> Queued(f))
    BY <2>1 DEF Seen, Held, Queued
  <2>3. \A k \in Key : hashmap'[k] \in {hashmap[k], None} /\ (hashmap'[k] # None => hashmap'[k] # busy)
    BY <2>1 DEF Without
  <2>4. \A k \in Key, f \in Entry : hashmap'[k] = f /\ Safe(f) => Safe(f)'
    BY <2>1, <2>2, <2>3, NoneAssumption DEF Safe
  <2>. QED BY <2>3, <2>4, PlacedKept
<1>8. ASSUME NEW w \in Worker, Receive(w) PROVE Placed'
  <2>. DEFINE h == Head(buf)
  <2>0. /\ worker' = [worker EXCEPT ![w] = [pc |-> "check", entry |-> h]]
        /\ buf' = Tail(buf) /\ worker[w].pc = "idle" /\ buf # << >>
        /\ UNCHANGED <<hashmap, tracked, pending, busy, failed>>
    BY <1>8 DEF Receive, polVars
  <2>1. /\ Len(buf') = Len(buf) - 1 /\ Len(buf) \in Nat /\ Len(buf) > 0
        /\ h = buf[1] /\ h \in Entry
        /\ \A i \in 1..Len(buf') : i + 1 \in 1..Len(buf) /\ buf'[i] = buf[i + 1]
    BY <2>0, TailIs DEF Types, TypesWorker
  <2>2. /\ \A v \in Worker : v # w => worker'[v] = worker[v]
        /\ worker'[w].entry = h /\ worker[w].entry = None
    BY <2>0 DEF Types, TypesWorker
  <2>3. \A f \in Entry : Held(f) \/ f = h => Held(f)'
    BY <2>2, NoneAssumption DEF Held
  <2>. HIDE DEF h
  <2>4. \A f \in Entry : Queued(f) => Queued(f)' \/ f = h
    <3>. SUFFICES ASSUME NEW f \in Entry, NEW i \in 1..Len(buf), buf[i] = f, f # h
                  PROVE  Queued(f)'
      BY DEF Queued
    <3>1. i - 1 \in 1..Len(buf') /\ (i - 1) + 1 = i
      BY <2>1
    <3>2. buf'[i - 1] = f
      BY <2>1, <3>1
    <3>. QED BY <3>1, <3>2 DEF Queued
  <2>5. \A f : Seen(f)' <=> Seen(f)
    BY <2>0 DEF Seen
  <2>6. \A f \in Entry : Safe(f) => Safe(f)'
    BY <2>0, <2>3, <2>4, <2>5 DEF Safe
  <2>. QED BY <2>0, <2>6, PlacedKept
<1>9. ASSUME NEW w \in Worker, Check(w) \/ Save(w) \/ RemoveSaved(w) PROVE Placed'
  <2>. DEFINE e == worker[w].entry
  <2>1. /\ e \in Entry /\ UNCHANGED <<pending, buf, tracked, busy>>
        /\ \A v \in Worker : v # w => worker'[v] = worker[v]
    BY <1>9 DEF Check, Save, RemoveSaved, polVars, Types, TypesWorker, WorkerType
  <2>2. \A f : (Seen(f)' <=> Seen(f)) /\ (Queued(f)' <=> Queued(f))
    BY <2>1 DEF Seen, Queued
  <2>3. \A f \in Entry : f # e => (Held(f) => Held(f)')
    BY <2>1 DEF Held
  <2>4. failed \subseteq failed'
    BY <1>9 DEF Check, Save, RemoveSaved
  <2>5. \/ worker'[w].entry = e
        \/ e \in failed'
        \/ \A k \in Key : hashmap'[k] # e
    <3>1. CASE Check(w)
      <4>1. hashmap[ent[e].key] = None => \A k \in Key : hashmap[k] # e
        BY <2>1, NoneAssumption DEF Mapped
      <4>. QED BY <3>1, <4>1 DEF Check, Types, TypesWorker, WorkerType
    <3>2. CASE Save(w)
      BY <3>2 DEF Save, Types, TypesWorker, WorkerType
    <3>3. CASE RemoveSaved(w)
      BY <2>1, <3>3, NoneAssumption DEF RemoveSaved, Without
    <3>. QED BY <1>9, <3>1, <3>2, <3>3
  <2>6. \A k \in Key : hashmap'[k] \in {hashmap[k], None}
    BY <1>9 DEF Check, Save, RemoveSaved, Without
  <2>7. \A f : worker'[w].entry = f => Held(f)'
    BY DEF Held
  <2>. HIDE DEF e
  <2>8. \A k \in Key, f \in Entry : hashmap'[k] = f /\ Safe(f) => Safe(f)'
    BY <2>1, <2>2, <2>3, <2>4, <2>5, <2>7 DEF Safe
  <2>. QED BY <2>6, <2>8, PlacedKept
<1>10. CASE Close
  BY <1>10 DEF Close, Placed
<1>11. CASE UNCHANGED <<hashmap, pending, tracked, buf, worker, busy, failed>>
  BY <1>11 DEF Placed, Safe, Seen, Queued, Held
<1>. QED BY <1>1, <1>2, <1>3, <1>4, <1>5, <1>6, <1>7, <1>8, <1>9, <1>10, <1>11
         DEF Next, GetStep, WorkerStep, Miss, Enter, Elapse, vars, polVars, secVars

-----------------------------------------------------------------------------
(* Deleted keys and the secondary cache.                                   *)

LEMMA SavingsNext == Types /\ Mapped /\ Savings /\ [Next]_vars => Savings'
<1>. SUFFICES ASSUME Types, Mapped, Savings, [Next]_vars PROVE Savings'
  OBVIOUS
\* The map and the keys of entries change only while nobody saves.
<1>0. ASSUME Locked, UNCHANGED <<readers, worker>>, NEW w \in Worker, worker'[w].pc = "save"
      PROVE  FALSE
  BY <1>0 DEF Locked, Types, TypesWorker
<1>1. ASSUME NEW k \in Key, Arrives(k), Rests, Locked PROVE Savings'
  <2>1. \A l \in Key : gone'[l] # "no" => l # k /\ gone[l] # "no"
    BY <1>1 DEF Arrives, Types, TypesMap
  <2>2. \A l \in Key : l # k => hashmap'[l] = hashmap[l]
    BY <1>1 DEF Arrives, Updates, Makes, Types, TypesMap
  <2>3. UNCHANGED <<readers, worker>>
    BY <1>1 DEF Rests, secVars
  <2>. QED BY <1>0, <1>1, <2>1, <2>2, <2>3 DEF Savings
<1>2. ASSUME NEW k \in Key, NEW t \in TTL, Set(k, t) PROVE Savings'
  BY <1>1, <1>2, SetArrives DEF Types
<1>3. ASSUME NEW k \in Key, Delete(k) PROVE Savings'
  <2>1. Locked /\ UNCHANGED <<readers, worker>>
    BY <1>3 DEF Delete, secVars
  <2>2. \A l \in Key : l # k => gone'[l] = gone[l] /\ hashmap'[l] = hashmap[l]
    BY <1>3 DEF Delete, DeleteFound, DeleteFails, DeleteAbsent, Types, TypesMap
  <2>3. hashmap'[k] = None
    BY <1>3 DEF Delete, DeleteFound, DeleteFails, DeleteAbsent, Types, TypesMap
  <2>. QED BY <1>0, <2>1, <2>2, <2>3 DEF Savings
<1>4. ASSUME NEW c \in Client, Load(c) PROVE Savings'
  <2>1. /\ client[c].key \in Key /\ Rests /\ Locked
        /\ Arrives(client[c].key) \/ UNCHANGED <<hashmap, ent, pending, gone>>
    BY <1>4, LoadArrives DEF Types
  <2>2. CASE UNCHANGED <<hashmap, ent, gone>>
    BY <2>1, <2>2 DEF Rests, secVars, Savings
  <2>. QED BY <1>1, <2>1, <2>2
<1>5. ASSUME NEW x, hashmap' = Without(x), Locked, UNCHANGED gone,
             \A w \in Worker : worker'[w].pc = "save" => worker[w].pc = "save"
      PROVE  Savings'
  <2>1. \A w \in Worker : worker'[w].pc # "save"
    BY <1>5 DEF Locked, Types, TypesWorker
  <2>. QED BY <1>5, <2>1 DEF Savings, Without
<1>6. CASE Unmap
  BY <1>5, <1>6 DEF Unmap, secVars
<1>7. ASSUME NEW w \in Worker, RemoveSaved(w) PROVE Savings'
  <2>1. \A v \in Worker : worker'[v].pc = "save" => worker[v].pc = "save"
    BY <1>7 DEF RemoveSaved, Rest, Types, TypesWorker
  <2>. QED BY <1>5, <1>7, <2>1 DEF RemoveSaved
<1>8. CASE Close
  <2>1. /\ \A k \in Key : hashmap'[k] = None
        /\ Locked /\ UNCHANGED <<readers, worker, gone>>
    BY <1>8 DEF Close, secVars
  <2>. QED BY <1>0, <2>1 DEF Savings
<1>9. ASSUME UNCHANGED <<hashmap, ent, gone>>,
             \A w \in Worker : worker'[w].pc = "save" =>
               hashmap[ent[worker'[w].entry].key] # None
      PROVE  Savings'
  BY <1>9 DEF Savings
<1>10. ASSUME NEW w \in Worker, Receive(w) \/ Check(w) \/ Save(w) PROVE Savings'
  <2>1. UNCHANGED <<hashmap, ent, gone>>
    BY <1>10 DEF Receive, Check, Save
  <2>2. \A v \in Worker : v # w => worker'[v] = worker[v]
    BY <1>10 DEF Receive, Check, Save, Types, TypesWorker
  <2>3. worker'[w].pc = "save" => hashmap[ent[worker'[w].entry].key] # None
    BY <1>10 DEF Receive, Check, Save, Rest, Types, TypesWorker, WorkerType
  <2>. QED BY <1>9, <2>1, <2>2, <2>3 DEF Savings
<1>11. CASE UNCHANGED <<hashmap, ent, gone, worker>>
  BY <1>9, <1>11 DEF Savings
<1>. QED BY <1>2, <1>3, <1>4, <1>6, <1>7, <1>8, <1>10, <1>11
         DEF Next, GetStep, WorkerStep, Miss, Enter, Sink, Evict, Expire, Elapse, vars, secVars

LEMMA DeletedNext ==
  Types /\ Made /\ Savings /\ DeletedGone /\ [Next]_vars => DeletedGone'
<1>. SUFFICES ASSUME Types, Made, Savings, DeletedGone, [Next]_vars PROVE DeletedGone'
  OBVIOUS
<1>1. ASSUME NEW k \in Key, Arrives(k), UNCHANGED sec PROVE DeletedGone'
  BY <1>1 DEF Arrives, DeletedGone, Types, TypesMap
<1>2. ASSUME NEW k \in Key, NEW t \in TTL, Set(k, t) PROVE DeletedGone'
  BY <1>1, <1>2, SetArrives DEF Types
<1>3. ASSUME NEW k \in Key, Delete(k) PROVE DeletedGone'
  BY <1>3 DEF Delete, DeleteFound, DeleteFails, DeleteAbsent, DeletedGone, Types, TypesMap
<1>4. ASSUME NEW c \in Client, Load(c) PROVE DeletedGone'
  <2>. DEFINE k == client[c].key
  <2>1. /\ k \in Key
        /\ \/ Arrives(k) /\ UNCHANGED sec
           \/ UNCHANGED gone /\ (UNCHANGED sec \/ sec' = [sec EXCEPT ![k] = None])
    BY <1>4, LoadArrives DEF Types
  <2>. HIDE DEF k
  <2>2. CASE UNCHANGED gone /\ (UNCHANGED sec \/ sec' = [sec EXCEPT ![k] = None])
    BY <2>1, <2>2 DEF DeletedGone, Types, TypesMap
  <2>. QED BY <1>1, <2>1, <2>2
<1>5. ASSUME NEW w \in Worker, Save(w) PROVE DeletedGone'
  <2>. DEFINE k == ent[worker[w].entry].key
  <2>1. worker[w].entry \in Entry /\ Held(worker[w].entry)
    BY <1>5 DEF Save, Types, TypesWorker, WorkerType, Held
  <2>2. k \in Key
    BY <2>1 DEF Made, Types, TypesMap, EntType
  <2>3. gone[k] = "no"
    BY <1>5, <2>2 DEF Save, Savings
  <2>4. UNCHANGED gone /\ \A l \in Key : l # k => sec'[l] = sec[l]
    BY <1>5, <2>2 DEF Save, Types, TypesMap
  <2>. HIDE DEF k
  <2>. QED BY <2>3, <2>4 DEF DeletedGone
<1>6. CASE UNCHANGED <<gone, sec>>
  BY <1>6 DEF DeletedGone
<1>. QED BY <1>2, <1>3, <1>4, <1>5, <1>6
         DEF Next, GetStep, WorkerStep, Miss, Enter, Sink, Evict, Expire, Unmap, Receive, Check,
             RemoveSaved, Close, Elapse, vars

-----------------------------------------------------------------------------
(* Counting places.                                                        *)

LEMMA AtMostOne ==
  ASSUME NEW S, \A x, y \in S : x = y
  PROVE  Cardinality(S) = IF S = {} THEN 0 ELSE 1
<1>1. CASE S = {}
  BY <1>1, FS_EmptySet
<1>2. ASSUME NEW x \in S PROVE Cardinality(S) = IF S = {} THEN 0 ELSE 1
  <2>1. S = {x}
    OBVIOUS
  <2>2. Cardinality({x}) = 1
    BY FS_Singleton
  <2>. QED BY <2>1, <2>2
<1>. QED BY <1>1, <1>2

\* No two places are taken, so that there is one if one of them is.
LEMMA PlacesCount ==
  Types /\ Once =>
    \A e \in Entry :
      /\ Places(e) <= 1
      /\ Seen(e) \/ e \in tracked \/ Queued(e) \/ Held(e) => Places(e) = 1
<1>. SUFFICES ASSUME Types, Once, NEW e \in Entry
              PROVE  /\ Places(e) <= 1
                     /\ Seen(e) \/ e \in tracked \/ Queued(e) \/ Held(e) => Places(e) = 1
  OBVIOUS
<1>. DEFINE P == {p \in pending : p.entry = e /\ p.code = "NEW"}
            Q == {i \in DOMAIN buf : buf[i] = e}
            W == {w \in Worker : worker[w].entry = e}
            t == IF e \in tracked THEN 1 ELSE 0
<1>1. Cardinality(P) = IF Seen(e) THEN 1 ELSE 0
  <2>1. Cardinality(P) = IF P = {} THEN 0 ELSE 1
    <3>1. \A x, y \in P : x = y
      BY DEF Once
    <3>. HIDE DEF P
    <3>. QED BY <3>1, AtMostOne
  <2>2. P = {} <=> ~Seen(e)
    BY DEF Seen
  <2>. QED BY <2>1, <2>2
<1>2. Cardinality(Q) = IF Queued(e) THEN 1 ELSE 0
  <2>0. DOMAIN buf = 1..Len(buf)
    BY DEF Types, TypesWorker
  <2>1. Cardinality(Q) = IF Q = {} THEN 0 ELSE 1
    <3>1. \A x, y \in Q : x = y
      BY <2>0 DEF Once
    <3>. HIDE DEF Q
    <3>. QED BY <3>1, AtMostOne
  <2>2. Q = {} <=> ~Queued(e)
    BY <2>0 DEF Queued
  <2>. QED BY <2>1, <2>2
<1>3. Cardinality(W) = IF Held(e) THEN 1 ELSE 0
  <2>1. Cardinality(W) = IF W = {} THEN 0 ELSE 1
    <3>1. \A x, y \in W : x = y
      BY NoneAssumption DEF Once
    <3>. HIDE DEF W
    <3>. QED BY <3>1, AtMostOne
  <2>2. W = {} <=> ~Held(e)
    BY DEF Held
  <2>. QED BY <2>1, <2>2
<1>4. Places(e) = Cardinality(P) + t + Cardinality(Q) + Cardinality(W)
  BY DEF Places
<1>5. /\ Seen(e) => e \notin tracked /\ ~Queued(e) /\ ~Held(e)
      /\ e \in tracked => ~Queued(e) /\ ~Held(e)
      /\ Queued(e) => ~Held(e)
  BY DEF Once
<1>. HIDE DEF P, Q, W
<1>. QED BY <1>1, <1>2, <1>3, <1>4, <1>5

-----------------------------------------------------------------------------
(* The theorems.                                                           *)

Inv == Types /\ Led /\ Made /\ Once /\ Mapped /\ Placed /\ Savings /\ DeletedGone

LEMMA Inductive == Spec => []Inv
<1>1. Init => Inv
  BY TypesInit, LedInit, PlacesInit DEF Inv, DeletedGone, Init
<1>2. Inv /\ [Next]_vars => Inv'
  BY TypesNext, LedNext, PlacesNext, MappedNext, PlacedNext, SavingsNext, DeletedNext DEF Inv
<1>. QED BY <1>1, <1>2, PTL DEF Spec

\* Every variable keeps its type, the queue its bound, the read locks are held
\* by the workers that save, and a flight is under way exactly while one Get
\* leads it.
THEOREM TypeCorrect == Spec => []TypeOK
<1>1. Inv => TypeOK
  <2>. SUFFICES ASSUME Inv PROVE TypeOK
    OBVIOUS
  <2>1. \A e \in Entry : ent[e].val \in 0..MaxValues
    BY DEF Inv, Types, TypesMap, EntType
  <2>2. \A p \in pending : p.entry \in Entry
    BY DEF Inv, Types, TypesMap, EventType
  <2>. QED BY <2>1, <2>2 DEF Inv, Types, TypesMap, TypesPolicy, TypesWorker, Led, TypeOK
<1>. QED BY <1>1, Inductive, PTL

\* No entry is announced to the policy twice, or listed while it is queued for
\* the secondary cache or in the hands of a worker.
THEOREM OnePlace == Spec => []KnownOnce
<1>1. Inv => KnownOnce
  BY PlacesCount DEF Inv, KnownOnce
<1>. QED BY <1>1, Inductive, PTL

\* What is in the map can still be evicted, unless a call of the secondary
\* cache failed for it.
THEOREM NothingStrays == Spec => []NoStrays
<1>1. Inv => NoStrays
  <2>. SUFFICES ASSUME Inv, NEW k \in Key, hashmap[k] # None
                PROVE  LET e == hashmap[k] IN Places(e) = 1 \/ busy = e \/ e \in failed
    BY DEF NoStrays
  <2>1. hashmap[k] \in Entry /\ Safe(hashmap[k])
    BY DEF Inv, Types, TypesMap, Placed
  <2>. QED BY <2>1, PlacesCount DEF Inv, Safe
<1>. QED BY <1>1, Inductive, PTL

\* A worker never puts back into the secondary cache what a Delete found in
\* memory and took out of both.
THEOREM NotSavedAgain == Spec => []DeletedGone
<1>1. Inv => DeletedGone
  BY DEF Inv
<1>. QED BY <1>1, Inductive, PTL
=============================================================================
