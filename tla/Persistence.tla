---------------------------- MODULE Persistence ----------------------------
(***************************************************************************)
(* SaveCache and LoadCache: Store.Persist and Store.Recover of             *)
(* internal/store.go, List.Persist of list.go, the blocks of               *)
(* persistence.go and the clock deadlines are counted by (clock.go).       *)
(*                                                                         *)
(* A store with one shard serves Set, Delete and accesses until Persist    *)
(* writes its file.  Later a process with a new store, maybe of another    *)
(* size, reads what is readable of that file.  The map changes in the call *)
(* and the policy's lists when the maintenance goroutine meets the event,  *)
(* so the two may disagree when Persist runs.  Which entries the policy    *)
(* moves and evicts is TinyLfu's matter: any, here.                        *)
(*                                                                         *)
(* Callers use the new store once LoadCache has returned, and time stands  *)
(* still while Recover runs.                                               *)
(***************************************************************************)
EXTENDS Admission, Sequences, SequencesExt, FiniteSetsExt

CONSTANTS
  MaxEntries, MaxSets, MaxDeletes, MaxAccesses,  \* bounds of the model
  MaxLive, MaxTime,  \* and of the time before Persist, and in all
  Cost,         \* the cost of a key's value
  Call,         \* calls of Set: a key and a time to live, 0 for none
  MaxInt,       \* the largest deadline
  Grace,        \* a cached time is trusted for deadlines this far off, 30 s
  BlockEntries, \* entries that fill a block, 4 MB in the code
  Sizes,        \* segment sizes of a store: window, protected and main
  None

ASSUME BoundsAssumption ==
  /\ MaxEntries \in Nat /\ MaxInt \in Nat \ {0} /\ BlockEntries \in Nat \ {0}
  /\ MaxLive \in Nat /\ MaxTime \in Nat /\ MaxLive <= MaxTime /\ MaxTime <= MaxInt
ASSUME CallAssumption ==
  /\ Grace \in Nat \ {0} /\ Cost \in [Key -> Nat] /\ Call \subseteq Key \X Nat
  /\ Sizes \subseteq [window : Nat, protected : Nat, main : Nat]
ASSUME WantedAssumption ==
  /\ IsFiniteSet(Key) /\ None \notin 1..MaxEntries
  /\ 0..MaxEntries \subseteq Wanted /\ 0..Cardinality(Key) \subseteq Wanted

Entry == 1..MaxEntries
Segment == {"window", "protected", "probation"}

VARIABLES
  phase,    \* "live", "saved", "recovering", "loaded" or "failed"
  settling, \* the policy makes room, under policyMu
  sizes,    \* segment capacities
  map,      \* the shard's hashmap: entry of a key, or None
  data,     \* the entries
  list,     \* the lists of the policy, most recent first
  wheel,    \* entries in the timer wheel
  removed,  \* entries whose removed flag is set
  weighted, \* policy.weightedSize
  pending,  \* events on their way to the policy
  now, start, cached,  \* the time, clock.Start and clock.now
  ticked,   \* ghost: cached is of the present Start
  calls,    \* Set and access calls so far
  file,     \* what Persist wrote
  saved,    \* ghost: the lists Persist saw
  good,     \* blocks of the file that can be read
  at        \* Recover's place in the file, and the time it was called

timeVars == <<now, start, cached, ticked>>
listVars == <<list, wheel, removed, weighted>>
fileVars == <<file, saved, good>>
vars == <<phase, settling, sizes, map, data, listVars, pending,
          now, start, cached, ticked, calls, file, saved, good, at,
          size, table, additions, count, bits, capacity, counter, seen>>

NowNano == now - start
ExpireNano(ttl) == AtMost(NowNano + ttl, MaxInt)
Expired(e, t) == data[e].expire # 0 /\ data[e].expire <= t

Weight(es) == MapThenSumSet(LAMBDA e : data[e].weight, es)
Len_(l) == MapThenSumSet(LAMBDA i : data[list[l][i]].weight, DOMAIN list[l])
Listed == UNION {ToSet(list[l]) : l \in Segment}
Mapped == {k \in Key : map[k] # None}
Unused == Entry \ (Listed \cup {map[k] : k \in Mapped} \cup {p.entry : p \in pending})

\* The members of sequence s at positions ps, in order: of its first n, and all.
Kept(s, ps) ==
  LET kept[n \in 0..Len(s)] ==
        IF n = 0 THEN <<>>
        ELSE IF n \in ps THEN Append(kept[n - 1], s[n]) ELSE kept[n - 1]
  IN  kept
Keep(s, ps) == Kept(s, ps)[Len(s)]

Without(s, es) == Keep(s, {i \in DOMAIN s : s[i] \notin es})

-----------------------------------------------------------------------------
(* The store that is saved.                                                *)

Blank == [key |-> None, weight |-> 0, expire |-> 0, due |-> 0]

NewEntry(k, e, expire, due) ==
  data' = [data EXCEPT ![e] = [key |-> k, weight |-> Cost[k],
                               expire |-> expire, due |-> due]]

SetExisting(k, ttl) ==
  LET e == map[k] IN
  /\ e # None
  /\ IF ttl > 0
       THEN /\ NewEntry(k, e, ExpireNano(ttl), now + ttl)
            /\ pending' = pending \cup {[code |-> "UPDATE", entry |-> e]}
       ELSE UNCHANGED <<data, pending>>
  /\ UNCHANGED <<map, removed, doorVars>>

SetRefused(k, ttl) ==
  /\ map[k] = None
  /\ Ask(k, FALSE, Cardinality(Mapped) + 1)
  /\ UNCHANGED <<map, removed, data, pending>>

SetNew(k, ttl) ==
  /\ map[k] = None /\ Unused # {}
  /\ Ask(k, TRUE, Cardinality(Mapped) + 1)
  /\ LET e == Min(Unused) IN
     /\ NewEntry(k, e, IF ttl = 0 THEN 0 ELSE ExpireNano(ttl),
                       IF ttl = 0 THEN 0 ELSE now + ttl)
     /\ map' = [map EXCEPT ![k] = e]
     /\ pending' = pending \cup {[code |-> "NEW", entry |-> e]}
     /\ removed' = removed \ {e}

Set(k, ttl) ==
  /\ phase = "live" /\ calls.set < MaxSets
  /\ calls' = [calls EXCEPT !.set = @ + 1]
  /\ SetExisting(k, ttl) \/ SetRefused(k, ttl) \/ SetNew(k, ttl)
  /\ UNCHANGED <<phase, settling, sizes, list, wheel, weighted, timeVars,
                 fileVars, at, sketchVars>>

Delete(k) ==
  /\ phase = "live" /\ map[k] # None /\ calls.delete < MaxDeletes
  /\ calls' = [calls EXCEPT !.delete = @ + 1]
  /\ map' = [map EXCEPT ![k] = None]
  /\ pending' = pending \cup {[code |-> "REMOVE", entry |-> map[k]]}
  /\ UNCHANGED <<phase, settling, sizes, data, listVars, timeVars, fileVars,
                 at, sketchVars, doorVars>>

\* The policy and the wheel let go of entries es.
Unlist(es) ==
  /\ list' = [l \in Segment |-> Without(list[l], es)]
  /\ wheel' = wheel \ es
  /\ removed' = removed \cup es
  /\ weighted' = weighted - Weight(es \cap Listed)

Unmap(es) ==
  map' = [k \in Key |-> IF map[k] \in es THEN None ELSE map[k]]

\* sinkWrite of an event, up to the making of room.
SinkNew(e) ==
  IF Expired(e, NowNano)
    THEN /\ Unlist({e}) /\ Unmap({e})
         /\ UNCHANGED <<settling, sketchVars>>
    ELSE /\ list' = [list EXCEPT !["window"] = <<e>> \o @]
         /\ wheel' = IF data[e].expire # 0 THEN wheel \cup {e} ELSE wheel
         /\ removed' = removed \ {e}
         /\ weighted' = weighted + data[e].weight
         /\ Add(data[e].key)
         /\ settling' = TRUE
         /\ UNCHANGED map

\* Only an UPDATE that asks for a new timer is kept.
SinkUpdate(e) ==
  /\ wheel' = IF e \in removed THEN wheel ELSE wheel \cup {e}
  /\ UNCHANGED <<list, removed, weighted, map, settling, sketchVars>>

SinkRemove(e) ==
  /\ Unlist({e})
  /\ UNCHANGED <<map, settling, sketchVars>>

\* Later events of an entry whose REMOVE has come are ignored.
Sink(p) ==
  /\ phase = "live" /\ ~settling
  /\ pending' = IF p.code = "REMOVE" THEN {q \in pending : q.entry # p.entry}
                                     ELSE pending \ {p}
  /\ \/ p.code = "NEW" /\ SinkNew(p.entry)
     \/ p.code = "UPDATE" /\ SinkUpdate(p.entry)
     \/ p.code = "REMOVE" /\ SinkRemove(p.entry)
  /\ UNCHANGED <<phase, sizes, data, timeVars, calls, fileVars, at, doorVars>>

\* The last entry of list l becomes the first of list m.
Shift(l, m) ==
  list' = [list EXCEPT ![l] = Front(@), ![m] = <<Last(list[l])>> \o @]

Demote ==
  /\ Len_("protected") > sizes.protected
  /\ Shift("protected", "probation")
  /\ UNCHANGED <<settling, map, wheel, removed, weighted, sketchVars>>

FromWindow ==
  /\ Len_("protected") <= sizes.protected
  /\ Len_("window") > sizes.window
  /\ Shift("window", "probation")
  /\ UNCHANGED <<settling, map, wheel, removed, weighted, sketchVars>>

Evict ==
  /\ Len_("protected") <= sizes.protected /\ Len_("window") <= sizes.window
  /\ weighted > sizes.window + sizes.main
  /\ \E e \in Listed : Unlist({e}) /\ Unmap({e})
  /\ UNCHANGED <<settling, sketchVars>>

Settled ==
  /\ Len_("protected") <= sizes.protected /\ Len_("window") <= sizes.window
  /\ weighted <= sizes.window + sizes.main
  /\ settling' = FALSE
  /\ EnsureCapacity(Cardinality(Listed))
  /\ UNCHANGED <<map, listVars>>

\* What TinyLfu.Set does once the entry is in the window.
MakeRoom ==
  /\ settling
  /\ Demote \/ FromWindow \/ Evict \/ Settled
  /\ UNCHANGED <<phase, sizes, data, pending, timeVars, calls, fileVars, at,
                 doorVars>>

\* drainRead: the hit moves an entry up.
Access(e) ==
  /\ phase = "live" /\ ~settling /\ calls.access < MaxAccesses
  /\ calls' = [calls EXCEPT !.access = @ + 1]
  /\ Add(data[e].key)
  /\ LET up == IF e \in ToSet(list["window"]) THEN "window" ELSE "protected"
     IN  list' = [l \in Segment |->
                    (IF l = up THEN <<e>> ELSE <<>>) \o Without(list[l], {e})]
  /\ UNCHANGED <<phase, settling, sizes, map, data, wheel, removed, weighted,
                 pending, timeVars, fileVars, at, doorVars>>

-----------------------------------------------------------------------------
(* The clock.                                                              *)

\* The ticker keeps cached younger than Grace.
Elapse ==
  /\ phase # "recovering"
  /\ now < IF phase = "live" THEN MaxLive ELSE MaxTime
  /\ phase = "saved" \/ ~ticked \/ NowNano + 1 - cached < Grace
  /\ now' = now + 1
  /\ UNCHANGED <<phase, settling, sizes, map, data, listVars, pending, start,
                 cached, ticked, calls, fileVars, at, sketchVars, doorVars>>

\* The ticker's turn: refresh the cached time and drop due entries.  How soon
\* a due entry is found is the wheel's matter.
Tick ==
  /\ phase \in {"live", "loaded"} /\ ~settling
  /\ cached' = NowNano /\ ticked' = TRUE
  /\ \E es \in SUBSET {e \in wheel : Expired(e, NowNano)} : Unlist(es) /\ Unmap(es)
  /\ UNCHANGED <<phase, settling, sizes, data, pending, now, start, calls,
                 fileVars, at, sketchVars, doorVars>>

\* getFromShard: whether Get returns the entry it found.
Found(e) ==
  LET left == data[e].expire - cached IN
  \/ data[e].expire = 0
  \/ left >= Grace
  \/ left > 0 /\ ~Expired(e, NowNano)

-----------------------------------------------------------------------------
(* Persist.                                                                *)

Pentry(e) == [key |-> data[e].key, weight |-> data[e].weight,
              expire |-> data[e].expire, due |-> data[e].due,
              freq |-> Estimate(data[e].key)]

\* Seeded fault: what is left in the last block is not saved.
BlocksFull(l) ==
  [b \in 1..(Len(list[l]) \div BlockEntries) |->
     [type |-> l,
      entries |-> [i \in 1..BlockEntries |->
                     Pentry(list[l][(b - 1) * BlockEntries + i])]]]

\* List.Persist: blocks of BlockEntries, and what is left in a last one.
Blocks(l) ==
  LET n == Len(list[l]) IN
  [b \in 1..((n + BlockEntries - 1) \div BlockEntries) |->
     [type |-> l,
      entries |-> [i \in 1..AtMost(BlockEntries, n - (b - 1) * BlockEntries) |->
                     Pentry(list[l][(b - 1) * BlockEntries + i])]]]

Marker(type) == <<[type |-> type, entries |-> <<>>]>>

\* Seeded fault: the count of refused keys outlives the filter it counts for.
NewFiltersCounting ==
  NewSketch(InitSize) /\ NewDoor(InitCapacity) /\ UNCHANGED counter

NewFilters == NewSketch(InitSize) /\ NewDoor(InitCapacity) /\ counter' = 0

\* A store as it is created.
NewStore ==
  /\ map' = [k \in Key |-> None] /\ pending' = {}
  /\ data' = [e \in Entry |-> Blank]
  /\ list' = [l \in Segment |-> <<>>] /\ wheel' = {} /\ weighted' = 0
  /\ removed' = {}
  /\ start' = now /\ cached' = 0 /\ ticked' = TRUE
  /\ calls' = [set |-> 0, delete |-> 0, access |-> 0]
  /\ NewFilters

\* The process may live on; nothing it does then is in the file, so the model
\* leaves it here and keeps a new store at hand for Restart.
Persist ==
  /\ phase = "live" /\ ~settling
  /\ phase' = "saved"
  /\ file' = [start |-> start, total |-> Cardinality(Mapped),
              blocks |-> Marker("meta") \o Blocks("window")
                           \o Blocks("protected") \o Blocks("probation")
                           \o Marker("end")]
  /\ saved' = [l \in Segment |-> [i \in DOMAIN list[l] |-> Pentry(list[l][i])]]
  /\ NewStore
  /\ UNCHANGED <<settling, sizes, now, good, at>>

-----------------------------------------------------------------------------
(* Recover.                                                                *)

\* A new store, and LoadCache called on it at once.  The file may have been
\* cut short or damaged: only its first blocks decode and match their sum.
Restart ==
  /\ phase = "saved"
  /\ phase' = "recovering"
  /\ sizes' \in Sizes
  /\ good' \in 0..Len(file.blocks)
  /\ at' = [block |-> 1, entry |-> 1, time |-> now]
  /\ start' = now /\ cached' = 0 /\ ticked' = TRUE
  /\ UNCHANGED <<settling, map, data, listVars, pending, now, calls, file,
                 saved, sketchVars, doorVars>>

Here == file.blocks[at.block]

\* A block that does not decode, or a file of another version.
RecoverFails ==
  /\ \/ at.block > good
     \/ Here.type = "meta"
  /\ phase' = "failed"
  /\ UNCHANGED <<sizes, map, data, listVars, start, ticked, at, sketchVars,
                 doorVars>>

\* Seeded fault: the new store keeps its own start.
RecoverMetaKeepsStart ==
  /\ at.block <= good /\ Here.type = "meta"
  /\ ticked' = FALSE
  /\ EnsureCapacity(file.total)
  /\ at' = [at EXCEPT !.block = @ + 1]
  /\ UNCHANGED <<phase, sizes, map, data, listVars, start, doorVars>>

RecoverMeta ==
  /\ at.block <= good /\ Here.type = "meta"
  /\ start' = file.start /\ ticked' = FALSE
  /\ EnsureCapacity(file.total)
  /\ at' = [at EXCEPT !.block = @ + 1]
  /\ UNCHANGED <<phase, sizes, map, data, listVars, doorVars>>

HasRoom(l) ==
  CASE l = "window"    -> Len_("window") < sizes.window
    [] l = "protected" -> Len_("protected") < sizes.protected
    [] l = "probation" -> Len_("protected") + Len_("probation") < sizes.main

\* Seeded fault: the entry is linked and never put in the map.
InsertSimpleUnmapped(e, p) ==
  /\ data' = [data EXCEPT ![e] = [key |-> p.key, weight |-> p.weight,
                                  expire |-> p.expire, due |-> p.due]]
  /\ wheel' = IF p.expire # 0 THEN wheel \cup {e} ELSE wheel
  /\ UNCHANGED <<map, doorVars>>

InsertSimple(e, p) ==
  /\ data' = [data EXCEPT ![e] = [key |-> p.key, weight |-> p.weight,
                                  expire |-> p.expire, due |-> p.due]]
  /\ map' = [map EXCEPT ![p.key] = e]
  /\ wheel' = IF p.expire # 0 THEN wheel \cup {e} ELSE wheel
  /\ EnsureDoor(Cardinality(Mapped \cup {p.key})) /\ UNCHANGED counter

RecoverEntry ==
  LET p == Here.entries[at.entry]
      e == 1 + Cardinality(Listed)
  IN  /\ at.block <= good /\ Here.type \in Segment
      /\ IF (p.expire # 0 /\ p.expire < NowNano) \/ ~HasRoom(Here.type)
           THEN UNCHANGED <<map, data, listVars, sketchVars, doorVars>>
           ELSE /\ list' = [list EXCEPT ![Here.type] = Append(@, e)]
                /\ InsertSimple(e, p)
                /\ Addn(p.key, p.freq)
                /\ weighted' = weighted + p.weight
                /\ UNCHANGED removed
      /\ at' = IF at.entry = Len(Here.entries)
                 THEN [at EXCEPT !.block = @ + 1, !.entry = 1]
                 ELSE [at EXCEPT !.entry = @ + 1]
      /\ UNCHANGED <<phase, sizes, start, ticked>>

RecoverEnd ==
  /\ at.block <= good /\ Here.type = "end"
  /\ phase' = "loaded"
  /\ UNCHANGED <<sizes, map, data, listVars, start, ticked, at, sketchVars,
                 doorVars>>

Recover ==
  /\ phase = "recovering"
  /\ RecoverFails \/ RecoverMeta \/ RecoverEntry \/ RecoverEnd
  /\ UNCHANGED <<settling, pending, now, cached, calls, fileVars>>

-----------------------------------------------------------------------------
Init ==
  /\ AdmissionInit
  /\ phase = "live" /\ settling = FALSE /\ sizes \in Sizes
  /\ map = [k \in Key |-> None]
  /\ data = [e \in Entry |-> Blank]
  /\ list = [l \in Segment |-> <<>>] /\ wheel = {} /\ weighted = 0
  /\ removed = {}
  /\ pending = {}
  /\ now = 0 /\ start = 0 /\ cached = 0 /\ ticked = TRUE
  /\ calls = [set |-> 0, delete |-> 0, access |-> 0]
  /\ file = [start |-> 0, total |-> 0, blocks |-> <<>>]
  /\ saved = [l \in Segment |-> <<>>] /\ good = 0
  /\ at = [block |-> 1, entry |-> 1, time |-> 0]

Next ==
  \/ \E c \in Call : Set(c[1], c[2])
  \/ \E k \in Key : Delete(k)
  \/ \E p \in pending : Sink(p)
  \/ MakeRoom
  \/ \E e \in Listed : Access(e)
  \/ Elapse \/ Tick
  \/ Persist \/ Restart \/ Recover

Spec == Init /\ [][Next]_vars

-----------------------------------------------------------------------------
(* Properties.                                                             *)

\* Whatever calls, events and restarts do to the two filters are operations of
\* the filters, each whole: what PersistenceProofs shows of them holds here.
FiltersInStep == AdmissionSpec

InTime(l) ==
  {i \in DOMAIN saved[l] : saved[l][i].expire = 0 \/ saved[l][i].due >= at.time}

\* What should be left of list l: its entries that are not past their
\* deadline, in order, as long as there is room before each.
Expected(l) ==
  LET live == Keep(saved[l], InTime(l))
      cost(n) == MapThenSumSet(LAMBDA i : live[i].weight, 1..n)
      base == IF l = "probation" THEN Len_("protected") ELSE 0
      limit == IF l = "probation" THEN sizes.main ELSE sizes[l]
  IN  SubSeq(live, 1, Max({n \in 0..Len(live) :
                             \A m \in 0..(n - 1) : base + cost(m) < limit}))

\* When LoadCache returns without an error, each list holds what the saved one
\* held, in the same order, less what is past its deadline in real time and
\* what the new sizes have no room for, and no key counts as rarer than it was.
RoundTrip ==
  phase = "loaded" /\ ~ticked =>
    \A l \in Segment :
      LET want == Expected(l) IN
      /\ Len(list[l]) = Len(want)
      /\ \A i \in DOMAIN want :
           LET d == data[list[l][i]] IN
           /\ <<d.key, d.weight, d.expire, d.due>>
                = <<want[i].key, want[i].weight, want[i].expire, want[i].due>>
           /\ Estimate(d.key) >= want[i].freq

SavedKeys == [l \in Segment |-> [i \in DOMAIN saved[l] |-> saved[l][i].key]]
SavedTwice ==
  \E l, m \in Segment : \E i \in DOMAIN saved[l], j \in DOMAIN saved[m] :
    /\ <<l, i>> # <<m, j>>
    /\ SavedKeys[l][i] = SavedKeys[m][j]

\* A store that was loaded, in whole or up to the damaged block, is in one
\* piece: what the map holds is listed, weighed and timed, and what is listed
\* is in the map, unless Persist saw an entry whose key was set anew while its
\* own deletion had not reached the policy, and so saved the key twice.
Consistent ==
  phase \in {"loaded", "failed"} =>
    /\ {map[k] : k \in Mapped} \subseteq Listed
    /\ {data[e].key : e \in Listed} = Mapped \/ SavedTwice
    /\ Cardinality(Listed) = Cardinality(Mapped) \/ SavedTwice
    /\ wheel = {e \in Listed : data[e].expire # 0}
    /\ weighted = Weight(Listed)

\* Get never returns an entry past its deadline in real time, across a restart
\* too, as long as the ticker has run since the clock was set and its last turn
\* is less than Grace ago.
ReadsFresh ==
  phase \in {"live", "loaded"} /\ ticked =>
    \A k \in Mapped :
      LET d == data[map[k]] IN
      d.due # 0 /\ Found(map[k]) => now < d.due
=============================================================================
