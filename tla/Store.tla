------------------------------- MODULE Store -------------------------------
(***************************************************************************)
(* The in-memory store of theine-go (internal/store.go): sharded hash maps *)
(* updated synchronously by the callers, and an eviction policy, a timer   *)
(* wheel and a removal listener updated later by two goroutines of         *)
(* maintenance() from the events the callers send over writeChan.          *)
(*                                                                         *)
(* Granularity.  A region under a shard's RBMutex is one step (module      *)
(* RBMutex justifies it).  Work under policyMu is cut at every read of an  *)
(* entry's atomic expire field and at every shard lock, which is where the *)
(* callers interleave with it.                                             *)
(*                                                                         *)
(* Abstracted.  Values are left out.  The TinyLfu policy is the set of the *)
(* entries it tracks with their policyWeight and its weightedSize; its     *)
(* victim is any tracked entry.  The timer wheel is the set of scheduled   *)
(* entries; a tick visits any of them.  No secondary cache, no entry pool. *)
(***************************************************************************)
EXTENDS Integers, Sequences, FiniteSetsExt, Functions

CONSTANTS
  Key,          \* keys callers use
  Shard,        \* the shards
  index,        \* the shard of a key (the low bits of its hash)
  Client,       \* goroutines calling Set and Delete
  Waiter,       \* the clients that also call Wait
  MaxEntries,   \* bound: entries alive at once (an entry is recycled as the
                \* garbage collector does, once nothing refers to it)
  Cost,         \* costs callers give
  TTL,          \* time to live callers give; 0 is none
  Cap,          \* MaxSize
  WriteChanSize, WriteBufferSize,
  MaxTime,      \* bound on the clock
  Wrap,         \* 2^width of weightedSize's unsigned type
  Doorkeeper,   \* the bloom filter in front of each shard is on
  WithClose,    \* Close is called
  NoKey, NoClient

Entry == 1..MaxEntries
NoEntry == 0

ASSUME ShardAssumption == index \in [Key -> Shard]
ASSUME ClientAssumption ==
  Waiter \subseteq Client /\ NoClient \notin Client /\ IsFiniteSet(Client)
ASSUME KeyAssumption == NoKey \notin Key
ASSUME BoundAssumption ==
  /\ MaxEntries \in Nat /\ MaxTime \in Nat
  /\ WriteChanSize \in Nat \ {0} /\ WriteBufferSize \in Nat \ {0}
ASSUME CostAssumption ==
  /\ Cap \in Nat \ {0} /\ Cost \subseteq 1..Cap /\ TTL \subseteq Nat
  /\ Wrap \in Nat /\ Cap < Wrap
ASSUME FlagAssumption == Doorkeeper \in BOOLEAN /\ WithClose \in BOOLEAN

VARIABLES
  hashmap,      \* the shards' maps, together: the entry of each key
  shardClosed,  \* the shards whose closed field is set
  key, weight, expire,                  \* entry fields under the shard mutex
  policyWeight, removed, deleted,       \* entry fields under policyMu
  tracked,      \* entries in one of the policy's lists (meta.prev # nil)
  wheel,        \* entries in the timer wheel (meta.wheelPrev # nil)
  weightedSize, \* of the policy, modulo Wrap
  notified,     \* ghost: the calls of the removal listener for each entry
  pc, out,      \* of a client: where it is, the event it is sending
  writeChan, writeBuffer,
  mpc, waits,   \* the maintenance goroutine: where it is, drainWrite's wait
  tpc, nanos,   \* the ticker goroutine: running or stopped; wheel's nanos
  policyMu,     \* who holds it
  step, cur, why, \* under policyMu: the entry being removed, how far, reason
  now,          \* the clock
  closed        \* s.closed and the cancelled context

mapVars    == <<hashmap, shardClosed, key, weight, expire>>
policyVars == <<policyWeight, removed, deleted, tracked, wheel, weightedSize>>
clientVars == <<pc, out>>
maintVars  == <<writeBuffer, mpc, waits>>
tickVars   == <<tpc, nanos>>
stepVars   == <<step, cur, why>>
vars == <<mapVars, policyVars, notified, clientVars, writeChan, maintVars,
          tickVars, policyMu, stepVars, now, closed>>

-----------------------------------------------------------------------------
(* Write events (entry.go).  by is a ghost: the caller of Wait.            *)

Event == [code : {"NEW", "REMOVE", "UPDATE", "WAIT"},
          entry : Entry \cup {NoEntry}, costChange : Int,
          rechedule : BOOLEAN, by : Client \cup {NoClient}]

WriteBufItem(code, e, change, resched) ==
  [code |-> code, entry |-> e, costChange |-> change,
   rechedule |-> resched, by |-> NoClient]

WaitItem(c) ==
  [code |-> "WAIT", entry |-> NoEntry, costChange |-> 0,
   rechedule |-> FALSE, by |-> c]

NoEvent == WriteBufItem("WAIT", NoEntry, 0, FALSE)

\* The events in flight: being sent, in the channel, in the write buffer.
Events == {out[c] : c \in {d \in Client : pc[d] = "send"}}
            \cup Range(writeChan) \cup Range(writeBuffer)

Pending(e, code) == \E m \in Events : m.entry = e /\ m.code = code

Mapped(e) == \E k \in Key : hashmap[k] = e

Referenced(e) ==
  \/ Mapped(e) \/ e \in tracked \/ e \in wheel
  \/ \E m \in Events : m.entry = e
  \/ step # "next" /\ cur = e

-----------------------------------------------------------------------------
Init ==
  /\ hashmap = [k \in Key |-> NoEntry]
  /\ shardClosed = {}
  /\ key = [e \in Entry |-> NoKey]
  /\ weight = [e \in Entry |-> 0]
  /\ expire = [e \in Entry |-> 0]
  /\ policyWeight = [e \in Entry |-> 0]
  /\ removed = [e \in Entry |-> FALSE]
  /\ deleted = [e \in Entry |-> FALSE]
  /\ tracked = {} /\ wheel = {} /\ weightedSize = 0
  /\ notified = [e \in Entry |-> 0]
  /\ pc = [c \in Client |-> "idle"]
  /\ out = [c \in Client |-> NoEvent]
  /\ writeChan = << >> /\ writeBuffer = << >>
  /\ mpc = "recv" /\ waits = 0
  /\ tpc = "run" /\ nanos = 0
  /\ policyMu = "free"
  /\ step = "next" /\ cur = NoEntry /\ why = "EVICTED"
  /\ now = 0
  /\ closed = FALSE

-----------------------------------------------------------------------------
(* The callers.                                                            *)

Post(c, m) == pc' = [pc EXCEPT ![c] = "send"] /\ out' = [out EXCEPT ![c] = m]

\* Seeded fault: the event carries the new cost, not the change.
SetExistingAbsolute(c, k, cost, exp) ==
  LET e == hashmap[k] IN
  /\ e # NoEntry
  /\ expire' = [expire EXCEPT ![e] = IF exp > 0 THEN exp ELSE @]
  /\ weight' = [weight EXCEPT ![e] = cost]
  /\ Post(c, WriteBufItem("UPDATE", e, cost, exp > 0 /\ exp # expire[e]))
  /\ UNCHANGED <<hashmap, shardClosed, key, policyVars, notified>>

\* Seeded fault: an update that leaves the cost as it was is not announced.
SetExistingQuiet(c, k, cost, exp) ==
  LET e == hashmap[k] IN
  /\ e # NoEntry
  /\ expire' = [expire EXCEPT ![e] = IF exp > 0 THEN exp ELSE @]
  /\ weight' = [weight EXCEPT ![e] = cost]
  /\ IF cost = weight[e]
       THEN UNCHANGED clientVars
       ELSE Post(c, WriteBufItem("UPDATE", e, cost - weight[e], FALSE))
  /\ UNCHANGED <<hashmap, shardClosed, key, policyVars, notified>>

\* setShardWithoutLock on a key the map has.
SetExisting(c, k, cost, exp) ==
  LET e == hashmap[k] IN
  /\ e # NoEntry
  /\ expire' = [expire EXCEPT ![e] = IF exp > 0 THEN exp ELSE @]
  /\ weight' = [weight EXCEPT ![e] = cost]
  /\ Post(c, WriteBufItem("UPDATE", e, cost - weight[e],
                          exp > 0 /\ exp # expire[e]))
  /\ UNCHANGED <<hashmap, shardClosed, key, policyVars, notified>>

\* setShardWithoutLock on a key the map lacks, a new entry made for it.
SetNew(c, k, cost, exp) ==
  /\ hashmap[k] = NoEntry
  /\ \E e \in Entry :
       /\ ~Referenced(e)
       /\ \A f \in 1..(e - 1) : Referenced(f)
       /\ hashmap' = [hashmap EXCEPT ![k] = e]
       /\ key' = [key EXCEPT ![e] = k]
       /\ weight' = [weight EXCEPT ![e] = cost]
       /\ expire' = [expire EXCEPT ![e] = exp]
       /\ policyWeight' = [policyWeight EXCEPT ![e] = 0]
       /\ removed' = [removed EXCEPT ![e] = FALSE]
       /\ deleted' = [deleted EXCEPT ![e] = FALSE]
       /\ notified' = [notified EXCEPT ![e] = 0]
       /\ Post(c, WriteBufItem("NEW", e, cost, FALSE))
  /\ UNCHANGED <<shardClosed, tracked, wheel, weightedSize>>

\* The doorkeeper has not seen the key: the Set is refused, nothing is sent.
SetRefused(k) ==
  /\ Doorkeeper /\ hashmap[k] = NoEntry
  /\ UNCHANGED <<mapVars, policyVars, notified, clientVars>>

\* Seeded fault: Set does not look at shard.closed.
SetOnClosed(c, k, cost, ttl, t) ==
  LET exp == IF ttl = 0 THEN 0 ELSE t + ttl IN
  /\ pc[c] = "idle"
  /\ SetExisting(c, k, cost, exp) \/ SetNew(c, k, cost, exp) \/ SetRefused(k)
  /\ UNCHANGED <<writeChan, maintVars, tickVars, policyMu, stepVars, now,
                 closed>>

\* t is the instant at which Set read the clock, before it had the shard lock.
Set(c, k, cost, ttl, t) ==
  LET exp == IF ttl = 0 THEN 0 ELSE t + ttl IN
  /\ pc[c] = "idle"
  /\ index[k] \notin shardClosed
  /\ SetExisting(c, k, cost, exp) \/ SetNew(c, k, cost, exp) \/ SetRefused(k)
  /\ UNCHANGED <<writeChan, maintVars, tickVars, policyMu, stepVars, now,
                 closed>>

\* Seeded fault: Delete leaves the map to the policy.
DeleteLater(c, k) ==
  LET e == hashmap[k] IN
  /\ pc[c] = "idle"
  /\ index[k] \notin shardClosed
  /\ e # NoEntry
  /\ Post(c, WriteBufItem("REMOVE", e, 0, FALSE))
  /\ UNCHANGED <<mapVars, policyVars, notified, writeChan, maintVars, tickVars,
                 policyMu, stepVars, now, closed>>

Delete(c, k) ==
  LET e == hashmap[k] IN
  /\ pc[c] = "idle"
  /\ index[k] \notin shardClosed
  /\ e # NoEntry
  /\ hashmap' = [hashmap EXCEPT ![k] = NoEntry]
  /\ Post(c, WriteBufItem("REMOVE", e, 0, FALSE))
  /\ UNCHANGED <<shardClosed, key, weight, expire, policyVars, notified,
                 writeChan, maintVars, tickVars, policyMu, stepVars, now,
                 closed>>

\* A Get reads the map; what it does to the policy (the hit and miss counters,
\* the read buffer and TinyLfu.Access) moves nothing this module keeps.
Get(c, k) ==
  /\ pc[c] = "idle" /\ k \in Key
  /\ UNCHANGED vars

Wait(c) ==
  /\ pc[c] = "idle" /\ c \in Waiter
  /\ Post(c, WaitItem(c))
  /\ UNCHANGED <<mapVars, policyVars, notified, writeChan, maintVars,
                 tickVars, policyMu, stepVars, now, closed>>

\* s.writeChan <- item, which blocks while the channel is full.
Send(c) ==
  /\ pc[c] = "send"
  /\ Len(writeChan) < WriteChanSize
  /\ writeChan' = Append(writeChan, out[c])
  /\ pc' = [pc EXCEPT ![c] = IF out[c].code = "WAIT" THEN "wait" ELSE "idle"]
  /\ out' = [out EXCEPT ![c] = NoEvent]
  /\ UNCHANGED <<mapVars, policyVars, notified, maintVars, tickVars, policyMu,
                 stepVars, now, closed>>

CloseShard(s) ==
  /\ WithClose /\ s \notin shardClosed
  /\ shardClosed' = shardClosed \cup {s}
  /\ hashmap' = [k \in Key |-> IF index[k] = s THEN NoEntry ELSE hashmap[k]]
  /\ UNCHANGED <<key, weight, expire, policyVars, notified, clientVars,
                 writeChan, maintVars, tickVars, policyMu, stepVars, now,
                 closed>>

Close ==
  /\ WithClose /\ shardClosed = Shard /\ ~closed
  /\ policyMu = "free"
  /\ closed' = TRUE
  /\ UNCHANGED <<mapVars, policyVars, notified, clientVars, writeChan,
                 maintVars, tickVars, policyMu, stepVars, now>>

-----------------------------------------------------------------------------
(* Removal under policyMu, shared by the two maintenance goroutines.       *)

\* Seeded fault: the weight comes off even if e is in no list.
PolicyRemoveTwice(e) ==
  /\ tracked' = tracked \ {e}
  /\ weightedSize' = (weightedSize - policyWeight[e]) % Wrap

\* The policy's lists and weightedSize without e (TinyLfu.Remove, and its
\* guard meta.prev # nil in removeEntry).
PolicyRemove(e) ==
  /\ tracked' = tracked \ {e}
  /\ weightedSize' = IF e \in tracked
                       THEN (weightedSize - policyWeight[e]) % Wrap
                       ELSE weightedSize

\* Seeded fault: the loop ends one unit over the capacity.
EvictNextLate(size, members) ==
  IF size > Cap + 1 /\ members # {} THEN "evict" ELSE "next"

\* Where the policy goes once its size has changed: EvictEntries' loop, or
\* back to drainWrite.
EvictNext(size, members) == IF size > Cap /\ members # {} THEN "evict" ELSE "next"

\* Seeded fault: an expiring entry is not flagged as removed.
ExpireStartUnflagged(e) ==
  step' = "check" /\ cur' = e /\ why' = "EXPIRED" /\ UNCHANGED removed

\* removeEntry(e, EXPIRED) up to its second read of expire.
ExpireStart(e) ==
  /\ removed' = [removed EXCEPT ![e] = TRUE]
  /\ step' = "check" /\ cur' = e /\ why' = "EXPIRED"

\* entry might updated already: the early return of removeEntry(_, EXPIRED).
ExpireSkip ==
  /\ step = "check" /\ expire[cur] > now
  /\ step' = "next" /\ cur' = NoEntry /\ why' = "EVICTED"
  /\ UNCHANGED <<mapVars, policyVars, notified, clientVars, writeChan,
                 maintVars, tickVars, policyMu, now, closed>>

ExpireCheck ==
  /\ step = "check" /\ expire[cur] <= now
  /\ PolicyRemove(cur)
  /\ wheel' = wheel \ {cur}
  /\ step' = "unmap"
  /\ UNCHANGED <<mapVars, policyWeight, removed, deleted, notified, clientVars,
                 writeChan, maintVars, tickVars, policyMu, cur, why, now,
                 closed>>

\* Seeded fault: shard.delete goes by the key, not by the entry.
UnmapByKey ==
  LET k == key[cur]
      found == index[k] \notin shardClosed /\ hashmap[k] # NoEntry
  IN
  /\ step = "unmap"
  /\ hashmap' = [hashmap EXCEPT ![k] = IF found THEN NoEntry ELSE @]
  /\ notified' = [notified EXCEPT ![cur] = IF found THEN @ + 1 ELSE @]
  /\ step' = IF why = "EVICTED" THEN EvictNext(weightedSize, tracked) ELSE "next"
  /\ cur' = NoEntry /\ why' = "EVICTED"
  /\ UNCHANGED <<shardClosed, key, weight, expire, policyVars, clientVars,
                 writeChan, maintVars, tickVars, policyMu, now, closed>>

\* Seeded fault: the listener is called whether or not the map had the entry.
UnmapNotifies ==
  LET k == key[cur]
      found == index[k] \notin shardClosed /\ hashmap[k] = cur
  IN
  /\ step = "unmap"
  /\ hashmap' = [hashmap EXCEPT ![k] = IF found THEN NoEntry ELSE @]
  /\ notified' = [notified EXCEPT ![cur] = @ + 1]
  /\ step' = IF why = "EVICTED" THEN EvictNext(weightedSize, tracked) ELSE "next"
  /\ cur' = NoEntry /\ why' = "EVICTED"
  /\ UNCHANGED <<shardClosed, key, weight, expire, policyVars, clientVars,
                 writeChan, maintVars, tickVars, policyMu, now, closed>>

\* shard.delete(entry) and the listener call it decides on.
Unmap ==
  LET k == key[cur]
      found == index[k] \notin shardClosed /\ hashmap[k] = cur
  IN
  /\ step = "unmap"
  /\ hashmap' = [hashmap EXCEPT ![k] = IF found THEN NoEntry ELSE @]
  /\ notified' = [notified EXCEPT ![cur] = IF found THEN @ + 1 ELSE @]
  /\ step' = IF why = "EVICTED" THEN EvictNext(weightedSize, tracked) ELSE "next"
  /\ cur' = NoEntry /\ why' = "EVICTED"
  /\ UNCHANGED <<shardClosed, key, weight, expire, policyVars, clientVars,
                 writeChan, maintVars, tickVars, policyMu, now, closed>>

\* Seeded fault: the victim is not flagged as removed.
EvictUnflagged ==
  /\ step = "evict"
  /\ \E v \in tracked :
       /\ PolicyRemove(v)
       /\ wheel' = wheel \ {v}
       /\ cur' = v
  /\ step' = "unmap" /\ why' = "EVICTED"
  /\ UNCHANGED <<mapVars, policyWeight, removed, deleted, notified, clientVars,
                 writeChan, maintVars, tickVars, policyMu, now, closed>>

\* One turn of evictFromMain: the policy drops a victim and its
\* removeCallback starts removeEntry(v, EVICTED).
Evict ==
  /\ step = "evict"
  /\ \E v \in tracked :
       /\ PolicyRemove(v)
       /\ removed' = [removed EXCEPT ![v] = TRUE]
       /\ wheel' = wheel \ {v}
       /\ cur' = v
  /\ step' = "unmap" /\ why' = "EVICTED"
  /\ UNCHANGED <<mapVars, policyWeight, deleted, notified, clientVars,
                 writeChan, maintVars, tickVars, policyMu, now, closed>>

-----------------------------------------------------------------------------
(* The maintenance goroutine: receive a batch, lock policyMu, drain it.    *)

Recv ==
  /\ mpc = "recv" /\ writeChan # << >>
  /\ writeBuffer' = << Head(writeChan) >>
  /\ writeChan' = Tail(writeChan)
  /\ mpc' = "collect"
  /\ UNCHANGED <<mapVars, policyVars, notified, clientVars, waits, tickVars,
                 policyMu, stepVars, now, closed>>

\* Seeded fault: the batch is let grow one beyond its bound.
CollectOver ==
  /\ mpc = "collect" /\ writeChan # << >> /\ Len(writeBuffer) <= WriteBufferSize
  /\ writeBuffer' = Append(writeBuffer, Head(writeChan))
  /\ writeChan' = Tail(writeChan)
  /\ UNCHANGED <<mapVars, policyVars, notified, clientVars, mpc, waits,
                 tickVars, policyMu, stepVars, now, closed>>

Collect ==
  /\ mpc = "collect" /\ writeChan # << >> /\ Len(writeBuffer) < WriteBufferSize
  /\ writeBuffer' = Append(writeBuffer, Head(writeChan))
  /\ writeChan' = Tail(writeChan)
  /\ UNCHANGED <<mapVars, policyVars, notified, clientVars, mpc, waits,
                 tickVars, policyMu, stepVars, now, closed>>

CollectDone ==
  /\ mpc = "collect"
  /\ writeChan = << >> \/ Len(writeBuffer) = WriteBufferSize
  /\ mpc' = "lock"
  /\ UNCHANGED <<mapVars, policyVars, notified, clientVars, writeChan,
                 writeBuffer, waits, tickVars, policyMu, stepVars, now, closed>>

Lock ==
  /\ mpc = "lock" /\ policyMu = "free"
  /\ policyMu' = "maint" /\ mpc' = "drain"
  /\ UNCHANGED <<mapVars, policyVars, notified, clientVars, writeChan,
                 writeBuffer, waits, tickVars, stepVars, now, closed>>

\* drainWrite is ready for its next item.
Draining == mpc = "drain" /\ step = "next" /\ writeBuffer # << >>
Item == Head(writeBuffer)
Pop == writeBuffer' = Tail(writeBuffer)

\* The tests at the head of sinkWrite that end it early.
Ignores(m) == deleted[m.entry] \/ (removed[m.entry] /\ m.code # "NEW")

\* Seeded fault: drainWrite skips the WAIT items without counting them.
SinkWaitLost ==
  /\ Draining /\ Item.code = "WAIT" /\ Pop
  /\ UNCHANGED <<mapVars, policyVars, notified, clientVars, writeChan, mpc,
                 waits, tickVars, policyMu, stepVars, now, closed>>

SinkWait ==
  /\ Draining /\ Item.code = "WAIT" /\ Pop
  /\ waits' = waits + 1
  /\ UNCHANGED <<mapVars, policyVars, notified, clientVars, writeChan, mpc,
                 tickVars, policyMu, stepVars, now, closed>>

SinkIgnored ==
  /\ Draining /\ Item.code # "WAIT" /\ Ignores(Item) /\ Pop
  /\ deleted' = [deleted EXCEPT ![Item.entry] = @ \/ Item.code = "REMOVE"]
  /\ UNCHANGED <<mapVars, policyWeight, removed, tracked, wheel, weightedSize,
                 notified, clientVars, writeChan, mpc, waits, tickVars,
                 policyMu, stepVars, now, closed>>

\* case NEW of an entry that has expired while its event was on its way.
SinkNewExpired ==
  LET e == Item.entry IN
  /\ Draining /\ Item.code = "NEW" /\ ~Ignores(Item) /\ Pop
  /\ expire[e] # 0 /\ expire[e] <= now
  /\ ExpireStart(e)
  /\ UNCHANGED <<mapVars, policyWeight, deleted, tracked, wheel, weightedSize,
                 notified, clientVars, writeChan, mpc, waits, tickVars,
                 policyMu, now, closed>>

\* case NEW: schedule, weigh, TinyLfu.Set.
SinkNew ==
  LET e == Item.entry IN
  /\ Draining /\ Item.code = "NEW" /\ ~Ignores(Item) /\ Pop
  /\ expire[e] = 0 \/ expire[e] > now
  /\ removed' = [removed EXCEPT ![e] = FALSE]
  /\ wheel' = IF expire[e] # 0 THEN wheel \cup {e} ELSE wheel
  /\ policyWeight' = [policyWeight EXCEPT ![e] = @ + Item.costChange]
  /\ weightedSize' = (weightedSize + policyWeight'[e]) % Wrap
  /\ tracked' = tracked \cup {e}
  /\ step' = EvictNext(weightedSize', tracked')
  /\ UNCHANGED <<mapVars, deleted, notified, clientVars, writeChan, mpc, waits,
                 tickVars, policyMu, cur, why, now, closed>>

\* case REMOVE: removeEntry(e, REMOVED) and its removalCallback.
SinkRemove ==
  LET e == Item.entry IN
  /\ Draining /\ Item.code = "REMOVE" /\ ~Ignores(Item) /\ Pop
  /\ deleted' = [deleted EXCEPT ![e] = TRUE]
  /\ removed' = [removed EXCEPT ![e] = TRUE]
  /\ PolicyRemove(e)
  /\ wheel' = wheel \ {e}
  /\ notified' = [notified EXCEPT ![e] = @ + 1]
  /\ UNCHANGED <<mapVars, policyWeight, clientVars, writeChan, mpc, waits,
                 tickVars, policyMu, stepVars, now, closed>>

\* TinyLfu.UpdateCost of a tracked entry whose policyWeight is now w.
UpdateCost(e, w, change) ==
  IF w > Cap
    THEN /\ tracked' = tracked \ {e}
         /\ weightedSize' = (weightedSize + change - w) % Wrap
         /\ removed' = [removed EXCEPT ![e] = TRUE]
         /\ wheel' = wheel \ {e}
         /\ step' = "unmap" /\ cur' = e
    ELSE /\ weightedSize' = (weightedSize + change) % Wrap
         /\ wheel' = IF Item.rechedule THEN wheel \cup {e} ELSE wheel
         /\ step' = EvictNext(weightedSize', tracked)
         /\ UNCHANGED <<tracked, removed, cur>>

\* case UPDATE.
SinkUpdate ==
  LET e == Item.entry
      w == policyWeight[e] + Item.costChange
  IN
  /\ Draining /\ Item.code = "UPDATE" /\ ~Ignores(Item) /\ Pop
  /\ policyWeight' = [policyWeight EXCEPT ![e] = w]
  /\ IF e \in tracked /\ Item.costChange # 0
       THEN UpdateCost(e, w, Item.costChange)
       ELSE /\ wheel' = IF Item.rechedule THEN wheel \cup {e} ELSE wheel
            /\ UNCHANGED <<tracked, weightedSize, removed, step, cur>>
  /\ UNCHANGED <<mapVars, deleted, notified, clientVars, writeChan, mpc, waits,
                 tickVars, policyMu, why, now, closed>>

DrainDone ==
  /\ mpc = "drain" /\ step = "next" /\ writeBuffer = << >>
  /\ mpc' = "wake"
  /\ UNCHANGED <<mapVars, policyVars, notified, clientVars, writeChan,
                 writeBuffer, waits, tickVars, policyMu, stepVars, now, closed>>

\* Seeded fault: a caller of Wait is let go while the batch is collected.
WakeEarly(c) ==
  /\ mpc \in {"collect", "wake"} /\ pc[c] = "wait"
  /\ waits' = IF waits > 0 THEN waits - 1 ELSE 0
  /\ pc' = [pc EXCEPT ![c] = "idle"]
  /\ UNCHANGED <<mapVars, policyVars, notified, out, writeChan, writeBuffer,
                 mpc, tickVars, policyMu, stepVars, now, closed>>

\* s.waitChan <- true: any goroutine blocked in Wait may receive it.
Wake(c) ==
  /\ mpc = "wake" /\ waits > 0 /\ pc[c] = "wait"
  /\ waits' = waits - 1
  /\ pc' = [pc EXCEPT ![c] = "idle"]
  /\ UNCHANGED <<mapVars, policyVars, notified, out, writeChan, writeBuffer,
                 mpc, tickVars, policyMu, stepVars, now, closed>>

Unlock ==
  /\ mpc = "wake" /\ waits = 0
  /\ policyMu' = "free" /\ mpc' = "recv"
  /\ UNCHANGED <<mapVars, policyVars, notified, clientVars, writeChan,
                 writeBuffer, waits, tickVars, stepVars, now, closed>>

\* <-s.ctx.Done() is chosen: also when writeChan has items.
MaintExit ==
  /\ mpc = "recv" /\ closed
  /\ mpc' = "exited"
  /\ UNCHANGED <<mapVars, policyVars, notified, clientVars, writeChan,
                 writeBuffer, waits, tickVars, policyMu, stepVars, now, closed>>

-----------------------------------------------------------------------------
(* The ticker goroutine.                                                   *)

Tick ==
  /\ tpc = "run" /\ policyMu = "free" /\ ~closed /\ wheel # {}
  /\ policyMu' = "tick" /\ nanos' = now
  /\ UNCHANGED <<mapVars, policyVars, notified, clientVars, writeChan,
                 maintVars, tpc, stepVars, now, closed>>

\* expire() reaches an entry whose time has come.  One whose time has not come
\* is scheduled again, which leaves the set of scheduled entries as it is.
TickExpire ==
  /\ policyMu = "tick" /\ step = "next"
  /\ \E e \in wheel : /\ expire[e] <= nanos
                      /\ wheel' = wheel \ {e}
                      /\ ExpireStart(e)
  /\ UNCHANGED <<mapVars, policyWeight, deleted, tracked, weightedSize,
                 notified, clientVars, writeChan, maintVars, tickVars,
                 policyMu, now, closed>>

TickDone ==
  /\ policyMu = "tick" /\ step = "next"
  /\ policyMu' = "free" /\ nanos' = 0
  /\ UNCHANGED <<mapVars, policyVars, notified, clientVars, writeChan,
                 maintVars, tpc, stepVars, now, closed>>

TickExit ==
  /\ tpc = "run" /\ closed /\ policyMu # "tick"
  /\ tpc' = "exited"
  /\ UNCHANGED <<mapVars, policyVars, notified, clientVars, writeChan,
                 maintVars, nanos, policyMu, stepVars, now, closed>>

Elapse ==
  /\ now < MaxTime
  /\ now' = now + 1
  /\ UNCHANGED <<mapVars, policyVars, notified, clientVars, writeChan,
                 maintVars, tickVars, policyMu, stepVars, closed>>

-----------------------------------------------------------------------------
Calls(c) ==
  \/ \E k \in Key, cost \in Cost, ttl \in TTL, t \in 0..now :
        (ttl = 0 => t = now) /\ Set(c, k, cost, ttl, t)
  \/ \E k \in Key : Delete(c, k) \/ Get(c, k)
  \/ Wait(c)

Removal == ExpireSkip \/ ExpireCheck \/ Unmap \/ Evict

Sink == SinkWait \/ SinkIgnored \/ SinkNewExpired \/ SinkNew \/ SinkRemove
          \/ SinkUpdate

Maintenance == Recv \/ Collect \/ CollectDone \/ Lock \/ Sink \/ DrainDone
                 \/ Unlock \/ MaintExit

Ticker == Tick \/ TickExpire \/ TickDone \/ TickExit

Next ==
  \/ \E c \in Client : Calls(c) \/ Send(c) \/ Wake(c)
  \/ \E s \in Shard : CloseShard(s)
  \/ Close \/ Maintenance \/ Removal \/ Ticker \/ Elapse

Spec == Init /\ [][Next]_vars

(***************************************************************************)
(* Fairness.  The two goroutines of maintenance() run.  A goroutine that   *)
(* sends to or receives from a Go channel waits in a FIFO queue, and       *)
(* sync.Mutex hands itself over to a waiter it has starved, so what keeps  *)
(* coming round for a waiter is taken by it in the end (strong fairness).  *)
(* Callers need not call, and nothing makes Close happen.                  *)
(***************************************************************************)
Fairness ==
  /\ WF_vars(Maintenance) /\ SF_vars(Lock)
  /\ WF_vars(Removal)
  /\ WF_vars(TickExpire \/ TickDone)
  /\ \A c \in Client : SF_vars(Send(c)) /\ SF_vars(Wake(c))

FairSpec == Spec /\ Fairness
-----------------------------------------------------------------------------
(* Correctness.                                                            *)

TypeOK ==
  /\ hashmap \in [Key -> Entry \cup {NoEntry}]
  /\ shardClosed \subseteq Shard
  /\ key \in [Entry -> Key \cup {NoKey}]
  /\ weight \in [Entry -> Nat] /\ expire \in [Entry -> Nat]
  /\ policyWeight \in [Entry -> Int]
  /\ removed \in [Entry -> BOOLEAN] /\ deleted \in [Entry -> BOOLEAN]
  /\ tracked \subseteq Entry /\ wheel \subseteq Entry
  /\ weightedSize \in 0..(Wrap - 1)
  /\ notified \in [Entry -> Nat]
  /\ pc \in [Client -> {"idle", "send", "wait"}]
  /\ out \in [Client -> Event]
  /\ writeChan \in Seq(Event) /\ Len(writeChan) <= WriteChanSize
  /\ writeBuffer \in Seq(Event) /\ Len(writeBuffer) <= WriteBufferSize
  /\ mpc \in {"recv", "collect", "lock", "drain", "wake", "exited"}
  /\ waits \in Nat
  /\ tpc \in {"run", "exited"}
  /\ nanos \in Nat /\ now \in Nat
  /\ policyMu \in {"free", "maint", "tick"}
  /\ step \in {"next", "check", "unmap", "evict"}
  /\ cur \in Entry \cup {NoEntry}
  /\ why \in {"EVICTED", "EXPIRED"}
  /\ closed \in BOOLEAN

PolicyTotal == MapThenSumSet(LAMBDA e : policyWeight[e], tracked)

\* The cost changes of entry e that are still on their way to the policy.
PendingChange(e) ==
  LET of(m) == IF m.entry = e THEN m.costChange ELSE 0 IN
  MapThenSumSet(LAMBDA c : IF pc[c] = "send" THEN of(out[c]) ELSE 0, Client)
  + MapThenSumSet(LAMBDA i : of(writeChan[i]), 1..Len(writeChan))
  + MapThenSumSet(LAMBDA i : of(writeBuffer[i]), 1..Len(writeBuffer))

\* The policy's running size is the sum of the policy weights of the entries
\* in its lists, whatever the order in which creations, updates, deletions and
\* evictions reach it (TinyLfu.weightedSize; the tests compare the two).
WeightInSync == weightedSize = PolicyTotal % Wrap

\* Whenever policyMu is released the policy is within the capacity.  Claimed as
\* long as no policy weight is below zero: updates of one entry that overtake
\* each other can bring one there, and weightedSize then wraps round.
SizeBounded == policyMu = "free" => weightedSize <= Cap

\* No cost change is lost or applied twice: the weight a caller gave an entry
\* is its policy weight plus the changes still on their way.
CostConserved ==
  \A e \in Entry : Mapped(e) /\ ~removed[e] =>
                     weight[e] = policyWeight[e] + PendingChange(e)

\* Every entry in a map is in the policy, or its NEW event is on its way:
\* nothing the policy does not know of can take up room for ever.
NoOrphan ==
  \A e \in Entry : Mapped(e) /\ ~removed[e] => e \in tracked \/ Pending(e, "NEW")

\* Every entry in the policy is in its map, or the event that will take it out
\* of the policy is on its way.
NoZombie ==
  \A e \in tracked : ~removed[e] /\ ~Mapped(e) /\ index[key[e]] \notin shardClosed
                       => Pending(e, "REMOVE")

\* The removal listener is called at most once for an entry, and never for
\* one that callers can still read, though deletion by a caller races with
\* eviction and with expiry.
ListenerAtMostOnce ==
  \A e \in Entry : notified[e] <= 1 /\ (Mapped(e) => notified[e] = 0)

\* The listener is called for every entry that has left the cache for good.
ListenerCalled ==
  \A e \in Entry : key[e] # NoKey /\ ~Referenced(e) /\ shardClosed = {}
                     => notified[e] = 1

\* Wait returns only once its own event has been drained, and with it all that
\* was sent before.
WaitDrained ==
  \A c \in Waiter : pc[c] = "idle" =>
    /\ \A i \in 1..Len(writeChan) : writeChan[i] # WaitItem(c)
    /\ \A i \in 1..Len(writeBuffer) : writeBuffer[i] # WaitItem(c)

\* A closed shard stays empty: a Set that races with Close does not bring an
\* entry back, so that Get misses for ever after.
ClosedEmpty == \A k \in Key : index[k] \in shardClosed => hashmap[k] = NoEntry

\* Expiry undoes no Set that the policy knows of: an entry that is taken out of
\* the map as expired while its deadline is still to come was given that
\* deadline by a Set whose UPDATE event is yet on its way.
EarlyExpiry ==
  step = "unmap" /\ why = "EXPIRED" /\ Mapped(cur) /\ expire[cur] > now
    => Pending(cur, "UPDATE")

\* Every Set, Delete and Wait returns, though writeChan fills up and the
\* ticker takes policyMu, unless the cache is closed meanwhile.
OperationsReturn ==
  \A c \in Client : pc[c] # "idle" ~> pc[c] = "idle" \/ closed
=============================================================================
