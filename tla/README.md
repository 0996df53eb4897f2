# A TLA+ model of theine-go

theine-go is an in-process cache. Callers change sharded hash maps at once; a
W-TinyLFU policy, a timer wheel and the removal listener follow later, driven by
events. This directory holds a model of that machinery, the TLC configurations
that check it on small instances and the TLAPS proofs of what holds for every
instance. Paths such as `internal/store.go` are relative to `src/`.

## 1. The system

### Components, their state and their operations

| Component | State | Operations | Modelled in |
|---|---|---|---|
| Store (`internal/store.go`, `entry.go`) | a hash map, doorkeeper and `closed` flag per shard; entries with key, weight, deadline, policy weight, flags; `writeChan`, `writeBuffer`, `waitChan`; `policyMu` | `Set`, `Get`, `Delete`, `Wait`, `Close`, `drainWrite`/`sinkWrite`, `removeEntry`, the two goroutines of `maintenance` | `Store` |
| Shard mutex (`rbmutex.go`) | reader slots, a bias flag, an inner `sync.RWMutex` | `RLock`, `TryRLock`, `RUnlock`, `Lock`, `TryLock`, `Unlock` | `RBMutex`, `RWLock` |
| Policy (`tlfu.go`, `slru.go`, `list.go`, `policy_flag.go`) | window, probation and protected lists with running weights, their capacities, `weightedSize` | `Set`, `Access`, `Remove`, `UpdateCost`, the hill climber, `EvictEntries` | `TinyLfu`, `Policy` |
| Read buffer (`buffer.go`) | per stripe a ring, `head`, `tail`, one reusable batch | `Add`, `Free`, and `Store.drainRead` | `ReadBuffer` |
| Singleflight (`singleflight.go`) | the calls in flight per key, pooled call records | `Do`, `doCall` | `Singleflight` |
| Timer wheel (`timerwheel.go`) | buckets on five levels, the time of the last advance | `schedule`, `deschedule`, `advance` | `TimerWheel`; a set in `Store` |
| Loading store (`store.go:1144`) | a loader | `Get` through singleflight, loading under the shard lock | `Hybrid`; the flight in `Singleflight` |
| Hybrid store (`store.go`, `secondary_cache.go`) | a secondary cache, its queue and workers | `GetWithSecodary`, `DeleteWithSecondary`, `removeEntry` (to the queue), `processSecondary` | `Hybrid` |
| Count-min sketch (`sketch.go`) | 4-bit counters in words, `Additions`, `SampleSize` | `Add`, `Addn`, `Estimate`, `reset`, `EnsureCapacity` | `Admission`; the words in `SketchWords` |
| Doorkeeper (`bf/bf.go`, the shard's `dookeeper`) | bits, a capacity, the shard's counter | `Insert`, `Exist`, `Reset`, growth with the map | `Admission` |
| Persistence (`persistence.go`, `store.go:854`) | blocks of entries in a file | `Persist`, `Recover` | `Persistence` |
| Clock (`clock/clock.go`) | start, a cached reading | `NowNano`, `NowNanoCached`, `RefreshNowCache`, `ExpireNano`, `SetStart` | `Persistence`; a counter in `Store`, `Hybrid`, `TimerWheel` |
| Public API (`cache.go`) | | the methods of the four caches | the calls of `Store`, `Hybrid`, `Persistence` |
| Counters, statistics, hasher, builder, runtime helpers, `run/main.go` | | | not modelled (section 8) |

### How they interact

A `Set` or `Delete` changes its shard's map under the shard mutex, lets go of it
and sends a `NEW`, `UPDATE` or `REMOVE` event over the bounded `writeChan`. The
maintenance goroutine collects events into a batch and applies it under
`policyMu`: it schedules timers, tells the policy, evicts. An eviction or an
expiry goes back to the map under the shard mutex, and if the entry was still
there calls the removal listener. A ticker goroutine takes `policyMu` once a
second and advances the wheel. A `Get` that hits adds the entry to a lossy ring;
the `Get` that fills the ring takes `policyMu` and tells the policy. Loads of one
key are shared through singleflight.

In a hybrid cache an evicted entry leaves the policy and stays in the map; it is
queued, and a worker saves it in the secondary cache and then unmaps it. A `Get`
that misses brings a key back from there. Every access also counts in the sketch,
which the policy asks who is worth keeping; a first `Set` of a key only leaves its
mark in the doorkeeper. `SaveCache` writes the policy's lists under `policyMu`,
with each entry's frequency and deadline; `LoadCache` puts them into a new store
and moves its clock back to the old start.

### What is hard here, and what makes each part correct

* The map and the policy are two views of one cache, kept in step only by events
  that overtake each other. Correct: no cost change, entry or listener call is
  lost or counted twice in any order; the cache stays within its capacity.
* Removal has three starters (caller, eviction, expiry). Correct: one listener
  call per entry.
* Everyone waits on channels and on `policyMu`. Correct: operations return.
* The mutex has two reader paths and a scan. Correct: it is a read/write lock.
* The policy's loops walk linked lists they are changing. Correct: they stay on
  the lists and end, and the running sums match.
* The ring is lossy by design. Correct: nothing is delivered twice, the batch has
  one owner, a full ring is emptied again.
* Call records are pooled while late duplicates read them. Correct: each caller
  gets the outcome of its own flight.
* A timer may be put anywhere on five levels while the clock jumps. Correct: no
  deadline is missed by more than a tick.
* An evicted entry of a hybrid cache is in no list and still in the map, while
  workers, loads, deletions and failing calls have to do with it. Correct: the
  policy knows it once and only once, and deleted values stay deleted.
* Counters are shared, saturate, are halved and thrown away when the table grows.
  Correct: a key is never counted short, and ageing goes on for ever.
* A file is written while map and policy disagree, and read later, in part, into
  a store of another size with another clock. Correct: what comes back is in one
  piece, in order, and dies at its own deadline.

`PROJECT.json` lists these hazards one by one, at the line where they bite, with
the properties aimed at them.

## 2. The modules

Each module says at its head what it abstracts. `PROJECT.json`'s `map` gives the
lines behind every definition. Definitions introduced by *Seeded fault* are not
part of any specification: each is a plausible bug that, put in place of the
definition after it, must make a property fail.

**Store.** A region under a shard mutex is one step, which `RBMutex` justifies.
Work under `policyMu` is cut wherever callers can interleave with it: at reads of
an entry's atomic deadline and at shard locks. So `removeEntry` is `ExpireStart`
(flag set, timer gone), `ExpireCheck`/`ExpireSkip` (the deadline is read),
`Unmap` (the shard lock). Callers are `Set`, `Delete`, `Get`, `Wait` and then
`Send`, which is where they block. The maintenance goroutine is `Recv`, `Collect`,
`CollectDone`, `Lock`, one `Sink...` per event, `DrainDone`, `Wake`, `Unlock`;
the ticker is `Tick`, `TickExpire`, `TickDone`. The policy is the set of tracked
entries with their weights; its victim is any of them, so what holds here holds
for every replacement strategy. Entries are reused once nothing refers to them,
as the garbage collector would have it.

**RBMutex** has one action per atomic operation. `RWLock` is the lock its users
see; `ImplementsRWLock` is the refinement.

**TinyLfu** has one action per turn of a loop. The lists are sequences, the
running `len` fields are kept beside them because drift between the two is the
hazard. Frequencies are left open: admission may go either way. `Policy` is what
`Store` assumes; `ImplementsPolicy` is the refinement.

**ReadBuffer** has one action per atomic operation of `Add` on one stripe.
Stripes share nothing.

**Hybrid** is one shard of the three caches that load. A section under the shard's
write lock is one step, and waits while a worker is inside the secondary cache's
`Set`, which it calls under the read lock. `Miss`, `Enter` and `Load` are a `Get`:
the lookup, `Do` (leading or joining), and what the leader's function does. `Evict`
is the hybrid branch of `removeEntry`; a worker is `Receive`, `Check`, `Save`,
`RemoveSaved`. Write events are a set, applied in any order, as if each caller
were a goroutine of its own. The secondary cache is a map whose calls may fail.
The chain it shares with `Store` (deadline re-read, `deleted` and `removed`
flags, `Unmap`) is there too; costs are not.

**Admission** is the sketch and the doorkeeper. Counters are kept apart; hash
functions, rows, sizes and the sample factor are constants. `count` and `seen` are
ghosts: an exact counter per key that saturates and is halved like the real ones,
and the keys inserted since the filter was cleared. `SketchStep` and `DoorStep`
are all the ways the code may use them, `AdmissionSpec` the specification. The
code's packed words are in **SketchWords**, compared with separate counters for
all 256 words of two counters by an assumption TLC evaluates.

**Persistence** extends `Admission`: a store is used, saved, and read by a later
process. Map and lists are kept apart, with the events between them. `Persist` is
one step (it holds `policyMu` and every shard's read lock until it returns) and
writes blocks; time passes, and `Restart` chooses the new sizes and how many
blocks are readable; `Recover` is one step per entry. `due` is a ghost: an
entry's deadline in real time, against which the deadlines that `clock.go` counts
from its start are judged. Which entry the policy moves or evicts is left open.

**Singleflight** keeps `wg.Done` and the deletion from the map as two steps,
since duplicates wake up between them. The loader returns a value, an error,
panics or calls `Goexit`.

**TimerWheel** has any number of levels, each spanning what one bucket of the
next one covers, as in the code (`Spans[i+1] = Spans[i] * Buckets[i]`). A caller
may store a deadline at any moment of an advance.

## 3. What is checked

| Run | Bounds | What it shows |
|---|---|---|
| `store_cost` | 2 keys, 2 callers, 2 live entries, costs 1 and 2, capacity 2, channel 1, batch 2, doorkeeper on | `TypeOK`; no order of events loses or doubles a cost (`WeightInSync`, `CostConserved`), lets the cache outgrow its capacity (`SizeBounded`), leaves an entry in only one of map and policy (`NoOrphan`, `NoZombie`) or calls the listener twice (`ListenerAtMostOnce`) |
| `store_live` | 1 key, 2 callers of which one calls `Wait`, with and without deadline, one clock step, `Close` at any time, fairness | while the ticker, late events, deletions and `Close` race: `Wait` waits for its own event (`WaitDrained`), a closed shard stays empty (`ClosedEmpty`), no expiry strands an entry (`NoOrphan`) or takes back a `Set` the policy knows of (`EarlyExpiry`), and calls return (`OperationsReturn`) |
| `rbmutex` | 3 goroutines, 2 slots, fairness | `Exclusion`, `ImplementsRWLock`, `WriterServed`, `ReaderServed` |
| `tinylfu` | 3 entries, weights 0, 1, 2, 4, capacity 3, fairness | `ListsInSync`, `WalkOnLists`, `SegmentsPositive`, `ImplementsPolicy`, `OperationEnds` |
| `read_buffer` | 3 goroutines, capacity 2, 6 places given | `OneOwner`, `RangeStable`, `AtMostOnce` |
| `singleflight` | 3 goroutines, 2 keys, 2 records | `OneFlight`, `SameResult`, `PoolClean`, `LeaderOnItsWay` |
| `timer_wheel` | 2 entries, 3 levels of 2, 2 and 1 buckets, times to 10 | `OnTime` |
| `hybrid` | the three flavours, 1 key, 2 `Get`s, 2 workers, 2 entries, 2 values, queue of 1, one clock step | an entry is announced, listed, queued or saved in one place at a time (`KnownOnce`) and, while mapped, in one at least unless a call failed (`NoStrays`); a `Delete` that found its key is not undone by a worker (`DeletedGone`); `TypeOK` |
| `persistence` | 3 keys, 3 entries, 5 `Set`s, 1 `Delete`, 1 access, times to 3, blocks of 2 entries, 2 size configurations, one row of counters to 3, halved after 2 additions per word | what fits and lives comes back in order with its deadline and at least its frequency (`RoundTrip`), a loaded store is in one piece (`Consistent`), no `Get` returns what is past its deadline (`ReadsFresh`); the sketch never counts short (`EstimateCovers`) nor stops ageing (`SampleBounded`), the doorkeeper forgets no key (`NoFalseNegative`), and both filters are used only as specified (`FiltersInStep`) |

Why these bounds are enough to matter. Two callers are the least that reorder the
events of one entry, and a channel of 1 blocks the second of them. Two live
entries let a key be deleted and set again while the old entry is still being
removed. A weight above the capacity, a weight of 0 and two equal ones reach every
branch of the eviction loop. In the ring of 2, six places let it be filled and
emptied three times, so a goroutine may be two rounds late. Three goroutines are a
leader, a late duplicate and the leader of the next flight that may get the same
record. The wheel's clock passes its longest span, so deadlines fall back from the
last level and wrap round the first. In `Hybrid`, two `Get`s are a leader and one
that joins, two workers may hold two entries of the same key, and two entries let
a key be loaded again while the evicted entry is still queued; a queue of one is
full. In `Persistence`, key 1 costs two and has a deadline, keys 2 and 3 share a
counter, blocks of two entries make a list span two blocks of which the second may
be damaged, five `Set`s, an access and the restored frequencies make counters be
halved, and three entries make table and filter grow. Of two configurations of
segment sizes, either may be read by a store of the other.

`MaxTail`, `MaxTime`, `MaxLive`, `MaxEntries`, `MaxValues`, `MaxSets`,
`MaxDeletes` and `MaxAccesses` are the only bounds on behaviour; the other
constants are sizes. `MaxInt` (9) stands for the largest `int64`.

`CHECK_DEADLOCK FALSE` appears where behaviours may end: a closed cache stops
(`store_live`), and in `hybrid` and `persistence` values and calls run out, the
entries are not used again, and a loaded store is where the story ends.

### Fairness

* `Store`: the two maintenance goroutines run. Sending and receiving on Go
  channels is first come first served and `sync.Mutex` hands itself to a starved
  waiter, hence strong fairness for `Send`, `Wake` and `Lock`. Callers need not
  call and nothing makes `Close` happen.
* `RBMutex`: a goroutine that holds or acquires the mutex runs; a blocked
  `sync.RWMutex` operation is served in the end (the documented property that a
  waiting writer holds up later readers).
* `TinyLfu`: the goroutine in the policy runs; it holds `policyMu` and waits for
  nobody.
* `ReadBuffer` (for `read_buffer_wedged`): `Get`s go on and keep coming. The
  counterexample is therefore not one where nobody reads any more.

## 4. Where the code differs from what it says

| Run | What it shows |
|---|---|
| `store_listener_lost` | `Delete` takes the entry out of the map between the policy's removal of it and `shard.delete`. `shard.delete` finds nothing and the `REMOVE` event is ignored because of the `removed` flag (`store.go:657`): no listener call, against `builder.go:85`. |
| `read_buffer_wedged` | If a stripe's ring fills again before `Free` has returned the batch, the `Add` that filled it gives up (`buffer.go:102`) and no later one can: the stripe stays full and its accesses never reach the policy. |
| `hybrid_delete` | `DeleteWithSecondary` asks the secondary cache only if it found the key in memory (`store.go:507`): after an eviction, or when a `Delete` that failed is tried again, it returns nil and the next `Get` brings the value back, against `cache.go:187` ("Delete deletes key from cache."). |

### Known limits the model shows without a run

* With two concurrent callers of `Wait`, one may take the signal of the other
  (`store.go:722`) and return early: `WaitDrained` is claimed for one.
* A `Set` that extends a deadline between the check at `store.go:566` and the
  shard lock at `store.go:598` is undone as an expiry; one just before the check
  leaves the entry flagged `removed` and without a timer, and the `UPDATE` that
  would reschedule it is ignored.
* For the same reason `NoZombie` and `CostConserved` are claimed without
  deadlines only: an `UPDATE` that overtakes its `NEW` puts an entry into the
  wheel before the policy knows it, and an expiry then leaves weights behind that
  the late `NEW` adds to.
* Two cost changes of one entry applied in the other order pass through a weight
  nobody gave it, and `UpdateCost` (`store.go:704`) may evict from a cache that
  is not full, which the comment at `store.go:365` does not expect.
* That weight may even be below zero (1 to 3 and back to 1, the second change
  first, is 1 - 2 = -1). If the other entries are then deleted, the sum is below
  zero and the unsigned `weightedSize` wraps round: the policy takes itself to be
  over its capacity until the late event arrives. `SizeBounded` is therefore
  claimed while no listed weight is below zero. In `store_cost` none can be: with
  costs 1 and 2 and two callers, one change at a time overtakes another.
* `maintenance` returns on `ctx.Done()` (`store.go:755`): an operation between
  its map update and its send stays blocked once the channel is full.
  `OperationsReturn` is claimed for a cache that stays open.
* `GetWithSecodary` takes a deadline of 0 from the secondary cache as past
  (`store.go:330`), so a value without one is never found there.
  `LoadingStore.Get` does not look at the deadline at all.
* Neither looks at the map again inside the flight: a `Set` in between is
  overwritten by the older value.
* `LoadingStore.Get` stores what it loaded as if it came from the secondary cache
  (`store.go:1208`), and nothing takes the flag `fromNVM` back when a later `Set`
  gives the entry a new value: such entries are evicted without being saved.
* A failing `Set` of the secondary cache leaves the entry mapped and unknown to
  the policy; a failing `Delete` leaves an unmapped one in its lists. `NoStrays`
  names the first as its exception.
* A worker saves a value, lets go of the read lock and unmaps the entry; a `Set`
  of the same entry in between is lost.
* `Persist` writes what the policy lists. A key whose `REMOVE` event is still
  under way comes back; if it has been set again it may be saved twice, and then
  one of the two loaded entries is listed and not mapped (the exception in
  `Consistent`).
* After `LoadCache` the cached clock is that of the old start until the next
  tick; `ReadsFresh` is claimed from then on. A loaded store may be over its
  capacity until its next `Set`.
* A damaged block ends `Recover` with an error and leaves in the cache what came
  before it: in one piece, says `Consistent`.

## 5. What is proved

TLAPS checks the proofs for all values of the constants that satisfy the named
assumptions (any keys, shards, callers, slots, capacities, bounds). Every safety
invariant the passing runs check is stated by a theorem, and so are the two
refinements and `FiltersInStep`.

**StoreProofs.**

* `TypeCorrect` (`TypeOK`) and `ListenerOnce` (`ListenerAtMostOnce`), with
  `Close`, deadlines and the doorkeeper. "At most once" is not inductive: a second
  call could come from an event still in the channel. The invariant adds that a
  key's map slot holds an entry of that key (`MapsOwnKey`), that events, the entry
  under removal and the policy's entries are ones that were made (`EventsMade`,
  `CurMade`, `PolicyMade`), that a mapped entry has been neither announced nor
  deleted (`MappedSilent`), and that the entry of a `REMOVE` event under way is
  unmapped and, unless its `deleted` flag will make the event be ignored,
  unannounced (`RemoveOnce`).
* `NothingOrphaned` (`NoOrphan`) and `ClosedForGood` (`ClosedEmpty`). Sending,
  receiving and collecting lose no event and draining takes away one (the
  `...Keeps` lemmas, which need that the write buffer is empty between batches,
  `BatchDone`); the entry under removal is flagged (`CurRemoved`).
* `SizeInSync` (`WeightInSync`). The NEW event of an entry is in one place, and
  while it is there the policy does not have the entry (`NewOnce`): otherwise its
  weight would be added twice. What `MapThenSumSet` returns is proved without
  induction: if it went wrong for some set it would for a smallest one
  (`Smallest`), and that leads to a contradiction.
* `WithinCapacity` (`SizeBounded`) holds for behaviours in which no listed weight
  is below zero (`WeightsSound`); section 4 says why this is needed. While
  somebody holds `policyMu` the size may be over only where an eviction follows
  (`OverIsEvicting`, `HoldsPolicyMu`). `WithinCapacitySameCost` needs no such
  hypothesis on behaviours: when all costs are the same, the builder's default, no
  event lowers a weight (`RaisesOnly`). Nor does it assume that the sum fits its
  type. A NEW event is the first thing that weighs its entry (`NewUnweighed`), and
  it does so only when the policy is within its capacity, so the sum is at most
  twice that, and `2 * Cap < Wrap` is true of an `int64` `MaxSize`.
* `CostsConserved` (`CostConserved`) and `NoneUndead` (`NoZombie`), for caches
  without deadlines, as the properties are claimed. What is under way for an entry
  is the sum over callers, channel and batch; each channel operation moves a term
  from one sum to the next (`PendingPost`, `PendingSend`, `PendingRecv`,
  `PendingPop`). `FlaggedByDelete` says that an entry whose NEW event is under way
  is flagged only by its deletion, so that draining a NEW event un-flags nothing.
* `WaitsForItsOwn` (`WaitDrained`), for one caller of `Wait`: its event is in the
  channel, in the batch or counted, in one of these places, and only while the
  caller waits (`Awaited`).
* `ExpiryUndoesNoKnownSet` (`EarlyExpiry`).

**RBMutexProofs.** `MutualExclusion` and `Refinement` (the mutex implements
`RWLock`). The invariant says that a slot counts exactly the readers in it
(`SlotsCount`), who holds the inner lock (`WriterHoldsRW`, `ReadersHoldRW`,
`WriterAlone`), that the bias is off from scan to unlock (`BiasOff`), and, the
heart of it, that with the bias off a fast reader that will not look again can
only be in a slot the scan has not yet passed (`FastOnlyBeforeScan`).

**TinyLfuProofs.** `LensExact` (`ListsInSync`), `WalkStaysListed` (`WalkOnLists`),
`ClimberKeepsSegments` (`SegmentsPositive`), and `EvictsForRoom`: the policy
implements `Policy`. Every action moves an entry between lists, drops one, takes
one in or changes a weight, and each of these keeps lists, lens and `weightedSize`
in step (`Sound`). `Ops` says where an operation stands, `Segments` that what the
climber has not moved yet can be given back, and `Walk` that the victim is the
last of its list and the lists searched before it are empty. Hence the loop that
ends for want of a victim has nothing left, an operation starts from entries that
fit (`Fits`), and every step maps to a step of `Policy` or to a stutter. That
`weightedSize` never wraps round (`NoWrap`) is part of the same induction: a
weight is added or changed only where the entries fit, so they weigh at most the
capacity and that one weight. The theorem asks that these two stay below 2^64,
which an `int64` cost and an `int64` capacity do.

**ReadBufferProofs.** `BatchOwned` (`OneOwner`), `RingStable` (`RangeStable`),
`DeliveredOnce` (`AtMostOnce`), `BufferTyped` (`TypeOK`). A goroutine's copies of
`head` and `tail` are never ahead of them (`CopiesOld`), while the ring is full at
most one goroutine believes it filled it, with the present `head` (`FillerAlone`),
and the batch grows no faster than the loop (`BatchFits`). For `AtMostOnce`, an
item that was given a place is with the goroutine that has yet to publish it, in
the ring, with the one that empties it, or delivered, and in one of these only
(`Placed`, `Unpublished`, `Moved`).

**SingleflightProofs.** `FlightsApart` (`OneFlight`), `OwnResult` (`SameResult`),
`PooledClean` (`PoolClean`), `NoDuplicateStranded` (`LeaderOnItsWay`). Reference
counting: `dups` is never less than the number of goroutines that rely on a
record (`Counted`), so one that is led again has no reader left, and what `fn`
wrote stays as long as anybody has yet to read it (`Kept`).

**TimerWheelProofs.** `NoDeadlineMissed` (`OnTime`). An entry hangs in the slot of
some tick that is still to come, or on the first level has just begun (`DueAt`).
When it comes, `advance` reaches the slot, because it walks every tick since the
last time or the whole turn; and where no tick of a level has passed, none of a
higher level has, since a level's tick is a turn of the level below.

**HybridProofs.** `TypeCorrect` (`TypeOK`), `OnePlace` (`KnownOnce`),
`NothingStrays` (`NoStrays`), `NotSavedAgain` (`DeletedGone`). An entry gets key
and NEW event together (`Made`); from there its one place moves on, and whatever
drops it finds it unmapped, busy or failed (`Placed`, `Mapped`). A worker that
saves holds the read lock, so what it found mapped stays so (`Savings`).

**PersistenceProofs.** First the filters on their own, from `AdmissionSpec`:
`NeverUnderestimates` (`EstimateCovers`), `KeepsAgeing` (`SampleBounded`),
`DoorRemembers` (`NoFalseNegative`) and `AdmissionTyped`. That the minimum over a
key's counters covers it is not inductive; that each of them does
(`CountersCover`) is, since `Add` raises all of a key's counters and halving is
monotone. `SampleBounded` needs that `reset` does not take away more than
`Additions` holds: it subtracts a quarter of the odd counters, and `OddBounded`
bounds those by the size of the table. This is where the code's constants matter,
as the assumption `Nibbles <= Rows * Factor` (16 <= 4 * 10). The bits of an
inserted key stay set until the filter is cleared, and growing clears it.

Then the store, from `Persistence`'s `Spec`:

* `FiltersImplemented` (`FiltersInStep`): every step of the store is a step of the
  filters or leaves them alone; hence `StoreFilters`, the three results above for
  a store that is used, saved and loaded.
* `GetFresh` (`ReadsFresh`). The deadline an entry keeps is its true one, counted
  from the clock's start and capped at the largest `int64` (`AllTimed`), also in
  the file and so across a restart, and the cached time is behind by less than
  `Grace` (`Ticking`). An entry that passes `getFromShard`'s test on the cached
  time is then not past its deadline.
* `LoadedWhole` (`Consistent`). After each entry that `Recover` puts in, what is
  mapped is listed under its own key, and the wheel and the sum of weights agree
  with the lists (`Whole`). The live store is under no such obligation, which is
  why `Quiet` says that a restart begins with an empty one.
* `RestoresAll` (`RoundTrip`). `Layout` says where the blocks of each list begin
  in the file and what they hold, so that a position in the file is a number of
  entries of each list already passed (`Passed`). `Faithful` says what `Recover`
  has made of those: the ones in time, in order, as long as there was room, each
  with its cost, deadline and at least its frequency (`Restored`). `Addn`, with
  which a later entry's frequency is restored, lowers no estimate (`AddnRaises`):
  unlike `Add` it never halves the table.
* `StoreTyped`: types, disjoint lists, the layout of the file.

`Kept`, which filters a sequence, is a recursive function. What it returns is
proved without an induction theorem: a claim about its first `n` elements that
failed would fail for a least `n` (`Least`), and the step to it is the
definition's. Sums are treated in the same way over subsets.

Assumptions are on constants only and are evaluated by TLC in the runs: sizes are
natural numbers and at least 1 where the code makes them so, costs lie within the
capacity in `Store` (`Set` refuses others) and are natural numbers in `TinyLfu`,
goroutines and entries are finite sets, and markers such as `None` are no keys or
entries. In `Persistence` the clock stays below the largest `int64`
(`MaxTime <= MaxInt`), costs are natural numbers, and the numbers of entries that
the filters may be asked to hold (`Wanted`) include every number of keys and
entries there can be.

Only model-checked: the liveness properties (`OperationsReturn`, `WriterServed`,
`ReaderServed`, `OperationEnds`), which are out of the prover's reach, and the
packed words of `SketchWords`, which need bitwise operators the prover does not
know.

## 6. Plan

Modelling is as far as the code suggests, and what the runs claim of safety is
proved. What could still be said is what remains of `ListsInSync` in `TinyLfu`
when two overtaking updates give an entry a negative weight.

## 7. Running it

`tlc -config StoreCost.cfg StoreMC` and so on for each line of `runs` in
`PROJECT.json`; `tlapm StoreProofs.tla` and so on for each `...Proofs` module. The
longest runs take one to two minutes on two cores, the longest proofs
(`StoreProofs` and `PersistenceProofs`) a few minutes each.

## 8. What is not modelled, and why

* `Range`, `Len`, `EstimatedSize`, `Stats`, `DebugInfo`: they only read.
* The entry pool: off by default, and its race is documented at `builder.go:78`.
* Statistics and striped counters: nothing but the climber's sample depends on
  them, and `TinyLfu` lets the climber move by any amount.
* The hasher: a function of the key, `Store`'s constant `index` and the hash
  constants of `Admission`.
* The builder: it checks options and passes them on, and keeps no state.
* Linked-list pointers: `TinyLfu` and `Persistence` keep sequences, `TimerWheel`
  sets.
* `Recover` while the new store is already in use: it takes no shard lock, and
  the repository's README asks for `LoadCache` right after the cache is made
  (`README.md:159`).
* Encoding of persisted blocks: library code. Cache-line padding, random numbers
  and the benchmark driver: no behaviour of the cache depends on them.
* What a user's listener, loader, cost function or secondary cache does beyond
  returning or failing. A listener that calls `Set` can block the goroutine that
  drains the channel it sends to.
