---------------------------- MODULE StoreProofs ----------------------------
(***************************************************************************)
(* The store, for every number of keys, shards, clients and entries and    *)
(* every size of the channel, the buffer and the cache: type correctness;  *)
(* the listener is called at most once; no entry is orphaned, kept by the  *)
(* policy alone or brought back into a closed shard; the running size is   *)
(* the sum of the weights and within the capacity; no cost change is lost; *)
(* Wait waits for its own event; an expiry takes back no Set the policy    *)
(* knows of.  Where a theorem has a hypothesis (no deadlines, one caller   *)
(* of Wait, weights not below zero), it fails without.                     *)
(*                                                                         *)
(* The arguments are about the events under way: lemmas say what each      *)
(* channel operation does to the set of them, to the places of an entry's  *)
(* NEW event and of a WAIT, and to the sum of the cost changes.            *)
(***************************************************************************)
EXTENDS Store, FiniteSetTheorems, NaturalsInduction, WellFoundedInduction, TLAPS

\* An entry that some Set has made.
Made(e) == e \in Entry /\ key[e] \in Key

MapsOwnKey   == \A k \in Key : hashmap[k] # NoEntry => key[hashmap[k]] = k
EventsMade   == \A m \in Events : m.code # "WAIT" => Made(m.entry)
CurMade      == step \in {"check", "unmap"} => Made(cur)
PolicyMade   == \A e \in tracked \cup wheel : Made(e)
MappedSilent == \A e \in Entry : Mapped(e) => notified[e] = 0 /\ ~deleted[e]

\* While a REMOVE event is in flight its entry is out of the map for good, and
\* the listener has not been called for it yet, or the event will be ignored.
RemoveOnce == \A m \in Events : m.code = "REMOVE" =>
                /\ ~Mapped(m.entry)
                /\ notified[m.entry] = 0 \/ deleted[m.entry]

CalledOnce == \A e \in Entry : notified[e] <= 1

ListenerInv == /\ MapsOwnKey /\ EventsMade /\ CurMade /\ PolicyMade
               /\ MappedSilent /\ RemoveOnce /\ CalledOnce

Inv == TypeOK /\ ListenerInv

-----------------------------------------------------------------------------
(* Sequences and arithmetic.                                               *)

LEMMA ModType ==
  ASSUME NEW a \in Int PROVE a % Wrap \in 0..(Wrap - 1)
BY CostAssumption

LEMMA RangeAppend ==
  ASSUME NEW S, NEW s \in Seq(S), NEW x \in S
  PROVE  Range(Append(s, x)) \subseteq Range(s) \cup {x}
<1> SUFFICES ASSUME NEW i \in 1..(Len(s) + 1)
             PROVE  Append(s, x)[i] \in Range(s) \cup {x}
  BY DEF Range
<1>1. CASE i = Len(s) + 1
  BY <1>1
<1>2. CASE i \in 1..Len(s)
  BY <1>2 DEF Range
<1> QED
  BY <1>1, <1>2

LEMMA RangeTail ==
  ASSUME NEW S, NEW s \in Seq(S), s # << >>
  PROVE  Range(Tail(s)) \subseteq Range(s) /\ Head(s) \in Range(s)
BY DEF Range

LEMMA RangeOne == ASSUME NEW x PROVE Range(<<x>>) = {x}
BY DEF Range

(* What a step can do to the set of events in flight: a caller adds one;   *)
(* sending, receiving and draining add none.                               *)

LEMMA EventsPost ==
  ASSUME TypeOK, NEW c \in Client, NEW m, Post(c, m),
         UNCHANGED <<writeChan, writeBuffer>>
  PROVE  Events' \subseteq Events \cup {m}
BY DEF Events, Post, TypeOK

LEMMA EventsPop ==
  ASSUME TypeOK, writeBuffer # << >>, Pop, UNCHANGED <<pc, out, writeChan>>
  PROVE  Events' \subseteq Events /\ Item \in Events /\ Item \in Event
<1>1. Range(writeBuffer') \subseteq Range(writeBuffer) /\ Item \in Range(writeBuffer)
  BY RangeTail DEF TypeOK, Pop, Item
<1>2. Item \in Event
  BY DEF TypeOK, Item
<1> QED
  BY <1>1, <1>2 DEF Events

LEMMA EventsSend ==
  ASSUME TypeOK, NEW c \in Client, Send(c)
  PROVE  Events' \subseteq Events
<1>1. out[c] \in Events /\ out[c] \in Event
  BY DEF Send, Events, TypeOK
<1>2. Range(writeChan') \subseteq Range(writeChan) \cup {out[c]}
  BY <1>1, RangeAppend DEF Send, TypeOK
<1>3. {out'[d] : d \in {x \in Client : pc'[x] = "send"}}
        \subseteq {out[d] : d \in {x \in Client : pc[x] = "send"}}
  BY DEF Send, TypeOK
<1> QED
  BY <1>1, <1>2, <1>3 DEF Events, Send, maintVars

LEMMA EventsRecv ==
  ASSUME TypeOK, Recv \/ Collect
  PROVE  Events' \subseteq Events
<1>1. /\ writeChan # << >> /\ writeChan' = Tail(writeChan)
      /\ UNCHANGED <<pc, out>>
  BY DEF Recv, Collect, clientVars
<1>2. /\ Range(writeChan') \subseteq Range(writeChan)
      /\ Head(writeChan) \in Range(writeChan) /\ Head(writeChan) \in Event
  BY <1>1, RangeTail DEF TypeOK
<1>3. Range(writeBuffer') \subseteq Range(writeBuffer) \cup {Head(writeChan)}
  <2>1. CASE Recv
    BY <2>1, RangeOne DEF Recv
  <2>2. CASE Collect
    BY <2>2, <1>2, RangeAppend DEF Collect, TypeOK
  <2> QED
    BY <2>1, <2>2
<1> QED
  BY <1>1, <1>2, <1>3 DEF Events
-----------------------------------------------------------------------------
(* Steps that make no entry, take none out for a caller and call no        *)
(* listener.                                                               *)

LEMMA Frame ==
  ASSUME Inv, UNCHANGED <<key, notified>>,
         \A k \in Key : hashmap'[k] \in {hashmap[k], NoEntry},
         \A e \in Entry : /\ deleted[e] => deleted'[e]
                          /\ Mapped(e) => deleted'[e] = deleted[e],
         \A m \in Events' : \/ m \in Events
                            \/ m.code = "WAIT"
                            \/ m.code # "REMOVE" /\ Made(m.entry),
         \A e \in tracked' \cup wheel' : Made(e),
         step' \in {"check", "unmap"} => Made(cur')
  PROVE  ListenerInv'
<1> USE DEF Inv, ListenerInv
<1>1. \A e : Made(e)' <=> Made(e)
  BY DEF Made
<1>2. \A e \in Entry : Mapped(e)' => Mapped(e)
  BY DEF Mapped, Entry, NoEntry
<1>3. MapsOwnKey'
  BY DEF MapsOwnKey
<1>4. EventsMade' /\ CurMade' /\ PolicyMade'
  BY <1>1 DEF EventsMade, CurMade, PolicyMade
<1>5. MappedSilent' /\ CalledOnce'
  BY <1>2 DEF MappedSilent, CalledOnce
<1>6. RemoveOnce'
  BY <1>2 DEF RemoveOnce, EventsMade, Made
<1> QED
  BY <1>3, <1>4, <1>5, <1>6

LEMMA InitInv == Init => Inv
<1> SUFFICES ASSUME Init PROVE Inv
  OBVIOUS
<1>1. Events = {}
  BY DEF Init, Events, Range
<1>2. NoEvent \in Event
  BY DEF NoEvent, WriteBufItem, Event
<1>3. TypeOK
  <2>1. /\ weightedSize \in 0..(Wrap - 1) /\ waits \in Nat
        /\ nanos \in Nat /\ now \in Nat
        /\ weight \in [Entry -> Nat] /\ expire \in [Entry -> Nat]
        /\ policyWeight \in [Entry -> Int] /\ notified \in [Entry -> Nat]
    BY CostAssumption DEF Init
  <2>2. /\ writeChan \in Seq(Event) /\ Len(writeChan) <= WriteChanSize
        /\ writeBuffer \in Seq(Event) /\ Len(writeBuffer) <= WriteBufferSize
    BY BoundAssumption DEF Init
  <2> QED
    BY <1>2, <2>1, <2>2 DEF Init, TypeOK
<1>4. \A e \in Entry : ~Mapped(e)
  BY DEF Init, Mapped, Entry, NoEntry
<1>5. ListenerInv
  BY <1>1, <1>4 DEF Init, ListenerInv, MapsOwnKey, EventsMade, CurMade,
     PolicyMade, MappedSilent, RemoveOnce, CalledOnce
<1> QED
  BY <1>3, <1>5 DEF Inv

-----------------------------------------------------------------------------
(* The steps of the callers.                                               *)

LEMMA SetExistingInv ==
  ASSUME Inv, NEW c \in Client, NEW k \in Key, NEW cost \in Cost,
         NEW exp \in Nat, SetExisting(c, k, cost, exp),
         UNCHANGED <<writeChan, maintVars, tickVars, policyMu, stepVars, now,
                     closed>>
  PROVE  Inv'
<1> DEFINE e == hashmap[k]
<1> DEFINE m == WriteBufItem("UPDATE", e, cost - weight[e],
                             exp > 0 /\ exp # expire[e])
<1>1. e \in Entry /\ Made(e) /\ cost \in Nat
  BY CostAssumption DEF Inv, TypeOK, ListenerInv, MapsOwnKey, Made, SetExisting
<1>2. m \in Event /\ m.code = "UPDATE" /\ m.entry = e
  BY <1>1 DEF WriteBufItem, Event, Inv, TypeOK
<1>3. Events' \subseteq Events \cup {m}
  BY EventsPost DEF SetExisting, Inv, maintVars
<1>4. ListenerInv'
  BY <1>1, <1>2, <1>3, Frame
  DEF SetExisting, policyVars, stepVars, Inv, ListenerInv, CurMade, PolicyMade
<1>5. TypeOK'
  BY <1>1, <1>2 DEF SetExisting, Post, policyVars, stepVars, maintVars,
     tickVars, Inv, TypeOK
<1> QED
  BY <1>4, <1>5 DEF Inv

LEMMA SetNewInv ==
  ASSUME Inv, NEW c \in Client, NEW k \in Key, NEW cost \in Cost,
         NEW exp \in Nat, SetNew(c, k, cost, exp),
         UNCHANGED <<writeChan, maintVars, tickVars, policyMu, stepVars, now,
                     closed>>
  PROVE  Inv'
<1>1. PICK e \in Entry :
       /\ ~Referenced(e)
       /\ hashmap' = [hashmap EXCEPT ![k] = e]
       /\ key' = [key EXCEPT ![e] = k]
       /\ weight' = [weight EXCEPT ![e] = cost]
       /\ expire' = [expire EXCEPT ![e] = exp]
       /\ policyWeight' = [policyWeight EXCEPT ![e] = 0]
       /\ removed' = [removed EXCEPT ![e] = FALSE]
       /\ deleted' = [deleted EXCEPT ![e] = FALSE]
       /\ notified' = [notified EXCEPT ![e] = 0]
       /\ Post(c, WriteBufItem("NEW", e, cost, FALSE))
  BY DEF SetNew
<1> DEFINE m == WriteBufItem("NEW", e, cost, FALSE)
<1>2. m \in Event /\ m.code = "NEW" /\ m.entry = e /\ cost \in Nat
  BY CostAssumption DEF WriteBufItem, Event
<1>3. Events' \subseteq Events \cup {m}
  BY <1>1, EventsPost DEF Inv, maintVars
<1>4. TypeOK'
  <2>1. /\ hashmap \in [Key -> Entry \cup {NoEntry}]
        /\ key \in [Entry -> Key \cup {NoKey}]
        /\ weight \in [Entry -> Nat] /\ expire \in [Entry -> Nat]
        /\ policyWeight \in [Entry -> Int] /\ notified \in [Entry -> Nat]
        /\ removed \in [Entry -> BOOLEAN] /\ deleted \in [Entry -> BOOLEAN]
    BY DEF Inv, TypeOK
  <2>2. /\ hashmap' \in [Key -> Entry \cup {NoEntry}]
        /\ key' \in [Entry -> Key \cup {NoKey}]
    BY <1>1, <2>1
  <2>3. /\ weight' \in [Entry -> Nat] /\ expire' \in [Entry -> Nat]
        /\ policyWeight' \in [Entry -> Int] /\ notified' \in [Entry -> Nat]
    BY <1>1, <1>2, <2>1
  <2>4. removed' \in [Entry -> BOOLEAN] /\ deleted' \in [Entry -> BOOLEAN]
    BY <1>1, <2>1
  <2>5. pc' \in [Client -> {"idle", "send", "wait"}] /\ out' \in [Client -> Event]
    BY <1>1, <1>2 DEF Post, Inv, TypeOK
  <2> QED
    BY SMTT(40), <2>2, <2>3, <2>4, <2>5 DEF SetNew, stepVars, maintVars, tickVars, Inv, TypeOK
<1> USE DEF Inv, ListenerInv, TypeOK
<1>5. /\ ~Mapped(e) /\ e \notin tracked \cup wheel
      /\ \A x \in Events : x.entry # e
      /\ step # "next" => cur # e
  BY <1>1 DEF Referenced
<1>6. Made(e)' /\ \A f : Made(f) => Made(f)'
  BY <1>1 DEF Made
<1>7. \A f \in Entry : f # e => (Mapped(f)' => Mapped(f))
  BY <1>1 DEF Mapped
<1>8. MapsOwnKey'
  BY <1>1, <1>5 DEF MapsOwnKey, Mapped
<1>9. EventsMade' /\ CurMade' /\ PolicyMade'
  BY <1>1, <1>2, <1>3, <1>6 DEF EventsMade, CurMade, PolicyMade, SetNew, stepVars
<1>10. MappedSilent' /\ CalledOnce'
  BY <1>1, <1>7 DEF MappedSilent, CalledOnce
<1>11. RemoveOnce'
  BY <1>1, <1>2, <1>3, <1>5, <1>7 DEF RemoveOnce, EventsMade, Made
<1> QED
  BY <1>4, <1>8, <1>9, <1>10, <1>11

LEMMA DeleteInv ==
  ASSUME Inv, NEW c \in Client, NEW k \in Key, Delete(c, k)
  PROVE  Inv'
<1>1. PICK e \in Entry : e = hashmap[k] /\ Made(e) /\ key[e] = k
  BY DEF Inv, TypeOK, ListenerInv, MapsOwnKey, Made, Delete
<1> DEFINE m == WriteBufItem("REMOVE", e, 0, FALSE)
<1>2. m \in Event /\ m.code = "REMOVE" /\ m.entry = e
  BY <1>1 DEF WriteBufItem, Event
<1>3. Events' \subseteq Events \cup {m}
  BY <1>1, EventsPost DEF Delete, Inv, maintVars
<1>4. TypeOK'
  BY ZenonT(40), <1>1, <1>2 DEF Delete, Post, policyVars, stepVars, maintVars, tickVars,
     Inv, TypeOK
<1> USE DEF Inv, ListenerInv, TypeOK
<1>5. \A f : Made(f)' <=> Made(f)
  BY DEF Made, Delete
<1>6. \A f \in Entry : Mapped(f)' => Mapped(f)
  BY DEF Mapped, Delete, Entry, NoEntry
<1>7. ~Mapped(e)'
  BY <1>1 DEF Mapped, Delete, MapsOwnKey, Entry, NoEntry
<1>8. MapsOwnKey'
  BY DEF MapsOwnKey, Delete
<1>9. EventsMade' /\ CurMade' /\ PolicyMade'
  BY <1>1, <1>2, <1>3, <1>5
  DEF EventsMade, CurMade, PolicyMade, Delete, policyVars, stepVars
<1>10. MappedSilent' /\ CalledOnce'
  BY <1>6 DEF MappedSilent, CalledOnce, Delete, policyVars
<1>11. notified[e] = 0
  BY <1>1 DEF MappedSilent, Mapped
<1>12. RemoveOnce'
  BY <1>1, <1>2, <1>3, <1>6, <1>7, <1>11
  DEF RemoveOnce, EventsMade, Made, Delete, policyVars
<1> QED
  BY <1>4, <1>8, <1>9, <1>10, <1>12
(* Steps that leave the maps, the entries and the policy alone.            *)

LEMMA Quiet ==
  ASSUME Inv, UNCHANGED <<mapVars, policyVars, notified>>,
         \A m \in Events' : m \in Events \/ m.code = "WAIT",
         UNCHANGED stepVars \/ step' = "next"
  PROVE  ListenerInv'
BY Frame DEF mapVars, policyVars, stepVars, Inv, ListenerInv, CurMade,
   PolicyMade, TypeOK

LEMMA SameEvents ==
  ASSUME UNCHANGED <<pc, out, writeChan, writeBuffer>>
  PROVE  Events' \subseteq Events
BY DEF Events

LEMMA WaitInv == ASSUME Inv, NEW c \in Client, Wait(c) PROVE Inv'
<1>1. WaitItem(c) \in Event /\ WaitItem(c).code = "WAIT"
  BY DEF WaitItem, Event, NoEntry
<1>2. Events' \subseteq Events \cup {WaitItem(c)}
  BY EventsPost DEF Wait, Inv, maintVars
<1>3. ListenerInv'
  BY <1>1, <1>2, Quiet DEF Wait
<1>4. TypeOK'
  BY <1>1 DEF Wait, Post, stepVars, maintVars, tickVars, clientVars,
     policyVars, mapVars, Inv, TypeOK
<1> QED
  BY <1>3, <1>4 DEF Inv

LEMMA SendInv == ASSUME Inv, NEW c \in Client, Send(c) PROVE Inv'
<1>1. ListenerInv'
  BY EventsSend, Quiet DEF Send, Inv
<1>2. NoEvent \in Event
  BY DEF NoEvent, WriteBufItem, Event
<1>3. writeChan' \in Seq(Event) /\ Len(writeChan') <= WriteChanSize
  BY BoundAssumption DEF Send, Inv, TypeOK
<1>4. TypeOK'
  BY <1>2, <1>3 DEF Send, stepVars, maintVars, tickVars, clientVars, policyVars,
     mapVars, Inv, TypeOK
<1> QED
  BY <1>1, <1>4 DEF Inv

LEMMA WakeInv == ASSUME Inv, NEW c \in Client, Wake(c) PROVE Inv'
<1>1. Events' \subseteq Events
  BY DEF Wake, Events, Inv, TypeOK
<1>2. ListenerInv'
  BY <1>1, Quiet DEF Wake
<1>3. TypeOK'
  BY DEF Wake, stepVars, maintVars, tickVars, clientVars,
     policyVars, mapVars, Inv, TypeOK
<1> QED
  BY <1>2, <1>3 DEF Inv

LEMMA QuietStepsInv ==
  ASSUME Inv,
         \/ Close \/ ExpireSkip \/ CollectDone \/ Lock \/ DrainDone \/ Unlock
         \/ MaintExit \/ Tick \/ TickDone \/ TickExit \/ Elapse
  PROVE  Inv'
<1> USE DEF Close, ExpireSkip, CollectDone, Lock, DrainDone, Unlock, MaintExit,
            Tick, TickDone, TickExit, Elapse
<1>1. ListenerInv'
  BY SameEvents, Quiet DEF clientVars, maintVars
<1>2. UNCHANGED <<mapVars, policyVars, notified, clientVars, writeChan,
                  writeBuffer, waits>>
  BY DEF maintVars
<1>3. /\ mpc' \in {"recv", "collect", "lock", "drain", "wake", "exited"}
      /\ tpc' \in {"run", "exited"}
      /\ policyMu' \in {"free", "maint", "tick"}
  BY DEF maintVars, tickVars, Inv, TypeOK
<1>4. nanos' \in Nat /\ now' \in Nat
  BY DEF tickVars, Inv, TypeOK
<1>5. closed' \in BOOLEAN
  BY DEF Inv, TypeOK
<1>6. /\ step' \in {"next", "check", "unmap", "evict"}
      /\ cur' \in Entry \cup {NoEntry}
      /\ why' \in {"EVICTED", "EXPIRED"}
  BY DEF stepVars, Inv, TypeOK
<1>7. TypeOK'
  BY <1>2, <1>3, <1>4, <1>5, <1>6 DEF mapVars, policyVars, clientVars, Inv,
     TypeOK
<1> QED
  BY <1>1, <1>7 DEF Inv

LEMMA RecvInv == ASSUME Inv, Recv \/ Collect PROVE Inv'
<1>1. ListenerInv'
  BY EventsRecv, Quiet DEF Inv, Recv, Collect
<1>2. CASE Recv
  BY <1>1, <1>2, BoundAssumption DEF Recv, stepVars, tickVars, clientVars,
     policyVars, mapVars, Inv, TypeOK
<1>3. CASE Collect
  <2>1. Head(writeChan) \in Event
    BY <1>3 DEF Collect, Inv, TypeOK
  <2>2. /\ writeBuffer' \in Seq(Event) /\ Len(writeBuffer') <= WriteBufferSize
        /\ writeChan' \in Seq(Event) /\ Len(writeChan') <= WriteChanSize
    BY <1>3, <2>1, BoundAssumption DEF Collect, Inv, TypeOK
  <2> QED
    BY <1>1, <1>3, <2>2 DEF Collect, stepVars, tickVars, clientVars, policyVars,
       mapVars, Inv, TypeOK
<1> QED
  BY <1>2, <1>3

-----------------------------------------------------------------------------
(* The steps of sinkWrite.                                                 *)

LEMMA PopType ==
  ASSUME TypeOK, writeBuffer # << >>, Pop
  PROVE  writeBuffer' \in Seq(Event) /\ Len(writeBuffer') <= WriteBufferSize
BY BoundAssumption DEF TypeOK, Pop

\* The item sinkWrite works on names an entry.
LEMMA ItemMade ==
  ASSUME Inv, Draining, Pop, UNCHANGED <<pc, out, writeChan>>
  PROVE  /\ Events' \subseteq Events /\ Item \in Events /\ Item \in Event
         /\ Item.code # "WAIT" => Made(Item.entry) /\ Item.entry \in Entry
         /\ writeBuffer' \in Seq(Event) /\ Len(writeBuffer') <= WriteBufferSize
BY EventsPop, PopType DEF Inv, ListenerInv, EventsMade, Made, Draining

LEMMA SinkWaitInv == ASSUME Inv, SinkWait PROVE Inv'
<1>1. ListenerInv'
  BY ItemMade, Quiet DEF SinkWait, clientVars
<1>2. TypeOK'
  BY ItemMade DEF SinkWait, stepVars, maintVars, tickVars, clientVars,
     policyVars, mapVars, Inv, TypeOK
<1> QED
  BY <1>1, <1>2 DEF Inv

LEMMA SinkIgnoredInv == ASSUME Inv, SinkIgnored PROVE Inv'
<1>1. PICK e \in Entry : /\ e = Item.entry /\ Made(e)
                         /\ deleted' = [deleted EXCEPT
                                          ![e] = @ \/ Item.code = "REMOVE"]
  BY ItemMade DEF SinkIgnored, clientVars
<1>2. Item.code = "REMOVE" => ~Mapped(e)
  BY <1>1, ItemMade DEF SinkIgnored, clientVars, Inv, ListenerInv, RemoveOnce
<1>3. \A f \in Entry : /\ deleted[f] => deleted'[f]
                       /\ Mapped(f) => deleted'[f] = deleted[f]
  BY <1>1, <1>2 DEF Inv, TypeOK
<1>4. ListenerInv'
  BY <1>3, ItemMade, Frame DEF SinkIgnored, clientVars, mapVars, stepVars, Inv,
     ListenerInv, CurMade, PolicyMade
<1>5. deleted' \in [Entry -> BOOLEAN]
  BY <1>1 DEF Inv, TypeOK
<1>6. TypeOK'
  BY SMTT(40), <1>5, ItemMade DEF SinkIgnored, stepVars, tickVars, clientVars, mapVars,
     Inv, TypeOK
<1> QED
  BY <1>4, <1>6 DEF Inv

LEMMA SinkNewExpiredInv == ASSUME Inv, SinkNewExpired PROVE Inv'
<1>1. PICK e \in Entry : e = Item.entry /\ Made(e) /\ ExpireStart(e)
  BY ItemMade DEF SinkNewExpired, clientVars
<1>2. ListenerInv'
  BY <1>1, ItemMade, Frame DEF SinkNewExpired, ExpireStart, clientVars,
     mapVars, Inv, ListenerInv, PolicyMade, TypeOK
<1>3. TypeOK'
  BY <1>1, ItemMade DEF SinkNewExpired, ExpireStart, tickVars, clientVars,
     mapVars, Inv, TypeOK
<1> QED
  BY <1>2, <1>3 DEF Inv

LEMMA SinkNewInv == ASSUME Inv, SinkNew PROVE Inv'
<1>1. PICK e \in Entry :
        /\ e = Item.entry /\ Made(e) /\ Item.costChange \in Int
        /\ policyWeight' = [policyWeight EXCEPT ![e] = @ + Item.costChange]
        /\ removed' = [removed EXCEPT ![e] = FALSE]
        /\ wheel' = IF expire[e] # 0 THEN wheel \cup {e} ELSE wheel
        /\ weightedSize' = (weightedSize + policyWeight'[e]) % Wrap
        /\ tracked' = tracked \cup {e}
  BY ItemMade DEF SinkNew, clientVars, Event
<1>2. step' \in {"evict", "next"}
  BY DEF SinkNew, EvictNext
<1>3. ListenerInv'
  BY <1>1, <1>2, ItemMade, Frame DEF SinkNew, clientVars, mapVars, Inv,
     ListenerInv, PolicyMade, TypeOK
<1>4. policyWeight' \in [Entry -> Int] /\ removed' \in [Entry -> BOOLEAN]
  BY SMTT(40), <1>1 DEF Inv, TypeOK
<1>5. weightedSize' \in 0..(Wrap - 1)
  <2>1. weightedSize + policyWeight'[e] \in Int
    BY <1>4, CostAssumption DEF Inv, TypeOK
  <2> QED
    BY <1>1, <2>1, ModType
<1>6. TypeOK'
  BY ZenonT(40), <1>1, <1>2, <1>4, <1>5, ItemMade DEF SinkNew, tickVars, clientVars,
     mapVars, Inv, TypeOK
<1> QED
  BY <1>3, <1>6 DEF Inv

LEMMA PolicyRemoveType ==
  ASSUME TypeOK, NEW e \in Entry, PolicyRemove(e)
  PROVE  weightedSize' \in 0..(Wrap - 1) /\ tracked' = tracked \ {e}
<1>1. weightedSize - policyWeight[e] \in Int
  BY CostAssumption DEF TypeOK
<1>2. (weightedSize - policyWeight[e]) % Wrap \in 0..(Wrap - 1)
  BY <1>1, ModType
<1> QED
  BY <1>2 DEF PolicyRemove, TypeOK

LEMMA SinkRemoveInv == ASSUME Inv, SinkRemove PROVE Inv'
<1>1. PICK e \in Entry :
        /\ e = Item.entry /\ Made(e) /\ PolicyRemove(e) /\ ~deleted[e]
        /\ deleted' = [deleted EXCEPT ![e] = TRUE]
        /\ removed' = [removed EXCEPT ![e] = TRUE]
        /\ wheel' = wheel \ {e}
        /\ notified' = [notified EXCEPT ![e] = @ + 1]
  BY ItemMade DEF SinkRemove, Ignores, clientVars
<1>2. ~Mapped(e) /\ notified[e] = 0
  BY <1>1, ItemMade DEF SinkRemove, clientVars, Inv, ListenerInv, RemoveOnce
<1>3. TypeOK'
  <2>1. /\ deleted' \in [Entry -> BOOLEAN] /\ removed' \in [Entry -> BOOLEAN]
        /\ notified' \in [Entry -> Nat]
    BY <1>1 DEF Inv, TypeOK
  <2>2. /\ weightedSize' \in 0..(Wrap - 1)
        /\ tracked' \subseteq Entry /\ wheel' \subseteq Entry
    BY <1>1, PolicyRemoveType DEF Inv, TypeOK
  <2>3. /\ UNCHANGED <<mapVars, policyWeight, clientVars, writeChan, mpc, waits,
                       tickVars, policyMu, stepVars, now, closed>>
        /\ Draining /\ Pop
    BY DEF SinkRemove
  <2>4. writeBuffer' \in Seq(Event) /\ Len(writeBuffer') <= WriteBufferSize
    BY <2>3, ItemMade DEF clientVars
  <2> QED
    BY SMTT(40), <2>1, <2>2, <2>3, <2>4 DEF stepVars, tickVars, clientVars, mapVars, Inv,
       TypeOK
<1>4. UNCHANGED <<hashmap, key, step, cur>> /\ Events' \subseteq Events
  BY ItemMade DEF SinkRemove, mapVars, stepVars, clientVars
<1> USE DEF Inv, ListenerInv, TypeOK
<1>5. \A f : (Mapped(f)' <=> Mapped(f)) /\ (Made(f)' <=> Made(f))
  BY <1>4 DEF Mapped, Made
<1>6. MapsOwnKey' /\ EventsMade' /\ CurMade'
  BY <1>4, <1>5 DEF MapsOwnKey, EventsMade, CurMade
<1>7. PolicyMade'
  BY <1>1, <1>5, PolicyRemoveType DEF PolicyMade
<1>8. MappedSilent' /\ CalledOnce'
  BY <1>1, <1>2, <1>5 DEF MappedSilent, CalledOnce
<1>9. RemoveOnce'
  BY <1>1, <1>4, <1>5 DEF RemoveOnce, EventsMade, Made
<1> QED
  BY <1>3, <1>6, <1>7, <1>8, <1>9

LEMMA SinkUpdateInv == ASSUME Inv, SinkUpdate PROVE Inv'
<1>1. PICK e \in Entry :
        /\ e = Item.entry /\ Made(e) /\ Item.costChange \in Int
        /\ policyWeight' = [policyWeight EXCEPT
                              ![e] = policyWeight[e] + Item.costChange]
        /\ IF e \in tracked /\ Item.costChange # 0
             THEN UpdateCost(e, policyWeight[e] + Item.costChange,
                             Item.costChange)
             ELSE /\ wheel' = IF Item.rechedule THEN wheel \cup {e} ELSE wheel
                  /\ UNCHANGED <<tracked, weightedSize, removed, step, cur>>
  BY ItemMade DEF SinkUpdate, clientVars, Event
<1>2. policyWeight' \in [Entry -> Int]
  BY <1>1 DEF Inv, TypeOK
<1>3. /\ tracked' \subseteq tracked /\ wheel' \subseteq wheel \cup {e}
      /\ removed' \in [Entry -> BOOLEAN]
      /\ step' \in {"next", "evict", "unmap"} \/ step' = step
      /\ cur' \in {cur, e} /\ (step' = "unmap" => cur' = e \/ step = "unmap")
      /\ UNCHANGED <<cur, step>> \/ step' # "unmap" \/ cur' = e
  BY <1>1 DEF UpdateCost, EvictNext, Inv, TypeOK
<1>4. weightedSize' \in 0..(Wrap - 1)
  <2>1. CASE e \in tracked /\ Item.costChange # 0
    <3> DEFINE w == policyWeight[e] + Item.costChange
    <3>1. /\ weightedSize + Item.costChange - w \in Int
          /\ weightedSize + Item.costChange \in Int
      BY <1>1, CostAssumption DEF Inv, TypeOK
    <3>2. /\ (weightedSize + Item.costChange - w) % Wrap \in 0..(Wrap - 1)
          /\ (weightedSize + Item.costChange) % Wrap \in 0..(Wrap - 1)
      BY <3>1, ModType
    <3> QED
      BY <1>1, <2>1, <3>2 DEF UpdateCost
  <2>2. CASE ~(e \in tracked /\ Item.costChange # 0)
    BY <1>1, <2>2 DEF Inv, TypeOK
  <2> QED
    BY <2>1, <2>2
<1>5. step = "next"
  BY DEF SinkUpdate, Draining
<1>6. ListenerInv'
  BY <1>1, <1>3, <1>5, ItemMade, Frame DEF SinkUpdate, clientVars, mapVars,
     Inv, ListenerInv, PolicyMade, TypeOK
<1>7. TypeOK'
  <2>1. /\ tracked' \subseteq Entry /\ wheel' \subseteq Entry
        /\ step' \in {"next", "check", "unmap", "evict"}
        /\ cur' \in Entry \cup {NoEntry}
    BY <1>3 DEF Inv, TypeOK
  <2> QED
    BY <2>1, <1>2, <1>3, <1>4, ItemMade DEF SinkUpdate, tickVars, clientVars,
       mapVars, Inv, TypeOK
<1> QED
  BY <1>6, <1>7 DEF Inv
-----------------------------------------------------------------------------
(* The steps of removeEntry, of the ticker and of Close.                   *)

LEMMA ExpireCheckInv == ASSUME Inv, ExpireCheck PROVE Inv'
<1>1. cur \in Entry /\ Made(cur) /\ step' = "unmap" /\ cur' = cur
  BY DEF ExpireCheck, Inv, ListenerInv, CurMade, Made
<1>2. /\ weightedSize' \in 0..(Wrap - 1)
      /\ tracked' \subseteq tracked /\ wheel' \subseteq wheel
  BY <1>1, PolicyRemoveType DEF ExpireCheck, Inv
<1>3. ListenerInv'
  BY <1>1, <1>2, SameEvents, Frame DEF ExpireCheck, clientVars, maintVars,
     mapVars, Inv, ListenerInv, PolicyMade, TypeOK
<1>4. TypeOK'
  BY <1>1, <1>2 DEF ExpireCheck, clientVars, maintVars, tickVars, mapVars, Inv,
     TypeOK
<1> QED
  BY <1>3, <1>4 DEF Inv

LEMMA EvictInv == ASSUME Inv, Evict PROVE Inv'
<1>1. PICK v \in tracked : /\ PolicyRemove(v)
                           /\ removed' = [removed EXCEPT ![v] = TRUE]
                           /\ wheel' = wheel \ {v}
                           /\ cur' = v
  BY DEF Evict
<1>2. v \in Entry /\ Made(v)
  BY DEF Inv, ListenerInv, PolicyMade, Made
<1>3. /\ weightedSize' \in 0..(Wrap - 1)
      /\ tracked' \subseteq tracked /\ wheel' \subseteq wheel
      /\ removed' \in [Entry -> BOOLEAN]
  BY <1>1, <1>2, PolicyRemoveType DEF Inv, TypeOK
<1>4. ListenerInv'
  BY <1>1, <1>2, <1>3, SameEvents, Frame DEF Evict, clientVars, maintVars,
     mapVars, Inv, ListenerInv, PolicyMade, TypeOK
<1>5. TypeOK'
  BY <1>1, <1>2, <1>3 DEF Evict, clientVars, maintVars, tickVars, mapVars, Inv,
     TypeOK
<1> QED
  BY <1>4, <1>5 DEF Inv

LEMMA UnmapInv == ASSUME Inv, Unmap PROVE Inv'
<1>1. PICK k \in Key : k = key[cur] /\ cur \in Entry
  BY DEF Unmap, Inv, ListenerInv, CurMade, Made
<1> DEFINE found == index[k] \notin shardClosed /\ hashmap[k] = cur
<1>2. /\ hashmap' = [hashmap EXCEPT ![k] = IF found THEN NoEntry ELSE @]
      /\ notified' = [notified EXCEPT ![cur] = IF found THEN @ + 1 ELSE @]
      /\ UNCHANGED <<key, deleted, tracked, wheel>>
      /\ step' \in {"evict", "next"}
  BY <1>1 DEF Unmap, policyVars, EvictNext
<1>3. Events' \subseteq Events
  BY SameEvents DEF Unmap, clientVars, maintVars
<1>4. TypeOK'
  <2>1. /\ hashmap' \in [Key -> Entry \cup {NoEntry}]
        /\ notified' \in [Entry -> Nat]
    BY <1>1, <1>2 DEF Inv, TypeOK
  <2> QED
    BY <1>2, <2>1 DEF Unmap, policyVars, clientVars, maintVars, tickVars, Inv,
       TypeOK
<1>5. CASE ~found
  <2>1. UNCHANGED <<hashmap, notified>>
    BY <1>1, <1>2, <1>5 DEF Inv, TypeOK
  <2>2. ListenerInv'
    BY <1>2, <1>3, <2>1, Frame DEF Inv, ListenerInv, PolicyMade, TypeOK
  <2> QED
    BY <1>4, <2>2 DEF Inv
<1>6. CASE found
  <2> USE DEF Inv, ListenerInv, TypeOK
  <2>0. PICK e \in Entry : e = cur
    BY <1>1
  <2>1. \A f : Made(f)' <=> Made(f)
    BY <1>2 DEF Made
  <2>2. Mapped(e) /\ notified[e] = 0 /\ ~deleted[e]
    BY <1>1, <1>6, <2>0 DEF Mapped, MappedSilent
  <2>3. ~Mapped(e)' /\ \A f \in Entry : Mapped(f)' => Mapped(f)
    BY <1>1, <1>2, <1>6, <2>0 DEF Mapped, MapsOwnKey, Entry, NoEntry
  <2>4. MapsOwnKey'
    BY <1>1, <1>2 DEF MapsOwnKey
  <2>5. EventsMade' /\ CurMade' /\ PolicyMade'
    BY <1>2, <1>3, <2>1 DEF EventsMade, CurMade, PolicyMade
  <2>6. MappedSilent' /\ CalledOnce'
    BY <1>2, <1>6, <2>0, <2>2, <2>3 DEF MappedSilent, CalledOnce
  <2>7. \A m \in Events : m.code = "REMOVE" => m.entry \in Entry /\ m.entry # e
    BY <2>2 DEF RemoveOnce, EventsMade, Made
  <2>8. RemoveOnce'
    BY <1>2, <1>3, <2>0, <2>3, <2>7 DEF RemoveOnce
  <2> QED
    BY <1>4, <2>4, <2>5, <2>6, <2>8
<1> QED
  BY <1>5, <1>6

LEMMA TickExpireInv == ASSUME Inv, TickExpire PROVE Inv'
<1>1. PICK e \in wheel : wheel' = wheel \ {e} /\ ExpireStart(e)
  BY DEF TickExpire
<1>2. e \in Entry /\ Made(e)
  BY DEF Inv, ListenerInv, PolicyMade, Made
<1>3. ListenerInv'
  BY <1>1, <1>2, SameEvents, Frame DEF TickExpire, ExpireStart, clientVars,
     maintVars, mapVars, Inv, ListenerInv, PolicyMade, TypeOK
<1>4. TypeOK'
  BY <1>1, <1>2 DEF TickExpire, ExpireStart, clientVars, maintVars, tickVars,
     mapVars, Inv, TypeOK
<1> QED
  BY <1>3, <1>4 DEF Inv

LEMMA CloseShardInv == ASSUME Inv, NEW s \in Shard, CloseShard(s) PROVE Inv'
<1>1. ListenerInv'
  BY SameEvents, Frame DEF CloseShard, clientVars, maintVars, policyVars,
     stepVars, Inv, ListenerInv, CurMade, PolicyMade, TypeOK
<1>2. TypeOK'
  BY DEF CloseShard, clientVars, maintVars, tickVars, policyVars, stepVars, Inv,
     TypeOK, NoEntry
<1> QED
  BY <1>1, <1>2 DEF Inv

-----------------------------------------------------------------------------
LEMMA StutterInv == ASSUME Inv, UNCHANGED vars PROVE Inv'
<1>1. ListenerInv'
  BY SameEvents, Quiet DEF vars, clientVars, maintVars
<1>2. TypeOK'
  BY DEF vars, clientVars, maintVars, tickVars, policyVars, stepVars, mapVars,
     Inv, TypeOK
<1> QED
  BY <1>1, <1>2 DEF Inv

LEMMA NextInv == Inv /\ [Next]_vars => Inv'
<1> SUFFICES ASSUME Inv, Next PROVE Inv'
  BY StutterInv
<1>1. CASE \E c \in Client : Calls(c) \/ Send(c) \/ Wake(c)
  <2> PICK c \in Client : Calls(c) \/ Send(c) \/ Wake(c)
    BY <1>1
  <2>1. ASSUME NEW k \in Key, NEW cost \in Cost, NEW ttl \in TTL,
               NEW t \in 0..now, Set(c, k, cost, ttl, t)
        PROVE  Inv'
    <3>1. now \in Nat /\ ttl \in Nat
      BY CostAssumption DEF Inv, TypeOK
    <3>2. PICK exp \in Nat : exp = IF ttl = 0 THEN 0 ELSE t + ttl
      BY <3>1
    <3>3. UNCHANGED <<writeChan, maintVars, tickVars, policyMu, stepVars, now,
                      closed>>
      BY <2>1 DEF Set
    <3>4. \/ SetExisting(c, k, cost, exp) \/ SetNew(c, k, cost, exp)
          \/ SetRefused(k)
      BY <2>1, <3>2 DEF Set
    <3>5. CASE SetRefused(k)
      BY <3>3, <3>5, StutterInv DEF SetRefused, vars
    <3> QED
      BY <3>3, <3>4, <3>5, SetExistingInv, SetNewInv
  <2>2. ASSUME NEW k \in Key, Delete(c, k) \/ Get(c, k)
        PROVE  Inv'
    BY <2>2, DeleteInv, StutterInv DEF Get
  <2> QED
    BY <2>1, <2>2, WaitInv, SendInv, WakeInv DEF Calls
<1>2. CASE \E s \in Shard : CloseShard(s)
  BY <1>2, CloseShardInv
<1>3. CASE Maintenance
  BY <1>3, RecvInv, QuietStepsInv, SinkWaitInv, SinkIgnoredInv,
     SinkNewExpiredInv, SinkNewInv, SinkRemoveInv, SinkUpdateInv
  DEF Maintenance, Sink
<1>4. CASE Removal
  BY <1>4, QuietStepsInv, ExpireCheckInv, UnmapInv, EvictInv DEF Removal
<1>5. CASE Ticker
  BY <1>5, QuietStepsInv, TickExpireInv DEF Ticker
<1>6. CASE Close \/ Elapse
  BY <1>6, QuietStepsInv
<1> QED
  BY <1>1, <1>2, <1>3, <1>4, <1>5, <1>6 DEF Next

LEMMA InvHolds == Spec => []Inv
BY InitInv, NextInv, PTL DEF Spec

\* Every variable keeps its type, weightedSize its unsigned range, the channel
\* and the buffer their sizes.
THEOREM TypeCorrect == Spec => []TypeOK
<1>1. Inv => TypeOK
  BY DEF Inv
<1> QED
  BY <1>1, InvHolds, PTL

\* However deletions by callers, evictions and expiries interleave, the removal
\* listener hears of an entry at most once, and only once it is out of its map.
THEOREM ListenerOnce == Spec => []ListenerAtMostOnce
<1>1. Inv => ListenerAtMostOnce
  BY DEF Inv, ListenerInv, MappedSilent, CalledOnce, ListenerAtMostOnce
<1> QED
  BY <1>1, InvHolds, PTL
-----------------------------------------------------------------------------
(* The steps by what they touch.                                           *)

Rest == <<writeChan, maintVars, tickVars, policyMu, stepVars, now, closed>>

SetSame(c, k, cost, exp) ==
  /\ pc[c] = "idle" /\ index[k] \notin shardClosed
  /\ SetExisting(c, k, cost, exp) /\ UNCHANGED Rest

SetFresh(c, k, cost, exp) ==
  /\ pc[c] = "idle" /\ index[k] \notin shardClosed
  /\ SetNew(c, k, cost, exp) /\ UNCHANGED Rest

\* Steps that leave the maps, the entries and the policy alone.
QuietStep ==
  \/ UNCHANGED vars
  \/ \E c \in Client : Wait(c) \/ Send(c) \/ Wake(c)
  \/ Close \/ ExpireSkip \/ Recv \/ Collect \/ CollectDone \/ Lock \/ SinkWait
  \/ DrainDone \/ Unlock \/ MaintExit \/ Tick \/ TickDone \/ TickExit \/ Elapse

\* A deadline a caller can give.
Given(exp) == exp \in Nat /\ (TTL \subseteq {0} => exp = 0)

LEMMA NextCases ==
  ASSUME Inv, [Next]_vars
  PROVE  \/ QuietStep
         \/ \E c \in Client, k \in Key, cost \in Cost, exp \in Nat :
              Given(exp) /\ (SetSame(c, k, cost, exp) \/ SetFresh(c, k, cost, exp))
         \/ \E c \in Client, k \in Key : Delete(c, k)
         \/ \E s \in Shard : CloseShard(s)
         \/ SinkIgnored \/ SinkNewExpired \/ SinkNew \/ SinkRemove \/ SinkUpdate
         \/ ExpireCheck \/ Unmap \/ Evict \/ TickExpire
<1>1. CASE UNCHANGED vars
  BY <1>1 DEF QuietStep
<1>2. CASE \E c \in Client : Calls(c) \/ Send(c) \/ Wake(c)
  <2> PICK c \in Client : Calls(c) \/ Send(c) \/ Wake(c)
    BY <1>2
  <2>1. ASSUME NEW k \in Key, NEW cost \in Cost, NEW ttl \in TTL,
               NEW t \in 0..now, Set(c, k, cost, ttl, t)
        PROVE  \/ QuietStep
               \/ \E exp \in Nat : /\ Given(exp)
                                   /\ \/ SetSame(c, k, cost, exp)
                                      \/ SetFresh(c, k, cost, exp)
    <3>1. now \in Nat /\ ttl \in Nat
      BY CostAssumption DEF Inv, TypeOK
    <3>2. PICK exp \in Nat : exp = IF ttl = 0 THEN 0 ELSE t + ttl
      BY <3>1
    <3>3. Given(exp)
      BY <3>2 DEF Given
    <3>4. /\ pc[c] = "idle" /\ index[k] \notin shardClosed /\ UNCHANGED Rest
          /\ \/ SetExisting(c, k, cost, exp) \/ SetNew(c, k, cost, exp)
             \/ SetRefused(k)
      BY <2>1, <3>2 DEF Set, Rest
    <3>5. CASE SetRefused(k)
      BY <3>4, <3>5 DEF SetRefused, vars, Rest, QuietStep
    <3> QED
      BY <3>3, <3>4, <3>5 DEF SetSame, SetFresh
  <2>2. ASSUME NEW k \in Key, Get(c, k) PROVE QuietStep
    BY <2>2 DEF Get, QuietStep
  <2> QED
    BY <2>1, <2>2 DEF Calls, QuietStep
<1> QED
  BY <1>1, <1>2 DEF Next, Maintenance, Sink, Removal, Ticker, QuietStep

LEMMA QuietEffect ==
  ASSUME QuietStep
  PROVE  /\ UNCHANGED <<mapVars, policyVars>>
         /\ UNCHANGED stepVars \/ step' = "next"
BY DEF QuietStep, vars, Wait, Send, Wake, Close, ExpireSkip, Recv, Collect,
   CollectDone, Lock, SinkWait, DrainDone, Unlock, MaintExit, Tick, TickDone,
   TickExit, Elapse

\* Between two batches the write buffer is empty.
BatchDone == mpc \in {"recv", "wake", "exited"} => writeBuffer = << >>

LEMMA BatchDoneStep == ASSUME Inv, BatchDone, [Next]_vars PROVE BatchDone'
<1>1. CASE QuietStep
  BY <1>1 DEF BatchDone, QuietStep, vars, maintVars, Wait, Send, Wake, Close,
     ExpireSkip, Recv, Collect, CollectDone, Lock, SinkWait, DrainDone, Unlock,
     MaintExit, Tick, TickDone, TickExit, Elapse, Draining
<1>2. CASE \/ \E c \in Client, k \in Key, cost \in Cost, exp \in Nat :
                SetSame(c, k, cost, exp) \/ SetFresh(c, k, cost, exp)
           \/ \E c \in Client, k \in Key : Delete(c, k)
           \/ \E s \in Shard : CloseShard(s)
           \/ ExpireCheck \/ Unmap \/ Evict \/ TickExpire
  BY <1>2 DEF BatchDone, maintVars, SetSame, SetFresh, Rest, Delete, CloseShard,
     ExpireCheck, Unmap, Evict, TickExpire
<1>3. CASE SinkIgnored \/ SinkNewExpired \/ SinkNew \/ SinkRemove \/ SinkUpdate
  BY <1>3 DEF BatchDone, Draining, SinkIgnored, SinkNewExpired, SinkNew,
     SinkRemove, SinkUpdate
<1> QED
  BY <1>1, <1>2, <1>3, NextCases

-----------------------------------------------------------------------------
(* No entry is lost.  Sending, receiving and collecting lose no event, and *)
(* draining takes away only the event it works on.                         *)

LEMMA RangeAppendKeeps ==
  ASSUME NEW S, NEW s \in Seq(S), NEW x \in S
  PROVE  Range(s) \cup {x} \subseteq Range(Append(s, x))
<1>1. Append(s, x)[Len(s) + 1] = x /\ Len(s) + 1 \in DOMAIN Append(s, x)
  OBVIOUS
<1>2. \A i \in 1..Len(s) : Append(s, x)[i] = s[i] /\ i \in DOMAIN Append(s, x)
  OBVIOUS
<1> QED
  BY <1>1, <1>2 DEF Range

LEMMA RangeTailKeeps ==
  ASSUME NEW S, NEW s \in Seq(S), s # << >>
  PROVE  Range(s) \subseteq Range(Tail(s)) \cup {Head(s)}
<1> SUFFICES ASSUME NEW i \in 1..Len(s)
             PROVE  s[i] \in Range(Tail(s)) \cup {Head(s)}
  BY DEF Range
<1>1. CASE i = 1
  BY <1>1
<1>2. CASE i # 1
  <2>1. i - 1 \in DOMAIN Tail(s) /\ Tail(s)[i - 1] = s[i]
    BY <1>2
  <2> QED
    BY <2>1 DEF Range
<1> QED
  BY <1>1, <1>2

LEMMA PostKeeps ==
  ASSUME TypeOK, NEW c \in Client, NEW m, pc[c] = "idle", Post(c, m),
         UNCHANGED <<writeChan, writeBuffer>>
  PROVE  Events \cup {m} \subseteq Events'
BY DEF Events, Post, TypeOK

LEMMA SendKeeps ==
  ASSUME TypeOK, NEW c \in Client, Send(c)
  PROVE  Events \subseteq Events'
<1>1. out[c] \in Event
  BY DEF TypeOK
<1>2. Range(writeChan) \cup {out[c]} \subseteq Range(writeChan')
  BY <1>1, RangeAppendKeeps DEF Send, TypeOK
<1>3. {out[d] : d \in {x \in Client : pc[x] = "send"}}
        \subseteq {out'[d] : d \in {x \in Client : pc'[x] = "send"}} \cup {out[c]}
  BY DEF Send, TypeOK
<1> QED
  BY <1>2, <1>3 DEF Events, Send, maintVars

LEMMA RecvKeeps ==
  ASSUME TypeOK, BatchDone, Recv \/ Collect
  PROVE  Events \subseteq Events'
<1>1. /\ writeChan # << >> /\ writeChan' = Tail(writeChan)
      /\ UNCHANGED <<pc, out>>
  BY DEF Recv, Collect, clientVars
<1>2. /\ Range(writeChan) \subseteq Range(writeChan') \cup {Head(writeChan)}
      /\ Head(writeChan) \in Event
  BY <1>1, RangeTailKeeps DEF TypeOK
<1>3. Range(writeBuffer) \cup {Head(writeChan)} \subseteq Range(writeBuffer')
  <2>1. CASE Recv
    <3>1. writeBuffer = << >>
      BY <2>1 DEF Recv, BatchDone
    <3>2. Range(writeBuffer) = {}
      BY <3>1 DEF Range
    <3> QED
      BY <2>1, <3>2, RangeOne DEF Recv
  <2>2. CASE Collect
    BY <2>2, <1>2, RangeAppendKeeps DEF Collect, TypeOK
  <2> QED
    BY <2>1, <2>2
<1> QED
  BY <1>1, <1>2, <1>3 DEF Events

LEMMA PopKeeps ==
  ASSUME TypeOK, writeBuffer # << >>, Pop, UNCHANGED <<pc, out, writeChan>>
  PROVE  Events \subseteq Events' \cup {Item}
<1>1. Range(writeBuffer) \subseteq Range(writeBuffer') \cup {Item}
  BY RangeTailKeeps DEF TypeOK, Pop, Item
<1> QED
  BY <1>1 DEF Events

LEMMA SameKeeps ==
  ASSUME UNCHANGED <<pc, out, writeChan, writeBuffer>>
  PROVE  Events \subseteq Events'
BY DEF Events

LEMMA QuietKeeps ==
  ASSUME Inv, BatchDone, QuietStep
  PROVE  \A m \in Events : m \in Events' \/ m.code = "WAIT"
<1> USE DEF Inv
<1>1. ASSUME NEW c \in Client, Wait(c) PROVE Events \subseteq Events'
  BY <1>1, PostKeeps DEF Wait, maintVars
<1>2. ASSUME NEW c \in Client, Send(c) PROVE Events \subseteq Events'
  BY <1>2, SendKeeps
<1>3. ASSUME NEW c \in Client, Wake(c) PROVE Events \subseteq Events'
  BY <1>3 DEF Wake, Events, TypeOK
<1>4. CASE Recv \/ Collect
  BY <1>4, RecvKeeps
<1>5. CASE SinkWait
  BY <1>5, PopKeeps DEF SinkWait, Draining, clientVars
<1>6. CASE \/ UNCHANGED vars \/ Close \/ ExpireSkip \/ CollectDone \/ Lock
           \/ DrainDone \/ Unlock \/ MaintExit \/ Tick \/ TickDone \/ TickExit
           \/ Elapse
  BY <1>6, SameKeeps DEF vars, clientVars, maintVars, Close, ExpireSkip,
     CollectDone, Lock, DrainDone, Unlock, MaintExit, Tick, TickDone, TickExit,
     Elapse
<1> QED
  BY <1>1, <1>2, <1>3, <1>4, <1>5, <1>6 DEF QuietStep

\* A WAIT, which changes no cost and no deadline.
Bare(m) == m.code = "WAIT" /\ ~m.rechedule /\ m.costChange = 0

\* A step that leaves the maps and the policy alone sends nothing but WAITs.
LEMMA QuietAdds ==
  ASSUME Inv, QuietStep
  PROVE  \A m \in Events' : m \in Events \/ Bare(m)
<1> USE DEF Inv
<1>1. ASSUME NEW c \in Client, Wait(c)
      PROVE  \A m \in Events' : m \in Events \/ Bare(m)
  <2>1. Bare(WaitItem(c))
    BY DEF WaitItem, Bare
  <2> QED
    BY <1>1, <2>1, EventsPost DEF Wait, maintVars
<1>2. ASSUME NEW c \in Client, Send(c) PROVE Events' \subseteq Events
  BY <1>2, EventsSend
<1>3. ASSUME NEW c \in Client, Wake(c) PROVE Events' \subseteq Events
  BY <1>3 DEF Wake, Events, TypeOK
<1>4. CASE Recv \/ Collect
  BY <1>4, EventsRecv
<1>5. CASE SinkWait
  BY <1>5, ItemMade DEF SinkWait, clientVars
<1>6. CASE \/ UNCHANGED vars \/ Close \/ ExpireSkip \/ CollectDone \/ Lock
           \/ DrainDone \/ Unlock \/ MaintExit \/ Tick \/ TickDone \/ TickExit
           \/ Elapse
  BY <1>6, SameEvents DEF vars, clientVars, maintVars, Close, ExpireSkip,
     CollectDone, Lock, DrainDone, Unlock, MaintExit, Tick, TickDone, TickExit,
     Elapse
<1> QED
  BY <1>1, <1>2, <1>3, <1>4, <1>5, <1>6 DEF QuietStep

\* The entry that is being removed is flagged.
CurRemoved == step \in {"check", "unmap"} => removed[cur]

KeptInv == BatchDone /\ CurRemoved /\ NoOrphan

\* Steps that put nothing into a map: what leaves the policy is flagged, and
\* so is, unmapped or taken in, an entry whose NEW event is drained.
LEMMA KeptFrame ==
  ASSUME Inv, KeptInv,
         \A k \in Key : hashmap'[k] \in {hashmap[k], NoEntry},
         \A e \in Entry : ~removed'[e] => ~removed[e] \/ e \in tracked',
         \A e \in tracked : e \in tracked' \/ removed'[e],
         \A m \in Events : \/ m \in Events' \/ m.code # "NEW"
                           \/ removed'[m.entry] \/ m.entry \in tracked'
                           \/ ~Mapped(m.entry)
  PROVE  NoOrphan'
<1> SUFFICES ASSUME NEW e \in Entry, Mapped(e)', ~removed'[e], e \notin tracked'
             PROVE  Pending(e, "NEW")'
  BY DEF NoOrphan
<1>1. Mapped(e)
  BY DEF Mapped, Entry, NoEntry
<1>2. ~removed[e] /\ e \notin tracked
  OBVIOUS
<1>3. PICK m \in Events : m.entry = e /\ m.code = "NEW"
  BY <1>1, <1>2 DEF KeptInv, NoOrphan, Pending
<1> QED
  BY <1>1, <1>3 DEF Pending

\* An item that is not a WAIT, as sinkWrite sees it.
LEMMA Sunk ==
  ASSUME Inv, Draining, Pop, UNCHANGED <<pc, out, writeChan>>,
         Item.code # "WAIT"
  PROVE  /\ Item.entry \in Entry /\ Item \in Events
         /\ Events' \subseteq Events /\ Events \subseteq Events' \cup {Item}
         /\ Mapped(Item.entry) => ~deleted[Item.entry]
<1>1. Item.entry \in Entry /\ Item \in Events /\ Events' \subseteq Events
  BY ItemMade
<1>2. Events \subseteq Events' \cup {Item}
  BY PopKeeps DEF Inv, Draining
<1> QED
  BY <1>1, <1>2 DEF Inv, ListenerInv, MappedSilent

LEMMA KeptCallers ==
  ASSUME Inv, KeptInv,
         \/ \E c \in Client, k \in Key, cost \in Cost, exp \in Nat :
              SetSame(c, k, cost, exp) \/ SetFresh(c, k, cost, exp)
         \/ \E c \in Client, k \in Key : Delete(c, k)
         \/ \E s \in Shard : CloseShard(s)
  PROVE  CurRemoved' /\ NoOrphan'
<1> USE DEF KeptInv
<1>1. ASSUME NEW c \in Client, NEW k \in Key, NEW cost \in Cost, NEW exp \in Nat,
             SetSame(c, k, cost, exp)
      PROVE  CurRemoved' /\ NoOrphan'
  <2>1. Events \subseteq Events'
    BY <1>1, PostKeeps DEF SetSame, SetExisting, Inv, Rest, maintVars
  <2>2. UNCHANGED <<hashmap, tracked, removed, step, cur>>
    BY <1>1 DEF SetSame, SetExisting, Rest, policyVars, stepVars
  <2> QED
    BY <2>1, <2>2, KeptFrame DEF CurRemoved
<1>2. ASSUME NEW c \in Client, NEW k \in Key, NEW cost \in Cost, NEW exp \in Nat,
             SetFresh(c, k, cost, exp)
      PROVE  CurRemoved' /\ NoOrphan'
  <2>1. PICK e \in Entry :
          /\ ~Referenced(e)
          /\ hashmap' = [hashmap EXCEPT ![k] = e]
          /\ removed' = [removed EXCEPT ![e] = FALSE]
          /\ Post(c, WriteBufItem("NEW", e, cost, FALSE))
          /\ UNCHANGED <<tracked, step, cur, writeChan, writeBuffer>>
          /\ pc[c] = "idle"
    BY <1>2 DEF SetFresh, SetNew, Rest, stepVars, maintVars
  <2> DEFINE m == WriteBufItem("NEW", e, cost, FALSE)
  <2>2. Events \cup {m} \subseteq Events'
    BY <2>1, PostKeeps DEF Inv
  <2>3. m.entry = e /\ m.code = "NEW"
    BY DEF WriteBufItem
  <2>4. CurRemoved'
    BY <2>1 DEF CurRemoved, Referenced, Inv, TypeOK
  <2>5. ASSUME NEW f \in Entry, Mapped(f)', ~removed'[f], f \notin tracked'
        PROVE  Pending(f, "NEW")'
    <3>1. CASE f = e
      BY <2>2, <2>3, <3>1 DEF Pending
    <3>2. CASE f # e
      <4>1. Mapped(f) /\ ~removed[f] /\ f \notin tracked
        BY <2>1, <2>5, <3>2 DEF Mapped, Inv, TypeOK
      <4>2. Pending(f, "NEW")
        BY <4>1 DEF NoOrphan
      <4> QED
        BY <2>2, <4>2 DEF Pending
    <3> QED
      BY <3>1, <3>2
  <2> QED
    BY <2>4, <2>5 DEF NoOrphan
<1>3. ASSUME NEW c \in Client, NEW k \in Key, Delete(c, k)
      PROVE  CurRemoved' /\ NoOrphan'
  <2>1. Events \subseteq Events'
    BY <1>3, PostKeeps DEF Delete, Inv, maintVars
  <2>2. /\ UNCHANGED <<tracked, removed, step, cur>>
        /\ \A j \in Key : hashmap'[j] \in {hashmap[j], NoEntry}
    BY <1>3 DEF Delete, policyVars, stepVars, Inv, TypeOK
  <2> QED
    BY <2>1, <2>2, KeptFrame DEF CurRemoved
<1>4. ASSUME NEW s \in Shard, CloseShard(s)
      PROVE  CurRemoved' /\ NoOrphan'
  <2>1. Events \subseteq Events'
    BY <1>4, SameKeeps DEF CloseShard, clientVars, maintVars
  <2>2. /\ UNCHANGED <<tracked, removed, step, cur>>
        /\ \A j \in Key : hashmap'[j] \in {hashmap[j], NoEntry}
    BY <1>4 DEF CloseShard, policyVars, stepVars, Inv, TypeOK
  <2> QED
    BY <2>1, <2>2, KeptFrame DEF CurRemoved
<1> QED
  BY <1>1, <1>2, <1>3, <1>4

LEMMA KeptSinks ==
  ASSUME Inv, KeptInv,
         SinkIgnored \/ SinkNewExpired \/ SinkNew \/ SinkRemove \/ SinkUpdate
  PROVE  CurRemoved' /\ NoOrphan'
<1> USE DEF KeptInv
<1>0. /\ Draining /\ Pop /\ UNCHANGED <<hashmap, pc, out, writeChan>>
      /\ Item.code # "WAIT" /\ step = "next"
  BY DEF SinkIgnored, SinkNewExpired, SinkNew, SinkRemove, SinkUpdate,
     clientVars, mapVars, Draining
<1>1. PICK e \in Entry :
        /\ e = Item.entry /\ (Mapped(e) => ~deleted[e])
        /\ Events \subseteq Events' \cup {Item}
  BY <1>0, Sunk
<1>2. removed \in [Entry -> BOOLEAN] /\ \A k \in Key : hashmap'[k] \in {hashmap[k], NoEntry}
  BY <1>0 DEF Inv, TypeOK
<1>3. CASE SinkIgnored
  <2>1. UNCHANGED <<tracked, removed, step>>
    BY <1>3 DEF SinkIgnored, stepVars
  <2>2. Item.code = "NEW" => deleted[e]
    BY <1>1, <1>3 DEF SinkIgnored, Ignores
  <2>3. \A m \in Events : m \in Events' \/ m.code # "NEW" \/ ~Mapped(m.entry)
    BY <1>1, <2>2
  <2>4. NoOrphan'
    BY <1>2, <2>1, <2>3, KeptFrame
  <2> QED
    BY <1>0, <2>1, <2>4 DEF CurRemoved
<1>4. CASE SinkNewExpired
  <2>1. /\ UNCHANGED tracked /\ cur' = e
        /\ removed' = [removed EXCEPT ![e] = TRUE]
    BY <1>1, <1>4 DEF SinkNewExpired, ExpireStart
  <2>2. NoOrphan'
    BY <1>1, <1>2, <2>1, KeptFrame
  <2> QED
    BY <1>2, <2>1, <2>2 DEF CurRemoved
<1>5. CASE SinkNew
  <2>1. /\ tracked' = tracked \cup {e} /\ step' \in {"evict", "next"}
        /\ removed' = [removed EXCEPT ![e] = FALSE]
    BY <1>1, <1>5 DEF SinkNew, EvictNext
  <2>2. NoOrphan'
    BY <1>1, <1>2, <2>1, KeptFrame
  <2> QED
    BY <2>1, <2>2 DEF CurRemoved
<1>6. CASE SinkRemove
  <2>1. /\ tracked' = tracked \ {e} /\ UNCHANGED step
        /\ removed' = [removed EXCEPT ![e] = TRUE]
    BY <1>1, <1>6 DEF SinkRemove, PolicyRemove, stepVars
  <2>2. NoOrphan'
    BY <1>1, <1>2, <2>1, KeptFrame
  <2> QED
    BY <1>0, <2>1, <2>2 DEF CurRemoved
<1>7. CASE SinkUpdate
  <2>1. Item.code = "UPDATE"
    BY <1>7 DEF SinkUpdate
  <2>2. \/ UNCHANGED <<tracked, removed>> /\ step' \in {"evict", "next"}
        \/ /\ tracked' = tracked \ {e} /\ cur' = e
           /\ removed' = [removed EXCEPT ![e] = TRUE]
    BY <1>0, <1>1, <1>7 DEF SinkUpdate, UpdateCost, EvictNext
  <2>3. NoOrphan'
    BY <1>1, <1>2, <2>1, <2>2, KeptFrame
  <2> QED
    BY <1>2, <2>2, <2>3 DEF CurRemoved
<1> QED
  BY <1>3, <1>4, <1>5, <1>6, <1>7

LEMMA KeptRemovals ==
  ASSUME Inv, KeptInv, ExpireCheck \/ Unmap \/ Evict \/ TickExpire
  PROVE  CurRemoved' /\ NoOrphan'
<1> USE DEF KeptInv
<1>1. Events \subseteq Events'
  BY SameKeeps DEF ExpireCheck, Unmap, Evict, TickExpire, clientVars, maintVars
<1>2. removed \in [Entry -> BOOLEAN] /\ tracked \subseteq Entry /\ wheel \subseteq Entry
  BY DEF Inv, TypeOK
<1>3. CASE ExpireCheck
  <2>1. /\ UNCHANGED <<hashmap, removed, cur>> /\ tracked' = tracked \ {cur}
        /\ removed[cur]
    BY <1>3 DEF ExpireCheck, PolicyRemove, mapVars, CurRemoved
  <2>2. NoOrphan'
    BY <1>1, <2>1, KeptFrame DEF Inv, TypeOK
  <2> QED
    BY <2>1, <2>2 DEF CurRemoved
<1>4. CASE Unmap
  <2>1. /\ UNCHANGED <<removed, tracked>> /\ step' \in {"evict", "next"}
        /\ \A k \in Key : hashmap'[k] \in {hashmap[k], NoEntry}
    BY <1>4 DEF Unmap, policyVars, EvictNext, Inv, TypeOK
  <2>2. NoOrphan'
    BY <1>1, <2>1, KeptFrame
  <2> QED
    BY <2>1, <2>2 DEF CurRemoved
<1>5. CASE Evict
  <2>1. PICK v \in tracked : /\ tracked' = tracked \ {v} /\ cur' = v
                             /\ removed' = [removed EXCEPT ![v] = TRUE]
    BY <1>5 DEF Evict, PolicyRemove
  <2>2. UNCHANGED hashmap
    BY <1>5 DEF Evict, mapVars
  <2>3. NoOrphan'
    BY <1>1, <1>2, <2>1, <2>2, KeptFrame DEF Inv, TypeOK
  <2> QED
    BY <1>2, <2>1, <2>3 DEF CurRemoved
<1>6. CASE TickExpire
  <2>1. PICK e \in wheel : /\ removed' = [removed EXCEPT ![e] = TRUE] /\ cur' = e
    BY <1>6 DEF TickExpire, ExpireStart
  <2>2. UNCHANGED <<hashmap, tracked>>
    BY <1>6 DEF TickExpire, mapVars
  <2>3. NoOrphan'
    BY <1>1, <1>2, <2>1, <2>2, KeptFrame DEF Inv, TypeOK
  <2> QED
    BY <1>2, <2>1, <2>3 DEF CurRemoved
<1> QED
  BY <1>3, <1>4, <1>5, <1>6

LEMMA KeptStep == Inv /\ KeptInv /\ [Next]_vars => KeptInv'
<1> SUFFICES ASSUME Inv, KeptInv, [Next]_vars PROVE KeptInv'
  OBVIOUS
<1>1. BatchDone'
  BY BatchDoneStep DEF KeptInv
<1>2. CASE QuietStep
  <2>1. /\ UNCHANGED <<hashmap, removed, tracked>>
        /\ UNCHANGED <<step, cur>> \/ step' = "next"
    BY <1>2, QuietEffect DEF mapVars, policyVars, stepVars
  <2>2. \A m \in Events : m \in Events' \/ m.code # "NEW"
    BY <1>2, QuietKeeps DEF KeptInv
  <2>3. NoOrphan'
    BY <2>1, <2>2, KeptFrame
  <2> QED
    BY <1>1, <2>1, <2>3 DEF KeptInv, CurRemoved
<1> QED
  BY <1>1, <1>2, NextCases, KeptCallers, KeptSinks, KeptRemovals DEF KeptInv

LEMMA KeptInit == Init => KeptInv
BY DEF Init, KeptInv, BatchDone, CurRemoved, NoOrphan, Mapped, Entry, NoEntry

LEMMA KeptHolds == Spec => []KeptInv
BY KeptInit, KeptStep, InvHolds, PTL DEF Spec

\* However events overtake each other, and whatever evictions, expiries,
\* deletions and Close do meanwhile, what is in a map is known to the policy,
\* announced to it, or flagged as on its way out.
THEOREM NothingOrphaned == Spec => []NoOrphan
<1>1. KeptInv => NoOrphan
  BY DEF KeptInv
<1> QED
  BY <1>1, KeptHolds, PTL

LEMMA ClosedEmptyStep == Inv /\ ClosedEmpty /\ [Next]_vars => ClosedEmpty'
<1> SUFFICES ASSUME Inv, ClosedEmpty, [Next]_vars PROVE ClosedEmpty'
  OBVIOUS
<1>1. ASSUME UNCHANGED shardClosed,
             \A k \in Key : hashmap'[k] \in {hashmap[k], NoEntry}
      PROVE  ClosedEmpty'
  BY <1>1 DEF ClosedEmpty
<1>2. CASE QuietStep
  BY <1>1, <1>2, QuietEffect DEF mapVars
<1>3. ASSUME NEW c \in Client, NEW k \in Key, NEW cost \in Cost, NEW exp \in Nat,
             SetSame(c, k, cost, exp)
      PROVE  ClosedEmpty'
  BY <1>1, <1>3 DEF SetSame, SetExisting
<1>4. ASSUME NEW c \in Client, NEW k \in Key, NEW cost \in Cost, NEW exp \in Nat,
             SetFresh(c, k, cost, exp)
      PROVE  ClosedEmpty'
  BY <1>4 DEF SetFresh, SetNew, ClosedEmpty, Inv, TypeOK
<1>5. ASSUME NEW c \in Client, NEW k \in Key, Delete(c, k) PROVE ClosedEmpty'
  BY <1>1, <1>5 DEF Delete, Inv, TypeOK
<1>6. ASSUME NEW s \in Shard, CloseShard(s) PROVE ClosedEmpty'
  BY <1>6 DEF CloseShard, ClosedEmpty
<1>7. CASE Unmap
  <2>1. UNCHANGED shardClosed /\ \A k \in Key : hashmap'[k] \in {hashmap[k], NoEntry}
    BY <1>7 DEF Unmap, Inv, TypeOK
  <2> QED
    BY <1>1, <2>1
<1>8. CASE \/ SinkIgnored \/ SinkNewExpired \/ SinkNew \/ SinkRemove \/ SinkUpdate
           \/ ExpireCheck \/ Evict \/ TickExpire
  BY <1>1, <1>8 DEF mapVars, SinkIgnored, SinkNewExpired, SinkNew, SinkRemove,
     SinkUpdate, ExpireCheck, Evict, TickExpire
<1> QED
  BY <1>2, <1>3, <1>4, <1>5, <1>6, <1>7, <1>8, NextCases

\* A Set that has read the shard's map before Close, or comes after it, brings
\* nothing back: a closed shard stays empty.
THEOREM ClosedForGood == Spec => []ClosedEmpty
<1>1. Init => ClosedEmpty
  BY DEF Init, ClosedEmpty
<1> QED
  BY <1>1, ClosedEmptyStep, InvHolds, PTL DEF Spec

-----------------------------------------------------------------------------
(* The NEW event of an entry is in one place at most, and the policy does  *)
(* not know the entry as long as it is there.                              *)

IsNew(m, e) == m.code = "NEW" /\ m.entry = e
OutNew(e)   == {c \in Client : pc[c] = "send" /\ IsNew(out[c], e)}
ChanNew(e)  == {i \in 1..Len(writeChan) : IsNew(writeChan[i], e)}
BatchNew(e) == {i \in 1..Len(writeBuffer) : IsNew(writeBuffer[i], e)}
Single(S)   == \A x, y \in S : x = y

AnnouncedOnce(e) ==
  /\ Single(OutNew(e)) /\ Single(ChanNew(e)) /\ Single(BatchNew(e))
  /\ OutNew(e) # {} => ChanNew(e) = {} /\ BatchNew(e) = {} /\ e \notin tracked
  /\ ChanNew(e) # {} => BatchNew(e) = {} /\ e \notin tracked
  /\ BatchNew(e) # {} => e \notin tracked

NewOnce == \A e \in Entry : AnnouncedOnce(e)

LEMMA AnnouncedShrinks ==
  ASSUME NEW e, AnnouncedOnce(e),
         OutNew(e)' \subseteq OutNew(e), ChanNew(e)' \subseteq ChanNew(e),
         BatchNew(e)' \subseteq BatchNew(e), tracked' \subseteq tracked
  PROVE  AnnouncedOnce(e)'
BY DEF AnnouncedOnce, Single

LEMMA NewSame ==
  ASSUME NewOnce, UNCHANGED <<pc, out, writeChan, writeBuffer>>, tracked' \subseteq tracked
  PROVE  NewOnce'
<1> SUFFICES ASSUME NEW e \in Entry PROVE AnnouncedOnce(e)'
  BY DEF NewOnce
<1>1. OutNew(e)' = OutNew(e) /\ ChanNew(e)' = ChanNew(e) /\ BatchNew(e)' = BatchNew(e)
  BY DEF OutNew, ChanNew, BatchNew
<1> QED
  BY <1>1, AnnouncedShrinks DEF NewOnce

LEMMA NewPost ==
  ASSUME TypeOK, NewOnce, NEW c \in Client, pc[c] = "idle", NEW m, Post(c, m),
         UNCHANGED <<tracked, writeChan, writeBuffer>>,
         m.code = "NEW" => /\ m.entry \notin tracked
                           /\ \A x \in Events : x.entry # m.entry
  PROVE  NewOnce'
<1> SUFFICES ASSUME NEW e \in Entry PROVE AnnouncedOnce(e)'
  BY DEF NewOnce
<1>1. ChanNew(e)' = ChanNew(e) /\ BatchNew(e)' = BatchNew(e)
  BY DEF ChanNew, BatchNew
<1>2. CASE ~IsNew(m, e)
  <2>1. OutNew(e)' \subseteq OutNew(e)
    BY <1>2 DEF OutNew, Post, TypeOK
  <2> QED
    BY <1>1, <2>1, AnnouncedShrinks DEF NewOnce
<1>3. CASE IsNew(m, e)
  <2>1. e \notin tracked /\ \A x \in Events : x.entry # e
    BY <1>3 DEF IsNew
  <2>2. OutNew(e) = {}
    BY <2>1 DEF OutNew, IsNew, Events
  <2>3. ChanNew(e) = {} /\ BatchNew(e) = {}
    BY <2>1 DEF ChanNew, BatchNew, IsNew, Events, Range, TypeOK
  <2>4. OutNew(e)' \subseteq {c}
    BY <2>2 DEF OutNew, Post, TypeOK
  <2> QED
    BY <1>1, <2>1, <2>3, <2>4 DEF AnnouncedOnce, Single
<1> QED
  BY <1>2, <1>3

LEMMA NewSend ==
  ASSUME TypeOK, NewOnce, NEW c \in Client, Send(c) PROVE NewOnce'
<1> SUFFICES ASSUME NEW e \in Entry PROVE AnnouncedOnce(e)'
  BY DEF NewOnce
<1>0. UNCHANGED <<tracked, writeBuffer>> /\ out[c] \in Event /\ AnnouncedOnce(e)
  BY DEF Send, policyVars, maintVars, TypeOK, NewOnce
<1>1. BatchNew(e)' = BatchNew(e)
  BY <1>0 DEF BatchNew
<1>2. OutNew(e)' = OutNew(e) \ {c}
  BY DEF OutNew, Send, TypeOK
<1>3. /\ Len(writeChan') = Len(writeChan) + 1 /\ Len(writeChan) \in Nat
      /\ writeChan'[Len(writeChan) + 1] = out[c]
      /\ \A i \in 1..Len(writeChan) : writeChan'[i] = writeChan[i]
  BY <1>0 DEF Send, TypeOK
<1>4. CASE ~IsNew(out[c], e)
  <2>1. ChanNew(e)' = ChanNew(e)
    BY <1>3, <1>4 DEF ChanNew
  <2> QED
    BY <1>0, <1>1, <1>2, <2>1, AnnouncedShrinks
<1>5. CASE IsNew(out[c], e)
  <2>1. c \in OutNew(e)
    BY <1>5 DEF OutNew, Send
  <2>2. OutNew(e) \ {c} = {} /\ ChanNew(e) = {} /\ BatchNew(e) = {} /\ e \notin tracked
    BY <1>0, <2>1 DEF AnnouncedOnce, Single
  <2>3. ChanNew(e)' \subseteq {Len(writeChan) + 1}
    BY <1>3, <2>2 DEF ChanNew
  <2> QED
    BY <1>0, <1>1, <1>2, <2>2, <2>3 DEF AnnouncedOnce, Single
<1> QED
  BY <1>4, <1>5

LEMMA NewRecv ==
  ASSUME TypeOK, BatchDone, NewOnce, Recv \/ Collect PROVE NewOnce'
<1> SUFFICES ASSUME NEW e \in Entry PROVE AnnouncedOnce(e)'
  BY DEF NewOnce
<1>0. /\ UNCHANGED <<tracked, pc, out>> /\ AnnouncedOnce(e)
      /\ writeChan # << >> /\ writeChan' = Tail(writeChan)
      /\ Head(writeChan) = writeChan[1]
  BY DEF Recv, Collect, policyVars, clientVars, NewOnce
<1>1. OutNew(e)' = OutNew(e)
  BY <1>0 DEF OutNew
<1>2. /\ Len(writeChan) \in Nat /\ Len(writeChan) >= 1
      /\ Len(writeChan') = Len(writeChan) - 1
      /\ \A i \in 1..(Len(writeChan) - 1) : writeChan'[i] = writeChan[i + 1]
      /\ Head(writeChan) \in Event
  BY <1>0 DEF TypeOK
<1>3. ChanNew(e)' = {i \in 1..(Len(writeChan) - 1) : i + 1 \in ChanNew(e)}
  BY <1>2 DEF ChanNew
<1>4. /\ Len(writeBuffer) \in Nat
      /\ Len(writeBuffer') = Len(writeBuffer) + 1
      /\ writeBuffer'[Len(writeBuffer) + 1] = Head(writeChan)
      /\ \A i \in 1..Len(writeBuffer) : writeBuffer'[i] = writeBuffer[i]
  <2>1. CASE Recv
    BY <2>1 DEF Recv, BatchDone
  <2>2. CASE Collect
    BY <1>2, <2>2 DEF Collect, TypeOK
  <2> QED
    BY <2>1, <2>2
<1>5. Single(ChanNew(e)')
  <2>1. ASSUME NEW i \in ChanNew(e)', NEW j \in ChanNew(e)' PROVE i = j
    <3>1. i + 1 = j + 1 /\ i \in Int /\ j \in Int
      BY <1>0, <1>2, <1>3 DEF AnnouncedOnce, Single
    <3> QED
      BY <3>1
  <2> QED
    BY <2>1 DEF Single
<1>6. ChanNew(e)' # {} => ChanNew(e) # {}
  BY <1>3
<1>7. CASE ~IsNew(Head(writeChan), e)
  <2>1. BatchNew(e)' = BatchNew(e)
    BY <1>4, <1>7 DEF BatchNew
  <2> QED
    BY <1>0, <1>1, <1>5, <1>6, <2>1 DEF AnnouncedOnce
<1>8. CASE IsNew(Head(writeChan), e)
  <2>1. 1 \in ChanNew(e)
    BY <1>0, <1>2, <1>8 DEF ChanNew
  <2>2. BatchNew(e) = {} /\ e \notin tracked /\ OutNew(e) = {}
    BY <1>0, <2>1 DEF AnnouncedOnce
  <2>3. ChanNew(e)' = {}
    <3>1. ASSUME NEW i \in ChanNew(e)' PROVE FALSE
      <4>1. i \in Nat /\ i >= 1 /\ i + 1 = 1
        BY <1>0, <1>2, <1>3, <2>1 DEF AnnouncedOnce, Single
      <4> QED
        BY <4>1
    <3> QED
      BY <3>1
  <2>4. BatchNew(e)' \subseteq {Len(writeBuffer) + 1}
    BY <1>4, <2>2 DEF BatchNew
  <2> QED
    BY <1>0, <1>1, <2>2, <2>3, <2>4 DEF AnnouncedOnce, Single
<1> QED
  BY <1>7, <1>8

LEMMA NewPop ==
  ASSUME TypeOK, NewOnce, writeBuffer # << >>, Pop,
         UNCHANGED <<pc, out, writeChan>>,
         \/ tracked' \subseteq tracked
         \/ Item.code = "NEW" /\ tracked' = tracked \cup {Item.entry}
  PROVE  /\ NewOnce'
         /\ Item.code = "NEW" /\ Item.entry \in Entry => Item.entry \notin tracked
<1>1. /\ Len(writeBuffer) \in Nat /\ Len(writeBuffer) >= 1
      /\ Len(writeBuffer') = Len(writeBuffer) - 1
      /\ \A i \in 1..(Len(writeBuffer) - 1) : writeBuffer'[i] = writeBuffer[i + 1]
      /\ Item = writeBuffer[1]
  BY DEF TypeOK, Pop, Item
<1>2. ASSUME NEW e \in Entry, IsNew(Item, e)
      PROVE  /\ 1 \in BatchNew(e)
             /\ OutNew(e) = {} /\ ChanNew(e) = {} /\ e \notin tracked
             /\ \A i \in BatchNew(e) : i = 1
  <2>1. 1 \in BatchNew(e)
    BY <1>1, <1>2 DEF BatchNew
  <2> QED
    BY <2>1 DEF NewOnce, AnnouncedOnce, Single
<1>3. ASSUME NEW e \in Entry PROVE AnnouncedOnce(e)'
  <2>1. OutNew(e)' = OutNew(e) /\ ChanNew(e)' = ChanNew(e) /\ AnnouncedOnce(e)
    BY DEF OutNew, ChanNew, NewOnce
  <2>2. BatchNew(e)' = {i \in 1..(Len(writeBuffer) - 1) : i + 1 \in BatchNew(e)}
    BY <1>1 DEF BatchNew
  <2>3. Single(BatchNew(e)')
    <3>1. ASSUME NEW i \in BatchNew(e)', NEW j \in BatchNew(e)' PROVE i = j
      <4>1. i + 1 = j + 1 /\ i \in Int /\ j \in Int
        BY <1>1, <2>1, <2>2 DEF AnnouncedOnce, Single
      <4> QED
        BY <4>1
    <3> QED
      BY <3>1 DEF Single
  <2>4. BatchNew(e)' # {} => BatchNew(e) # {}
    BY <2>2
  <2>5. CASE IsNew(Item, e)
    <3>1. BatchNew(e)' = {}
      <4>1. ASSUME NEW i \in BatchNew(e)' PROVE FALSE
        <5>1. i \in Nat /\ i >= 1 /\ i + 1 = 1
          BY <1>1, <1>2, <2>2, <2>5
        <5> QED
          BY <5>1
      <4> QED
        BY <4>1
    <3> QED
      BY <1>2, <2>1, <2>5, <3>1 DEF AnnouncedOnce, Single
  <2>6. CASE ~IsNew(Item, e)
    <3>1. e \in tracked' => e \in tracked
      BY <2>6 DEF IsNew
    <3> QED
      BY <2>1, <2>3, <2>4, <3>1 DEF AnnouncedOnce
  <2> QED
    BY <2>5, <2>6
<1> QED
  BY <1>2, <1>3 DEF NewOnce, IsNew

LEMMA NewQuiet ==
  ASSUME Inv, BatchDone, NewOnce, QuietStep PROVE NewOnce'
<1> USE DEF Inv
<1>0. UNCHANGED tracked
  BY QuietEffect DEF policyVars
<1>1. ASSUME NEW c \in Client, Wait(c) PROVE NewOnce'
  <2>1. WaitItem(c).code = "WAIT"
    BY DEF WaitItem
  <2> QED
    BY <1>0, <1>1, <2>1, NewPost DEF Wait, maintVars
<1>2. ASSUME NEW c \in Client, Send(c) PROVE NewOnce'
  BY <1>2, NewSend
<1>3. ASSUME NEW c \in Client, Wake(c) PROVE NewOnce'
  <2> SUFFICES ASSUME NEW e \in Entry PROVE AnnouncedOnce(e)'
    BY DEF NewOnce
  <2>1. OutNew(e)' \subseteq OutNew(e) /\ ChanNew(e)' = ChanNew(e) /\ BatchNew(e)' = BatchNew(e)
    BY <1>3 DEF Wake, OutNew, ChanNew, BatchNew, TypeOK
  <2> QED
    BY <1>0, <2>1, AnnouncedShrinks DEF NewOnce
<1>4. CASE Recv \/ Collect
  BY <1>4, NewRecv
<1>5. CASE SinkWait
  BY <1>0, <1>5, NewPop DEF SinkWait, Draining, clientVars
<1>6. CASE \/ UNCHANGED vars \/ Close \/ ExpireSkip \/ CollectDone \/ Lock
           \/ DrainDone \/ Unlock \/ MaintExit \/ Tick \/ TickDone \/ TickExit
           \/ Elapse
  BY <1>0, <1>6, NewSame DEF vars, clientVars, maintVars, Close, ExpireSkip,
     CollectDone, Lock, DrainDone, Unlock, MaintExit, Tick, TickDone, TickExit,
     Elapse
<1> QED
  BY <1>1, <1>2, <1>3, <1>4, <1>5, <1>6 DEF QuietStep

\* What a removal or an update does to the policy's entries.
LEMMA TrackedShrinks ==
  ASSUME Inv, SinkIgnored \/ SinkNewExpired \/ SinkRemove \/ SinkUpdate
              \/ ExpireCheck \/ Unmap \/ Evict \/ TickExpire
  PROVE  tracked' \subseteq tracked
BY DEF SinkIgnored, SinkNewExpired, SinkRemove, SinkUpdate, ExpireCheck, Unmap,
   Evict, TickExpire, PolicyRemove, UpdateCost, policyVars

LEMMA NewStep == Inv /\ BatchDone /\ NewOnce /\ [Next]_vars => NewOnce'
<1> SUFFICES ASSUME Inv, BatchDone, NewOnce, [Next]_vars PROVE NewOnce'
  OBVIOUS
<1>1. CASE QuietStep
  BY <1>1, NewQuiet
<1>2. ASSUME NEW c \in Client, NEW k \in Key, NEW cost \in Cost, NEW exp \in Nat,
             SetSame(c, k, cost, exp)
      PROVE  NewOnce'
  <2>1. PICK m : /\ Post(c, m) /\ pc[c] = "idle" /\ m.code = "UPDATE"
                 /\ UNCHANGED <<tracked, writeChan, writeBuffer>>
    <3> DEFINE m == WriteBufItem("UPDATE", hashmap[k], cost - weight[hashmap[k]],
                                 exp > 0 /\ exp # expire[hashmap[k]])
    <3>1. m.code = "UPDATE"
      BY DEF WriteBufItem
    <3>2. /\ Post(c, m) /\ pc[c] = "idle"
          /\ UNCHANGED <<tracked, writeChan, writeBuffer>>
      BY <1>2 DEF SetSame, SetExisting, Rest, policyVars, maintVars
    <3> QED
      BY <3>1, <3>2
  <2> QED
    BY <2>1, NewPost DEF Inv
<1>3. ASSUME NEW c \in Client, NEW k \in Key, NEW cost \in Cost, NEW exp \in Nat,
             SetFresh(c, k, cost, exp)
      PROVE  NewOnce'
  <2>1. PICK e \in Entry :
          /\ ~Referenced(e)
          /\ Post(c, WriteBufItem("NEW", e, cost, FALSE))
          /\ UNCHANGED <<tracked, writeChan, writeBuffer>>
          /\ pc[c] = "idle"
    BY <1>3 DEF SetFresh, SetNew, Rest, maintVars
  <2>2. WriteBufItem("NEW", e, cost, FALSE).entry = e
    BY DEF WriteBufItem
  <2>3. e \notin tracked /\ \A x \in Events : x.entry # e
    BY <2>1 DEF Referenced
  <2> QED
    BY <2>1, <2>2, <2>3, NewPost DEF Inv
<1>4. ASSUME NEW c \in Client, NEW k \in Key, Delete(c, k) PROVE NewOnce'
  <2>1. WriteBufItem("REMOVE", hashmap[k], 0, FALSE).code = "REMOVE"
    BY DEF WriteBufItem
  <2> QED
    BY <1>4, <2>1, NewPost DEF Inv, Delete, policyVars, maintVars
<1>5. ASSUME NEW s \in Shard, CloseShard(s) PROVE NewOnce'
  BY <1>5, NewSame DEF CloseShard, policyVars, clientVars, maintVars
<1>6. CASE SinkNew
  BY <1>6, NewPop DEF Inv, SinkNew, Draining, clientVars
<1>7. CASE SinkIgnored \/ SinkNewExpired \/ SinkRemove \/ SinkUpdate
  <2>1. writeBuffer # << >> /\ Pop /\ UNCHANGED <<pc, out, writeChan>>
    BY <1>7 DEF SinkIgnored, SinkNewExpired, SinkRemove, SinkUpdate, Draining,
       clientVars
  <2> QED
    BY <1>7, <2>1, TrackedShrinks, NewPop DEF Inv
<1>8. CASE ExpireCheck \/ Unmap \/ Evict \/ TickExpire
  <2>1. UNCHANGED <<pc, out, writeChan, writeBuffer>>
    BY <1>8 DEF ExpireCheck, Unmap, Evict, TickExpire, clientVars, maintVars
  <2> QED
    BY <1>8, <2>1, TrackedShrinks, NewSame
<1> QED
  BY <1>1, <1>2, <1>3, <1>4, <1>5, <1>6, <1>7, <1>8, NextCases

LEMMA NewInit == Init => NewOnce
BY DEF Init, NewOnce, AnnouncedOnce, OutNew, ChanNew, BatchNew, Single

LEMMA NewHolds == Spec => []NewOnce
<1>1. KeptInv => BatchDone
  BY DEF KeptInv
<1> QED
  BY <1>1, NewInit, NewStep, KeptHolds, InvHolds, PTL DEF Spec
-----------------------------------------------------------------------------
(* Wait, when one caller uses it.                                          *)

OneWaiter == Single(Waiter)

ChanWait  == {i \in 1..Len(writeChan) : writeChan[i].code = "WAIT"}
BatchWait == {i \in 1..Len(writeBuffer) : writeBuffer[i].code = "WAIT"}

\* The WAIT event is in the channel, in the batch or counted, in one of these
\* places, and only while its caller waits.
Awaited ==
  /\ \A c \in Client : pc[c] = "wait" \/ (pc[c] = "send" /\ out[c].code = "WAIT")
                         => c \in Waiter
  /\ Single(ChanWait) /\ Single(BatchWait) /\ waits \in {0, 1}
  /\ ChanWait # {} => BatchWait = {} /\ waits = 0
  /\ BatchWait # {} => waits = 0
  /\ ChanWait # {} \/ BatchWait # {} \/ waits # 0 => \E c \in Client : pc[c] = "wait"

LEMMA AwaitedSame ==
  ASSUME Awaited, UNCHANGED <<pc, out, writeChan, writeBuffer, waits>>
  PROVE  Awaited'
<1>1. ChanWait' = ChanWait /\ BatchWait' = BatchWait
  BY DEF ChanWait, BatchWait
<1> QED
  BY <1>1 DEF Awaited, Single

LEMMA AwaitedPost ==
  ASSUME TypeOK, Awaited, NEW c \in Client, pc[c] = "idle", NEW m, Post(c, m),
         m.code = "WAIT" => c \in Waiter,
         UNCHANGED <<writeChan, writeBuffer, waits>>
  PROVE  Awaited'
<1>1. ChanWait' = ChanWait /\ BatchWait' = BatchWait
  BY DEF ChanWait, BatchWait
<1>2. \A d \in Client : /\ pc[d] = "wait" <=> pc'[d] = "wait"
                        /\ d # c => pc'[d] = pc[d] /\ out'[d] = out[d]
                        /\ out'[c] = m /\ pc'[c] = "send"
  BY DEF Post, TypeOK
<1> QED
  BY <1>1, <1>2 DEF Awaited, Single

LEMMA AwaitedSend ==
  ASSUME OneWaiter, TypeOK, Awaited, NEW c \in Client, Send(c)
  PROVE  Awaited'
<1>0. /\ UNCHANGED <<writeBuffer, waits>> /\ out[c] \in Event /\ pc[c] = "send"
      /\ \A d \in Client : d # c => pc'[d] = pc[d] /\ out'[d] = out[d]
      /\ pc'[c] = IF out[c].code = "WAIT" THEN "wait" ELSE "idle"
  BY DEF Send, maintVars, TypeOK
<1>1. BatchWait' = BatchWait
  BY <1>0 DEF BatchWait
<1>2. /\ Len(writeChan') = Len(writeChan) + 1 /\ Len(writeChan) \in Nat
      /\ writeChan'[Len(writeChan) + 1] = out[c]
      /\ \A i \in 1..Len(writeChan) : writeChan'[i] = writeChan[i]
  BY <1>0 DEF Send, TypeOK
<1>3. CASE out[c].code # "WAIT"
  <2>1. ChanWait' = ChanWait
    BY <1>2, <1>3 DEF ChanWait
  <2>2. \A d \in Client : pc[d] = "wait" <=> pc'[d] = "wait"
    BY <1>0, <1>3
  <2>3. \A d \in Client : pc'[d] = "send" => pc[d] = "send" /\ out'[d] = out[d]
    BY <1>0, <1>3
  <2> QED
    BY <1>0, <1>1, <2>1, <2>2, <2>3 DEF Awaited, Single
<1>4. CASE out[c].code = "WAIT"
  <2>1. c \in Waiter /\ \A d \in Client : pc[d] # "wait"
    BY <1>0, <1>4 DEF Awaited, OneWaiter, Single
  <2>2. ChanWait = {} /\ BatchWait = {} /\ waits = 0
    BY <2>1 DEF Awaited
  <2>3. ChanWait' \subseteq {Len(writeChan) + 1}
    BY <1>2, <2>2 DEF ChanWait
  <2>4. pc'[c] = "wait"
    BY <1>0, <1>4
  <2> QED
    BY <1>0, <1>1, <2>1, <2>2, <2>3, <2>4 DEF Awaited, Single
<1> QED
  BY <1>3, <1>4

LEMMA AwaitedRecv ==
  ASSUME TypeOK, BatchDone, Awaited, Recv \/ Collect PROVE Awaited'
<1>0. /\ UNCHANGED <<pc, out, waits>>
      /\ writeChan # << >> /\ writeChan' = Tail(writeChan)
      /\ Head(writeChan) = writeChan[1]
  BY DEF Recv, Collect, clientVars
<1>1. /\ Len(writeChan) \in Nat /\ Len(writeChan) >= 1
      /\ Len(writeChan') = Len(writeChan) - 1
      /\ \A i \in 1..(Len(writeChan) - 1) : writeChan'[i] = writeChan[i + 1]
      /\ Head(writeChan) \in Event
  BY <1>0 DEF TypeOK
<1>2. ChanWait' = {i \in 1..(Len(writeChan) - 1) : i + 1 \in ChanWait}
  BY <1>1 DEF ChanWait
<1>3. /\ Len(writeBuffer) \in Nat
      /\ Len(writeBuffer') = Len(writeBuffer) + 1
      /\ writeBuffer'[Len(writeBuffer) + 1] = Head(writeChan)
      /\ \A i \in 1..Len(writeBuffer) : writeBuffer'[i] = writeBuffer[i]
  <2>1. CASE Recv
    BY <2>1 DEF Recv, BatchDone
  <2>2. CASE Collect
    BY <1>1, <2>2 DEF Collect, TypeOK
  <2> QED
    BY <2>1, <2>2
<1>4. \A i \in ChanWait' : i \in Int /\ i >= 1 /\ i + 1 \in ChanWait
  BY <1>1, <1>2
<1>5. Single(ChanWait')
  BY <1>4 DEF Awaited, Single
<1>6. CASE Head(writeChan).code # "WAIT"
  <2>1. BatchWait' = BatchWait
    BY <1>3, <1>6 DEF BatchWait
  <2> QED
    BY <1>0, <1>4, <1>5, <2>1 DEF Awaited
<1>7. CASE Head(writeChan).code = "WAIT"
  <2>1. 1 \in ChanWait
    BY <1>0, <1>1, <1>7 DEF ChanWait
  <2>2. BatchWait = {} /\ waits = 0 /\ \E c \in Client : pc[c] = "wait"
    BY <2>1 DEF Awaited
  <2>3. ChanWait' = {}
    <3>1. ASSUME NEW i \in ChanWait' PROVE FALSE
      <4>1. i \in Int /\ i >= 1 /\ i + 1 = 1
        BY <1>4, <2>1 DEF Awaited, Single
      <4> QED
        BY <4>1
    <3> QED
      BY <3>1
  <2>4. BatchWait' \subseteq {Len(writeBuffer) + 1}
    BY <1>3, <2>2 DEF BatchWait
  <2> QED
    BY <1>0, <2>2, <2>3, <2>4 DEF Awaited, Single
<1> QED
  BY <1>6, <1>7

LEMMA AwaitedPop ==
  ASSUME TypeOK, Awaited, writeBuffer # << >>, Pop,
         UNCHANGED <<pc, out, writeChan>>,
         waits' = IF Item.code = "WAIT" THEN waits + 1 ELSE waits
  PROVE  Awaited'
<1>1. /\ Len(writeBuffer) \in Nat /\ Len(writeBuffer) >= 1
      /\ Len(writeBuffer') = Len(writeBuffer) - 1
      /\ \A i \in 1..(Len(writeBuffer) - 1) : writeBuffer'[i] = writeBuffer[i + 1]
      /\ Item = writeBuffer[1]
  BY DEF TypeOK, Pop, Item
<1>2. ChanWait' = ChanWait
  BY DEF ChanWait
<1>3. BatchWait' = {i \in 1..(Len(writeBuffer) - 1) : i + 1 \in BatchWait}
  BY <1>1 DEF BatchWait
<1>4. \A i \in BatchWait' : i \in Int /\ i >= 1 /\ i + 1 \in BatchWait
  BY <1>1, <1>3
<1>5. Single(BatchWait')
  BY <1>4 DEF Awaited, Single
<1>6. CASE Item.code # "WAIT"
  BY <1>2, <1>4, <1>5, <1>6 DEF Awaited
<1>7. CASE Item.code = "WAIT"
  <2>1. 1 \in BatchWait
    BY <1>1, <1>7 DEF BatchWait
  <2>2. ChanWait = {} /\ waits = 0 /\ \E c \in Client : pc[c] = "wait"
    BY <2>1 DEF Awaited
  <2>3. BatchWait' = {}
    <3>1. ASSUME NEW i \in BatchWait' PROVE FALSE
      <4>1. i \in Int /\ i >= 1 /\ i + 1 = 1
        BY <1>4, <2>1 DEF Awaited, Single
      <4> QED
        BY <4>1
    <3> QED
      BY <3>1
  <2>4. waits' = 1
    BY <1>7, <2>2
  <2> QED
    BY <1>2, <2>2, <2>3, <2>4 DEF Awaited, Single
<1> QED
  BY <1>6, <1>7

LEMMA AwaitedQuiet ==
  ASSUME OneWaiter, Inv, BatchDone, Awaited, QuietStep PROVE Awaited'
<1> USE DEF Inv
<1>1. ASSUME NEW c \in Client, Wait(c) PROVE Awaited'
  BY <1>1, AwaitedPost DEF Wait, maintVars
<1>2. ASSUME NEW c \in Client, Send(c) PROVE Awaited'
  BY <1>2, AwaitedSend
<1>3. ASSUME NEW c \in Client, Wake(c) PROVE Awaited'
  <2>1. ChanWait' = ChanWait /\ BatchWait' = BatchWait
    BY <1>3 DEF Wake, ChanWait, BatchWait
  <2>2. waits > 0 /\ waits' = waits - 1
    BY <1>3 DEF Wake
  <2>3. waits' = 0 /\ ChanWait = {} /\ BatchWait = {}
    BY <2>2 DEF Awaited
  <2>4. \A d \in Client : /\ pc'[d] = "wait" => pc[d] = "wait"
                          /\ pc'[d] = "send" => pc[d] = "send" /\ out'[d] = out[d]
    BY <1>3 DEF Wake, TypeOK
  <2> QED
    BY <2>1, <2>3, <2>4 DEF Awaited, Single
<1>4. CASE Recv \/ Collect
  BY <1>4, AwaitedRecv
<1>5. CASE SinkWait
  BY <1>5, AwaitedPop DEF SinkWait, Draining, clientVars
<1>6. CASE \/ UNCHANGED vars \/ Close \/ ExpireSkip \/ CollectDone \/ Lock
           \/ DrainDone \/ Unlock \/ MaintExit \/ Tick \/ TickDone \/ TickExit
           \/ Elapse
  BY <1>6, AwaitedSame DEF vars, clientVars, maintVars, Close, ExpireSkip,
     CollectDone, Lock, DrainDone, Unlock, MaintExit, Tick, TickDone, TickExit,
     Elapse
<1> QED
  BY <1>1, <1>2, <1>3, <1>4, <1>5, <1>6 DEF QuietStep

LEMMA AwaitedStep == OneWaiter /\ Inv /\ BatchDone /\ Awaited /\ [Next]_vars => Awaited'
<1> SUFFICES ASSUME OneWaiter, Inv, BatchDone, Awaited, [Next]_vars PROVE Awaited'
  OBVIOUS
<1>1. CASE QuietStep
  BY <1>1, AwaitedQuiet
<1>2. ASSUME NEW c \in Client, NEW k \in Key, NEW cost \in Cost, NEW exp \in Nat,
             SetSame(c, k, cost, exp) \/ SetFresh(c, k, cost, exp)
      PROVE  Awaited'
  <2>1. PICK code, e, change, resched :
          /\ Post(c, WriteBufItem(code, e, change, resched))
          /\ code \in {"UPDATE", "NEW"}
    BY <1>2 DEF SetSame, SetFresh, SetExisting, SetNew
  <2>2. WriteBufItem(code, e, change, resched).code # "WAIT"
    BY <2>1 DEF WriteBufItem
  <2>3. pc[c] = "idle" /\ UNCHANGED <<writeChan, writeBuffer, waits>>
    BY <1>2 DEF SetSame, SetFresh, Rest, maintVars
  <2> QED
    BY <2>1, <2>2, <2>3, AwaitedPost DEF Inv
<1>3. ASSUME NEW c \in Client, NEW k \in Key, Delete(c, k) PROVE Awaited'
  <2>1. WriteBufItem("REMOVE", hashmap[k], 0, FALSE).code # "WAIT"
    BY DEF WriteBufItem
  <2> QED
    BY <1>3, <2>1, AwaitedPost DEF Inv, Delete, maintVars
<1>4. CASE SinkIgnored \/ SinkNewExpired \/ SinkNew \/ SinkRemove \/ SinkUpdate
  <2>1. /\ writeBuffer # << >> /\ Pop /\ UNCHANGED <<pc, out, writeChan, waits>>
        /\ Item.code # "WAIT"
    BY <1>4 DEF SinkIgnored, SinkNewExpired, SinkNew, SinkRemove, SinkUpdate,
       Draining, clientVars
  <2> QED
    BY <2>1, AwaitedPop DEF Inv
<1>5. CASE \/ \E s \in Shard : CloseShard(s)
           \/ ExpireCheck \/ Unmap \/ Evict \/ TickExpire
  BY <1>5, AwaitedSame DEF CloseShard, ExpireCheck, Unmap, Evict, TickExpire,
     clientVars, maintVars
<1> QED
  BY <1>1, <1>2, <1>3, <1>4, <1>5, NextCases

\* A Wait returns after its own event, though waitChan says nothing of whom it
\* is for, as long as one caller uses it.
THEOREM WaitsForItsOwn == OneWaiter => (Spec => []WaitDrained)
<1> SUFFICES ASSUME OneWaiter PROVE Spec => []WaitDrained
  OBVIOUS
<1>1. Init => Awaited
  BY DEF Init, Awaited, ChanWait, BatchWait, Single
<1>2. Inv /\ KeptInv /\ Awaited /\ [Next]_vars => Awaited'
  BY AwaitedStep DEF KeptInv
<1>3. Awaited => WaitDrained
  <2> SUFFICES ASSUME Awaited, NEW c \in Waiter, pc[c] = "idle"
               PROVE  /\ \A i \in 1..Len(writeChan) : writeChan[i] # WaitItem(c)
                      /\ \A i \in 1..Len(writeBuffer) : writeBuffer[i] # WaitItem(c)
    BY DEF WaitDrained
  <2>1. \A d \in Client : pc[d] # "wait"
    BY DEF Awaited, OneWaiter, Single
  <2>2. ChanWait = {} /\ BatchWait = {}
    BY <2>1 DEF Awaited
  <2>3. WaitItem(c).code = "WAIT"
    BY DEF WaitItem
  <2> QED
    BY <2>2, <2>3 DEF ChanWait, BatchWait
<1> QED
  BY <1>1, <1>2, <1>3, KeptHolds, InvHolds, PTL DEF Spec

-----------------------------------------------------------------------------
(* Sums over finite sets.  MapThenSumSet adds up a set by taking out one   *)
(* element after the other; which one comes next does not matter.          *)

Pick(s) == CHOOSE x \in s : TRUE

IsSum(g, f, S) ==
  g = [s \in SUBSET S |->
         IF s = {} THEN 0 ELSE f[Pick(s)] + g[s \ {Pick(s)}]]

Total(f, S) == (CHOOSE g : IsSum(g, f, S))[S]

LEMMA Unfold ==
  ASSUME NEW f, NEW S
  PROVE  MapThenSumSet(LAMBDA e : f[e], S) = Total(f, S)
BY DEF MapThenSumSet, MapThenFoldSet, Total, IsSum, Pick

\* What is wrong for some part of a finite set is wrong for a smallest part.
LEMMA Smallest ==
  ASSUME NEW S, IsFiniteSet(S), NEW Bad \in SUBSET (SUBSET S), Bad # {}
  PROVE  \E s \in Bad : \A x \in s : s \ {x} \notin Bad
<1> DEFINE Sizes == {Cardinality(s) : s \in Bad}
           R == OpToRel(<, Nat)
<1>1. \A s \in Bad : IsFiniteSet(s) /\ Cardinality(s) \in Nat
  BY FS_Subset, FS_CardinalityType
<1>2. Sizes \in SUBSET Nat /\ Sizes # {}
  BY <1>1
<1>3. PICK n \in Sizes : \A m \in Sizes : ~(<<m, n>> \in R)
  <2>1. IsWellFoundedOn(R, Nat)
    BY NatLessThanWellFounded
  <2> HIDE DEF R, Sizes
  <2> QED
    BY <1>2, <2>1, WFMin
<1>4. \A m \in Sizes : ~(m < n)
  BY <1>2, <1>3 DEF OpToRel
<1>5. PICK s \in Bad : Cardinality(s) = n
  OBVIOUS
<1>6. ASSUME NEW x \in s, s \ {x} \in Bad PROVE FALSE
  <2>1. Cardinality(s \ {x}) = Cardinality(s) - 1
    BY <1>1, FS_RemoveElement
  <2>2. Cardinality(s \ {x}) \in Sizes
    BY <1>6
  <2> HIDE DEF Sizes, R
  <2>3. ~(Cardinality(s) - 1 < Cardinality(s))
    BY <1>4, <1>5, <2>1, <2>2
  <2> QED
    BY <1>1, <2>3
<1> QED
  BY <1>6

\* A sum depends on nothing but the numbers that are added.
LEMMA SumSame ==
  ASSUME NEW S, IsFiniteSet(S), NEW T, NEW f, NEW h, NEW g, NEW i,
         IsSum(g, f, S), IsSum(i, h, T),
         NEW s \in SUBSET S, s \subseteq T, \A x \in s : f[x] = h[x]
  PROVE  g[s] = i[s]
<1> SUFFICES ASSUME g[s] # i[s] PROVE FALSE
  OBVIOUS
<1> DEFINE Bad == {t \in SUBSET s : g[t] # i[t]}
<1>1. IsFiniteSet(s) /\ Bad \in SUBSET (SUBSET s) /\ Bad # {}
  BY FS_Subset
<1>2. PICK t \in Bad : \A x \in t : t \ {x} \notin Bad
  <2> HIDE DEF Bad
  <2> QED
    BY <1>1, Smallest
<1>3. /\ g[t] = IF t = {} THEN 0 ELSE f[Pick(t)] + g[t \ {Pick(t)}]
      /\ i[t] = IF t = {} THEN 0 ELSE h[Pick(t)] + i[t \ {Pick(t)}]
  <2>1. t \in SUBSET S /\ t \in SUBSET T
    OBVIOUS
  <2> QED
    BY <2>1 DEF IsSum
<1>4. CASE t = {}
  BY <1>3, <1>4
<1>5. CASE t # {}
  <2>1. Pick(t) \in t
    BY <1>5 DEF Pick
  <2>2. g[t \ {Pick(t)}] = i[t \ {Pick(t)}]
    BY <1>2, <2>1
  <2> QED
    BY <1>3, <1>5, <2>1, <2>2
<1> QED
  BY <1>4, <1>5

LEMMA SumExists ==
  ASSUME NEW S, IsFiniteSet(S), NEW f
  PROVE  \E g : IsSum(g, f, S)
<1> SUFFICES ASSUME \A g : ~IsSum(g, f, S) PROVE FALSE
  OBVIOUS
<1> DEFINE Bad == {t \in SUBSET S : \A g : ~IsSum(g, f, t)}
<1>1. Bad \in SUBSET (SUBSET S) /\ Bad # {}
  OBVIOUS
<1>2. PICK t \in Bad : \A x \in t : t \ {x} \notin Bad
  <2> HIDE DEF Bad
  <2> QED
    BY <1>1, Smallest
<1>3. \A x \in t : \E g : IsSum(g, f, t \ {x})
  BY <1>2
<1> DEFINE G(x) == CHOOSE g : IsSum(g, f, t \ {x})
<1>4. \A x \in t : IsSum(G(x), f, t \ {x})
  BY <1>3
<1> HIDE DEF G
<1> DEFINE i == [s \in SUBSET t |->
                   IF s = {} THEN 0
                   ELSE f[Pick(s)] + G(Pick(s))[s \ {Pick(s)}]]
<1>5. ASSUME NEW s \in SUBSET t, s # {}
      PROVE  i[s \ {Pick(s)}] = G(Pick(s))[s \ {Pick(s)}]
  <2> DEFINE x == Pick(s)
             r == s \ {x}
             y == Pick(r)
  <2>1. x \in s /\ r \in SUBSET t /\ r \in SUBSET (t \ {x})
    BY <1>5 DEF Pick
  <2>2. i[r] = IF r = {} THEN 0 ELSE f[y] + G(y)[r \ {y}]
    BY <2>1
  <2>3. G(x)[r] = IF r = {} THEN 0 ELSE f[y] + G(x)[r \ {y}]
    <3>1. IsSum(G(x), f, t \ {x})
      BY <1>4, <2>1
    <3> QED
      BY <2>1, <3>1 DEF IsSum
  <2>4. ASSUME r # {} PROVE G(y)[r \ {y}] = G(x)[r \ {y}]
    <3>1. y \in r
      BY <2>4 DEF Pick
    <3>2. IsSum(G(x), f, t \ {x}) /\ IsSum(G(y), f, t \ {y})
      BY <1>4, <2>1, <3>1
    <3>3. IsFiniteSet(t \ {y})
      BY FS_Subset
    <3>4. r \ {y} \in SUBSET (t \ {y}) /\ r \ {y} \subseteq t \ {x}
      BY <2>1
    <3> HIDE DEF x, y, r
    <3> QED
      BY <3>2, <3>3, <3>4, SumSame
  <2> QED
    BY <2>2, <2>3, <2>4
<1>6. i = [s \in SUBSET t |->
             IF s = {} THEN 0 ELSE f[Pick(s)] + i[s \ {Pick(s)}]]
  BY <1>5
<1> HIDE DEF i
<1>7. IsSum(i, f, t)
  BY <1>6 DEF IsSum
<1> QED
  BY <1>2, <1>7

\* The sum over the parts of S.
LEMMA SumOf ==
  ASSUME NEW S, IsFiniteSet(S), NEW f
  PROVE  \E g : IsSum(g, f, S) /\ \A s \in SUBSET S : g[s] = Total(f, s)
<1>1. PICK g : IsSum(g, f, S)
  BY SumExists
<1>2. ASSUME NEW s \in SUBSET S PROVE g[s] = Total(f, s)
  <2>1. IsFiniteSet(s)
    BY FS_Subset
  <2>2. PICK i : i = (CHOOSE j : IsSum(j, f, s))
    OBVIOUS
  <2>3. IsSum(i, f, s)
    BY <2>1, <2>2, SumExists
  <2>4. g[s] = i[s]
    BY <1>1, <2>3, SumSame
  <2> QED
    BY <2>2, <2>4 DEF Total
<1> QED
  BY <1>1, <1>2

LEMMA TotalEmpty == ASSUME NEW f PROVE Total(f, {}) = 0
<1>1. IsFiniteSet({})
  BY FS_EmptySet
<1>2. PICK g : IsSum(g, f, {}) /\ \A s \in SUBSET {} : g[s] = Total(f, s)
  BY <1>1, SumOf
<1> QED
  BY <1>2 DEF IsSum

LEMMA TotalSame ==
  ASSUME NEW S, IsFiniteSet(S), NEW f, NEW h, \A x \in S : f[x] = h[x]
  PROVE  Total(f, S) = Total(h, S)
<1>1. PICK g : IsSum(g, f, S) /\ \A s \in SUBSET S : g[s] = Total(f, s)
  BY SumOf
<1>2. PICK i : IsSum(i, h, S) /\ \A s \in SUBSET S : i[s] = Total(h, s)
  BY SumOf
<1>3. g[S] = i[S]
  BY <1>1, <1>2, SumSame
<1> QED
  BY <1>1, <1>2, <1>3

\* A sum stays within a set that has 0 and is closed under addition.
LEMMA TotalWithin ==
  ASSUME NEW S, IsFiniteSet(S), NEW f, NEW N, 0 \in N,
         \A a, b \in N : a + b \in N, \A x \in S : f[x] \in N
  PROVE  Total(f, S) \in N
<1>1. PICK g : IsSum(g, f, S) /\ \A s \in SUBSET S : g[s] = Total(f, s)
  BY SumOf
<1> SUFFICES ASSUME g[S] \notin N PROVE FALSE
  BY <1>1
<1> DEFINE Bad == {t \in SUBSET S : g[t] \notin N}
<1>2. Bad \in SUBSET (SUBSET S) /\ Bad # {}
  OBVIOUS
<1>3. PICK t \in Bad : \A x \in t : t \ {x} \notin Bad
  <2> HIDE DEF Bad
  <2> QED
    BY <1>2, Smallest
<1>4. g[t] = IF t = {} THEN 0 ELSE f[Pick(t)] + g[t \ {Pick(t)}]
  BY <1>1 DEF IsSum
<1>5. t # {}
  BY <1>4
<1>6. Pick(t) \in t
  BY <1>5 DEF Pick
<1>7. g[t \ {Pick(t)}] \in N /\ f[Pick(t)] \in N
  BY <1>3, <1>6
<1> QED
  BY <1>4, <1>5, <1>7

LEMMA TotalType ==
  ASSUME NEW S, IsFiniteSet(S), NEW f, \A x \in S : f[x] \in Int
  PROVE  Total(f, S) \in Int
<1>1. 0 \in Int /\ \A a, b \in Int : a + b \in Int
  OBVIOUS
<1> QED
  BY <1>1, TotalWithin

LEMMA TotalNat ==
  ASSUME NEW S, IsFiniteSet(S), NEW f, \A x \in S : f[x] \in Nat
  PROVE  Total(f, S) \in Nat
<1>1. 0 \in Nat /\ \A a, b \in Nat : a + b \in Nat
  OBVIOUS
<1> QED
  BY <1>1, TotalWithin

\* An element may be taken out first.
LEMMA TotalWithout ==
  ASSUME NEW S, IsFiniteSet(S), NEW f, \A x \in S : f[x] \in Int, NEW e \in S
  PROVE  Total(f, S) = f[e] + Total(f, S \ {e})
<1>1. PICK g : IsSum(g, f, S) /\ \A s \in SUBSET S : g[s] = Total(f, s)
  BY SumOf
<1>2. \A s \in SUBSET S : g[s] \in Int
  BY <1>1, TotalType, FS_Subset
<1> DEFINE Bad == {t \in SUBSET S : \E x \in t : g[t] # f[x] + g[t \ {x}]}
<1> SUFFICES ASSUME Bad # {} PROVE FALSE
  BY <1>1
<1>3. PICK t \in Bad : \A x \in t : t \ {x} \notin Bad
  <2>1. Bad \in SUBSET (SUBSET S)
    OBVIOUS
  <2> HIDE DEF Bad
  <2> QED
    BY <2>1, Smallest
<1>4. PICK x \in t : g[t] # f[x] + g[t \ {x}]
  BY <1>3
<1> DEFINE y == Pick(t)
<1>5. y \in t /\ g[t] = f[y] + g[t \ {y}]
  BY <1>1, <1>4 DEF IsSum, Pick
<1>6. CASE x = y
  BY <1>4, <1>5, <1>6
<1>7. CASE x # y
  <2>1. t \ {y} \notin Bad /\ t \ {x} \notin Bad
    BY <1>3, <1>5
  <2>2. g[t \ {y}] = f[x] + g[(t \ {y}) \ {x}]
    BY <1>4, <1>7, <2>1
  <2>3. g[t \ {x}] = f[y] + g[(t \ {x}) \ {y}]
    BY <1>5, <1>7, <2>1
  <2>4. (t \ {x}) \ {y} = (t \ {y}) \ {x}
    OBVIOUS
  <2>5. g[(t \ {y}) \ {x}] \in Int /\ f[x] \in Int /\ f[y] \in Int
    BY <1>2, <1>5
  <2>6. \A a, b, c \in Int : a + (b + c) = b + (a + c)
    OBVIOUS
  <2>7. g[t] = f[y] + (f[x] + g[(t \ {y}) \ {x}])
    BY <1>5, <2>2
  <2>8. g[t] = f[x] + (f[y] + g[(t \ {y}) \ {x}])
    BY <2>5, <2>6, <2>7
  <2> QED
    BY <1>4, <2>3, <2>4, <2>8
<1> QED
  BY <1>6, <1>7

-----------------------------------------------------------------------------
(* The cost changes under way.                                             *)

Change(m, e) == IF m.entry = e THEN m.costChange ELSE 0

SentOf(p, o, e) == [c \in Client |-> IF p[c] = "send" THEN Change(o[c], e) ELSE 0]
ItemsOf(s, e)   == [i \in 1..Len(s) |-> Change(s[i], e)]

InSends(p, o, e) == Total(SentOf(p, o, e), Client)
InItems(s, e)    == Total(ItemsOf(s, e), 1..Len(s))

LEMMA TotalIs ==
  ASSUME NEW S, IsFiniteSet(S), NEW f, NEW g, IsSum(g, f, S)
  PROVE  g[S] = Total(f, S)
<1>1. PICK i : IsSum(i, f, S) /\ \A s \in SUBSET S : i[s] = Total(f, s)
  BY SumOf
<1>2. g[S] = i[S]
  BY <1>1, SumSame
<1> QED
  BY <1>1, <1>2

LEMMA SendsUnfold ==
  ASSUME NEW p, NEW o, NEW e
  PROVE  MapThenSumSet(LAMBDA c : IF p[c] = "send"
                                    THEN IF o[c].entry = e THEN o[c].costChange ELSE 0
                                    ELSE 0, Client)
           = InSends(p, o, e)
<1> DEFINE f == SentOf(p, o, e)
           Is(g) == g = [s \in SUBSET Client |->
                           IF s = {} THEN 0
                           ELSE (IF p[Pick(s)] = "send"
                                   THEN IF o[Pick(s)].entry = e
                                          THEN o[Pick(s)].costChange ELSE 0
                                   ELSE 0) + g[s \ {Pick(s)}]]
<1>1. MapThenSumSet(LAMBDA c : IF p[c] = "send"
                                 THEN IF o[c].entry = e THEN o[c].costChange ELSE 0
                                 ELSE 0, Client)
        = (CHOOSE g : Is(g))[Client]
  BY DEF MapThenSumSet, MapThenFoldSet, Pick
<1>2. \A s \in SUBSET Client : s # {} => Pick(s) \in Client
  BY DEF Pick
<1>3. \A s \in SUBSET Client : s # {} =>
        f[Pick(s)] = IF p[Pick(s)] = "send"
                       THEN IF o[Pick(s)].entry = e THEN o[Pick(s)].costChange ELSE 0
                       ELSE 0
  BY <1>2 DEF SentOf, Change
<1> HIDE DEF f
<1>4. \A g : Is(g) <=> IsSum(g, f, Client)
  BY <1>3 DEF IsSum
<1>5. \E g : Is(g)
  BY <1>4, SumExists, ClientAssumption
<1> HIDE DEF Is
<1>6. PICK g : g = (CHOOSE h : Is(h))
  OBVIOUS
<1>7. IsSum(g, f, Client)
  BY <1>4, <1>5, <1>6
<1> QED
  BY <1>1, <1>6, <1>7, TotalIs, ClientAssumption DEF f, InSends

LEMMA ItemsUnfold ==
  ASSUME NEW s \in Seq(Event), NEW e
  PROVE  MapThenSumSet(LAMBDA i : IF s[i].entry = e THEN s[i].costChange ELSE 0, 1..Len(s))
           = InItems(s, e)
<1> DEFINE f == ItemsOf(s, e)
           S == 1..Len(s)
           Is(g) == g = [t \in SUBSET S |->
                           IF t = {} THEN 0
                           ELSE (IF s[Pick(t)].entry = e
                                   THEN s[Pick(t)].costChange ELSE 0)
                                + g[t \ {Pick(t)}]]
<1>0. IsFiniteSet(S)
  BY FS_Interval
<1>1. MapThenSumSet(LAMBDA i : IF s[i].entry = e THEN s[i].costChange ELSE 0, S)
        = (CHOOSE g : Is(g))[S]
  BY DEF MapThenSumSet, MapThenFoldSet, Pick
<1>2. \A t \in SUBSET S : t # {} => Pick(t) \in S
  BY DEF Pick
<1>3. \A t \in SUBSET S : t # {} =>
        f[Pick(t)] = IF s[Pick(t)].entry = e THEN s[Pick(t)].costChange ELSE 0
  BY <1>2 DEF ItemsOf, Change
<1> HIDE DEF f
<1>4. \A g : Is(g) <=> IsSum(g, f, S)
  BY <1>3 DEF IsSum
<1>5. \E g : Is(g)
  BY <1>0, <1>4, SumExists
<1> HIDE DEF Is
<1>6. PICK g : g = (CHOOSE h : Is(h))
  OBVIOUS
<1>7. IsSum(g, f, S)
  BY <1>4, <1>5, <1>6
<1> QED
  BY <1>0, <1>1, <1>6, <1>7, TotalIs DEF f, InItems

PendingSums ==
  \A e \in Entry :
    PendingChange(e) = InSends(pc, out, e) + InItems(writeChan, e) + InItems(writeBuffer, e)

LEMMA PendingIs == TypeOK => PendingSums
<1> SUFFICES ASSUME TypeOK, NEW e \in Entry
             PROVE  PendingChange(e) = InSends(pc, out, e) + InItems(writeChan, e)
                                         + InItems(writeBuffer, e)
  BY DEF PendingSums
<1>1. writeChan \in Seq(Event) /\ writeBuffer \in Seq(Event)
  BY DEF TypeOK
<1> QED
  BY <1>1, SendsUnfold, ItemsUnfold DEF PendingChange

LEMMA ChangeType == ASSUME NEW m \in Event, NEW e PROVE Change(m, e) \in Int
BY DEF Change, Event

LEMMA SendsType ==
  ASSUME NEW p, NEW o \in [Client -> Event], NEW e
  PROVE  /\ InSends(p, o, e) \in Int
         /\ \A c \in Client : SentOf(p, o, e)[c] \in Int
<1>1. \A c \in Client : SentOf(p, o, e)[c] \in Int
  <2> SUFFICES ASSUME NEW c \in Client PROVE SentOf(p, o, e)[c] \in Int
    OBVIOUS
  <2>1. o[c] \in Event
    OBVIOUS
  <2>2. Change(o[c], e) \in Int
    BY <2>1, ChangeType
  <2> QED
    BY <2>2 DEF SentOf
<1> QED
  BY <1>1, TotalType, ClientAssumption DEF InSends

LEMMA ItemsType ==
  ASSUME NEW s \in Seq(Event), NEW e
  PROVE  /\ InItems(s, e) \in Int /\ IsFiniteSet(1..Len(s))
         /\ \A i \in 1..Len(s) : ItemsOf(s, e)[i] \in Int
<1>1. \A i \in 1..Len(s) : ItemsOf(s, e)[i] \in Int
  <2> SUFFICES ASSUME NEW i \in 1..Len(s) PROVE ItemsOf(s, e)[i] \in Int
    OBVIOUS
  <2>1. s[i] \in Event
    OBVIOUS
  <2>2. Change(s[i], e) \in Int
    BY <2>1, ChangeType
  <2> QED
    BY <2>2 DEF ItemsOf
<1>2. IsFiniteSet(1..Len(s))
  BY FS_Interval
<1> QED
  BY <1>1, <1>2, TotalType DEF InItems

LEMMA TotalOneChanged ==
  ASSUME NEW S, IsFiniteSet(S), NEW f, NEW h, NEW c \in S,
         \A x \in S : f[x] \in Int /\ h[x] \in Int,
         \A x \in S : x # c => f[x] = h[x]
  PROVE  Total(h, S) = Total(f, S) - f[c] + h[c]
<1>1. IsFiniteSet(S \ {c})
  BY FS_Subset
<1>2. Total(f, S) = f[c] + Total(f, S \ {c})
  BY TotalWithout
<1>3. Total(h, S) = h[c] + Total(h, S \ {c})
  BY TotalWithout
<1>4. Total(f, S \ {c}) = Total(h, S \ {c})
  BY <1>1, TotalSame
<1>5. Total(f, S \ {c}) \in Int
  BY <1>1, TotalType
<1> QED
  BY <1>2, <1>3, <1>4, <1>5

\* A goroutine's event changes, or its place in the protocol.
LEMMA SendsChange ==
  ASSUME NEW p, NEW o \in [Client -> Event], NEW q, NEW r \in [Client -> Event], NEW e,
         NEW c \in Client,
         \A d \in Client : d # c => p[d] = q[d] /\ o[d] = r[d]
  PROVE  InSends(q, r, e) = InSends(p, o, e)
                              - (IF p[c] = "send" THEN Change(o[c], e) ELSE 0)
                              + (IF q[c] = "send" THEN Change(r[c], e) ELSE 0)
<1> DEFINE f == SentOf(p, o, e)
           h == SentOf(q, r, e)
<1>1. \A x \in Client : f[x] \in Int /\ h[x] \in Int
  BY SendsType
<1>2. \A x \in Client : x # c => f[x] = h[x]
  BY DEF SentOf
<1>3. /\ f[c] = IF p[c] = "send" THEN Change(o[c], e) ELSE 0
      /\ h[c] = IF q[c] = "send" THEN Change(r[c], e) ELSE 0
  BY DEF SentOf
<1> HIDE DEF f, h
<1>4. Total(h, Client) = Total(f, Client) - f[c] + h[c]
  BY <1>1, <1>2, TotalOneChanged, ClientAssumption
<1> QED
  BY <1>3, <1>4 DEF f, h, InSends

LEMMA ItemsEmpty == ASSUME NEW e PROVE InItems(<< >>, e) = 0
<1>1. 1..Len(<< >>) = {}
  OBVIOUS
<1> QED
  BY <1>1, TotalEmpty DEF InItems

LEMMA ItemsAppend ==
  ASSUME NEW s \in Seq(Event), NEW m \in Event, NEW e
  PROVE  InItems(Append(s, m), e) = InItems(s, e) + Change(m, e)
<1> DEFINE n == Len(s)
           a == Append(s, m)
           f == ItemsOf(s, e)
           h == ItemsOf(a, e)
<1>1. a \in Seq(Event) /\ Len(a) = n + 1 /\ n \in Nat /\ a[n + 1] = m
  OBVIOUS
<1>2. /\ \A i \in 1..Len(a) : h[i] \in Int /\ IsFiniteSet(1..Len(a))
      /\ IsFiniteSet(1..n) /\ InItems(s, e) \in Int
  BY <1>1, ItemsType, FS_Interval
<1>3. h[n + 1] = Change(m, e) /\ \A i \in 1..n : h[i] = f[i]
  BY <1>1 DEF ItemsOf
<1>4. (1..(n + 1)) \ {n + 1} = 1..n /\ n + 1 \in 1..(n + 1)
  BY <1>1
<1>5. InItems(a, e) = Total(h, 1..(n + 1)) /\ InItems(s, e) = Total(f, 1..n)
  BY <1>1 DEF InItems
<1> HIDE DEF f, h, a, n
<1>6. Total(h, 1..(n + 1)) = h[n + 1] + Total(h, (1..(n + 1)) \ {n + 1})
  BY <1>1, <1>2, <1>4, TotalWithout
<1>7. Total(h, 1..n) = Total(f, 1..n)
  BY <1>2, <1>3, TotalSame
<1>8. Change(m, e) \in Int
  BY ChangeType
<1>9. InItems(a, e) = Change(m, e) + InItems(s, e)
  BY <1>3, <1>4, <1>6, <1>7, <1>5
<1> QED
  BY <1>2, <1>8, <1>9 DEF a

\* The sum of a sequence does not depend on where it begins.
LEMMA TotalShift ==
  ASSUME NEW N \in Nat, NEW f, NEW h,
         \A i \in 1..(N + 1) : f[i] \in Int, \A i \in 1..N : h[i] = f[i + 1]
  PROVE  Total(h, 1..N) = Total(f, 2..(N + 1))
<1> DEFINE Bad == {n \in Nat : n <= N /\ Total(h, 1..n) # Total(f, 2..(n + 1))}
           R == OpToRel(<, Nat)
<1> SUFFICES ASSUME Bad # {} PROVE FALSE
  OBVIOUS
<1>1. PICK n \in Bad : \A m \in Bad : ~(<<m, n>> \in R)
  <2>1. IsWellFoundedOn(R, Nat)
    BY NatLessThanWellFounded
  <2>2. Bad \in SUBSET Nat
    OBVIOUS
  <2> HIDE DEF R, Bad
  <2> QED
    BY <2>1, <2>2, WFMin
<1>2. n \in Nat /\ n <= N /\ Total(h, 1..n) # Total(f, 2..(n + 1))
  BY <1>1
<1>3. \A m \in Bad : ~(m < n)
  BY <1>1, <1>2 DEF OpToRel
<1>4. CASE n = 0
  <2>1. 1..n = {} /\ 2..(n + 1) = {}
    BY <1>4
  <2> QED
    BY <1>2, <2>1, TotalEmpty
<1>5. CASE n # 0
  <2>1. n - 1 \in Nat /\ n - 1 < n /\ n - 1 <= N /\ (n - 1) + 1 = n
    BY <1>2, <1>5
  <2>2. Total(h, 1..(n - 1)) = Total(f, 2..n)
    BY <1>3, <2>1
  <2> HIDE DEF Bad, R
  <2>3. /\ (1..n) \ {n} = 1..(n - 1) /\ n \in 1..n
        /\ (2..(n + 1)) \ {n + 1} = 2..n /\ n + 1 \in 2..(n + 1)
    BY <1>2, <2>1
  <2>4. IsFiniteSet(1..n) /\ IsFiniteSet(2..(n + 1))
    BY <1>2, FS_Interval
  <2>5. /\ \A i \in 1..n : h[i] \in Int
        /\ \A i \in 2..(n + 1) : f[i] \in Int
        /\ h[n] = f[n + 1]
    BY <1>2, <1>5
  <2>6. Total(h, 1..n) = h[n] + Total(h, (1..n) \ {n})
    BY <2>3, <2>4, <2>5, TotalWithout
  <2>7. Total(f, 2..(n + 1)) = f[n + 1] + Total(f, (2..(n + 1)) \ {n + 1})
    BY <2>3, <2>4, <2>5, TotalWithout
  <2> QED
    BY <1>2, <2>2, <2>3, <2>5, <2>6, <2>7
<1> QED
  BY <1>4, <1>5

LEMMA ItemsTail ==
  ASSUME NEW s \in Seq(Event), s # << >>, NEW e
  PROVE  InItems(Tail(s), e) = InItems(s, e) - Change(Head(s), e)
<1> DEFINE N == Len(s) - 1
           f == ItemsOf(s, e)
           h == ItemsOf(Tail(s), e)
<1>1. /\ N \in Nat /\ Len(s) = N + 1 /\ Tail(s) \in Seq(Event) /\ Len(Tail(s)) = N
      /\ \A i \in 1..N : Tail(s)[i] = s[i + 1]
      /\ Head(s) = s[1] /\ Head(s) \in Event
  OBVIOUS
<1>2. \A i \in 1..(N + 1) : f[i] \in Int
  BY <1>1, ItemsType
<1>3. f[1] = Change(Head(s), e) /\ \A i \in 1..N : h[i] = f[i + 1]
  BY <1>1 DEF ItemsOf
<1>4. InItems(Tail(s), e) = Total(h, 1..N) /\ InItems(s, e) = Total(f, 1..(N + 1))
  BY <1>1 DEF InItems
<1> HIDE DEF f, h, N
<1>5. Total(h, 1..N) = Total(f, 2..(N + 1))
  BY <1>1, <1>2, <1>3, TotalShift
<1>6. (1..(N + 1)) \ {1} = 2..(N + 1) /\ 1 \in 1..(N + 1)
  BY <1>1
<1>7. IsFiniteSet(1..(N + 1)) /\ IsFiniteSet(2..(N + 1))
  BY <1>1, FS_Interval
<1>8. Total(f, 1..(N + 1)) = f[1] + Total(f, (1..(N + 1)) \ {1})
  BY <1>2, <1>6, <1>7, TotalWithout
<1>9. Total(f, 2..(N + 1)) \in Int /\ f[1] \in Int
  <2>1. \A i \in 2..(N + 1) : f[i] \in Int
    BY <1>1, <1>2
  <2> QED
    BY <1>2, <1>6, <1>7, <2>1, TotalType
<1>10. Total(f, 1..(N + 1)) = f[1] + Total(f, 2..(N + 1))
  BY <1>6, <1>8
<1>11. InItems(s, e) = Change(Head(s), e) + InItems(Tail(s), e)
  BY <1>3, <1>4, <1>5, <1>10
<1>12. Change(Head(s), e) \in Int /\ InItems(Tail(s), e) \in Int
  BY <1>3, <1>4, <1>5, <1>9
<1> QED
  BY <1>11, <1>12

\* What a step does to the changes under way.
LEMMA PendingBoth ==
  ASSUME TypeOK, TypeOK', NEW e \in Entry
  PROVE  /\ PendingChange(e) = InSends(pc, out, e) + InItems(writeChan, e)
                                 + InItems(writeBuffer, e)
         /\ PendingChange(e)' = InSends(pc', out', e) + InItems(writeChan', e)
                                  + InItems(writeBuffer', e)
         /\ InSends(pc, out, e) \in Int /\ InItems(writeChan, e) \in Int
         /\ InItems(writeBuffer, e) \in Int /\ PendingChange(e) \in Int
<1>1. PendingChange(e) = InSends(pc, out, e) + InItems(writeChan, e)
                           + InItems(writeBuffer, e)
  BY PendingIs DEF PendingSums
<1>2. PendingSums'
  BY PendingIs, PTL
<1>3. PendingChange(e)' = InSends(pc', out', e) + InItems(writeChan', e)
                            + InItems(writeBuffer', e)
  BY <1>2 DEF PendingSums
<1>4. out \in [Client -> Event] /\ writeChan \in Seq(Event) /\ writeBuffer \in Seq(Event)
  BY DEF TypeOK
<1>5. InSends(pc, out, e) \in Int /\ InItems(writeChan, e) \in Int
        /\ InItems(writeBuffer, e) \in Int
  BY <1>4, SendsType, ItemsType
<1> QED
  BY <1>1, <1>3, <1>5

LEMMA PendingPost ==
  ASSUME TypeOK, TypeOK', NEW e \in Entry, NEW c \in Client, pc[c] = "idle", NEW m,
         Post(c, m), m \in Event, UNCHANGED <<writeChan, writeBuffer>>
  PROVE  PendingChange(e)' = PendingChange(e) + Change(m, e)
<1>1. /\ \A d \in Client : d # c => pc'[d] = pc[d] /\ out'[d] = out[d]
      /\ pc'[c] = "send" /\ out'[c] = m
      /\ out \in [Client -> Event] /\ out' \in [Client -> Event]
  BY DEF Post, TypeOK
<1>2. InSends(pc', out', e) = InSends(pc, out, e) - 0 + Change(m, e)
  BY <1>1, SendsChange
<1>3. Change(m, e) \in Int
  BY ChangeType
<1> QED
  BY <1>2, <1>3, PendingBoth

LEMMA PendingSend ==
  ASSUME TypeOK, TypeOK', NEW e \in Entry, NEW c \in Client, Send(c)
  PROVE  PendingChange(e)' = PendingChange(e)
<1>1. /\ \A d \in Client : d # c => pc'[d] = pc[d] /\ out'[d] = out[d]
      /\ pc[c] = "send" /\ pc'[c] # "send" /\ out[c] \in Event
      /\ out \in [Client -> Event] /\ out' \in [Client -> Event]
      /\ writeChan \in Seq(Event) /\ writeChan' = Append(writeChan, out[c])
      /\ UNCHANGED writeBuffer
  BY DEF Send, TypeOK, maintVars
<1>2. InSends(pc', out', e) = InSends(pc, out, e) - Change(out[c], e) + 0
  BY <1>1, SendsChange
<1>3. InItems(writeChan', e) = InItems(writeChan, e) + Change(out[c], e)
  BY <1>1, ItemsAppend
<1>4. Change(out[c], e) \in Int
  BY <1>1, ChangeType
<1> QED
  BY <1>1, <1>2, <1>3, <1>4, PendingBoth

LEMMA PendingRecv ==
  ASSUME TypeOK, TypeOK', BatchDone, NEW e \in Entry, Recv \/ Collect
  PROVE  PendingChange(e)' = PendingChange(e)
<1>1. /\ UNCHANGED <<pc, out>>
      /\ writeChan # << >> /\ writeChan' = Tail(writeChan)
      /\ writeChan \in Seq(Event) /\ writeBuffer \in Seq(Event)
  BY DEF Recv, Collect, clientVars, TypeOK
<1>2. Head(writeChan) \in Event
  BY <1>1
<1>3. writeBuffer' = Append(writeBuffer, Head(writeChan))
  <2>1. CASE Recv
    <3>1. writeBuffer = << >> /\ writeBuffer' = << Head(writeChan) >>
      BY <2>1 DEF Recv, BatchDone
    <3> QED
      BY <3>1
  <2>2. CASE Collect
    BY <2>2 DEF Collect
  <2> QED
    BY <2>1, <2>2
<1>4. InItems(writeChan', e) = InItems(writeChan, e) - Change(Head(writeChan), e)
  BY <1>1, ItemsTail
<1>5. InItems(writeBuffer', e) = InItems(writeBuffer, e) + Change(Head(writeChan), e)
  BY <1>1, <1>2, <1>3, ItemsAppend
<1>6. Change(Head(writeChan), e) \in Int
  BY <1>2, ChangeType
<1>7. InSends(pc', out', e) = InSends(pc, out, e)
  BY <1>1
<1> QED
  BY <1>4, <1>5, <1>6, <1>7, PendingBoth

LEMMA PendingPop ==
  ASSUME TypeOK, TypeOK', NEW e \in Entry, writeBuffer # << >>, Pop,
         UNCHANGED <<pc, out, writeChan>>
  PROVE  PendingChange(e)' = PendingChange(e) - Change(Item, e)
<1>1. writeBuffer \in Seq(Event) /\ Item \in Event
  BY DEF TypeOK, Item
<1>2. InItems(writeBuffer', e) = InItems(writeBuffer, e) - Change(Item, e)
  BY <1>1, ItemsTail DEF Pop, Item
<1>3. Change(Item, e) \in Int
  BY <1>1, ChangeType
<1> QED
  BY <1>2, <1>3, PendingBoth

LEMMA PendingSame ==
  ASSUME TypeOK, TypeOK', NEW e \in Entry, UNCHANGED <<pc, out, writeChan, writeBuffer>>
  PROVE  PendingChange(e)' = PendingChange(e)
BY PendingBoth

\* A WAIT changes no cost.
WaitsBare == \A m \in Events : m.code = "WAIT" => m.costChange = 0

\* Steps that send, carry and count, and change no cost.
LEMMA PendingQuiet ==
  ASSUME Inv, Inv', BatchDone, WaitsBare, QuietStep, NEW e \in Entry
  PROVE  PendingChange(e)' = PendingChange(e)
<1> USE DEF Inv
<1>0. PendingChange(e) \in Int
  BY PendingBoth
<1>1. ASSUME NEW c \in Client, Wait(c) PROVE PendingChange(e)' = PendingChange(e)
  <2>1. WaitItem(c) \in Event /\ Change(WaitItem(c), e) = 0
    BY DEF WaitItem, Change, Event, Entry, NoEntry
  <2>2. PendingChange(e)' = PendingChange(e) + Change(WaitItem(c), e)
    BY <1>1, <2>1, PendingPost DEF Wait, maintVars
  <2> QED
    BY <1>0, <2>1, <2>2
<1>2. ASSUME NEW c \in Client, Send(c) PROVE PendingChange(e)' = PendingChange(e)
  BY <1>2, PendingSend
<1>3. ASSUME NEW c \in Client, Wake(c) PROVE PendingChange(e)' = PendingChange(e)
  <2>1. /\ \A d \in Client : d # c => pc'[d] = pc[d] /\ out'[d] = out[d]
        /\ pc[c] # "send" /\ pc'[c] # "send"
        /\ out \in [Client -> Event] /\ out' \in [Client -> Event]
        /\ UNCHANGED <<writeChan, writeBuffer>>
    BY <1>3 DEF Wake, TypeOK
  <2>2. InSends(pc', out', e) = InSends(pc, out, e) - 0 + 0
    BY <2>1, SendsChange
  <2> QED
    BY <2>1, <2>2, PendingBoth
<1>4. CASE Recv \/ Collect
  BY <1>4, PendingRecv
<1>5. CASE SinkWait
  <2>1. writeBuffer # << >> /\ Item.code = "WAIT" /\ Pop /\ UNCHANGED <<pc, out, writeChan>>
    BY <1>5 DEF SinkWait, Draining, clientVars
  <2>2. Item.costChange = 0
    BY <2>1, EventsPop DEF WaitsBare
  <2>3. PendingChange(e)' = PendingChange(e) - Change(Item, e)
    BY <2>1, PendingPop
  <2> QED
    BY <1>0, <2>2, <2>3 DEF Change
<1>6. CASE \/ UNCHANGED vars \/ Close \/ ExpireSkip \/ CollectDone \/ Lock
           \/ DrainDone \/ Unlock \/ MaintExit \/ Tick \/ TickDone \/ TickExit
           \/ Elapse
  <2>1. UNCHANGED <<pc, out, writeChan, writeBuffer>>
    BY <1>6 DEF vars, clientVars, maintVars, Close, ExpireSkip, CollectDone, Lock,
       DrainDone, Unlock, MaintExit, Tick, TickDone, TickExit, Elapse
  <2> QED
    BY <2>1, PendingSame
<1> QED
  BY <1>1, <1>2, <1>3, <1>4, <1>5, <1>6 DEF QuietStep

-----------------------------------------------------------------------------
(* The policy's running size.                                              *)

LEMMA ModUnique ==
  ASSUME NEW d \in Int, d > 0, NEW q \in Int, NEW r \in 0..(d - 1)
  PROVE  (d * q + r) % d = r
<1> DEFINE x == d * q + r
<1>1. x \in Int /\ d * q <= x /\ x < d * (q + 1)
  OBVIOUS
<1> HIDE DEF x
<1>2. x \div d \in Int /\ x % d \in 0..(d - 1)
  BY <1>1
<1>3. x = d * (x \div d) + (x % d)
  BY <1>1, Z3
<1>4. x \div d < q + 1 /\ ~(x \div d < q)
  BY <1>1, <1>2, <1>3
<1>5. x \div d = q
  BY <1>2, <1>4
<1>6. x % d = x - d * q
  BY <1>1, <1>2, <1>3, <1>5
<1> QED
  BY <1>6 DEF x

LEMMA ModAdd ==
  ASSUME NEW a \in Int, NEW b \in Int
  PROVE  ((a % Wrap) + b) % Wrap = (a + b) % Wrap
<1>0. Wrap \in Int /\ Wrap > 0
  BY CostAssumption
<1> DEFINE q == a \div Wrap
           r == a % Wrap
           x == r + b
           p == x \div Wrap
           z == x % Wrap
<1>1. q \in Int /\ r \in Int
  BY <1>0
<1>2. a = Wrap * q + r
  BY <1>0, Z3
<1>3. x \in Int /\ a + b = Wrap * q + x
  <2> HIDE DEF q, r
  <2> QED
    BY <1>0, <1>1, <1>2
<1> HIDE DEF x, q, r
<1>4. p \in Int /\ z \in 0..(Wrap - 1)
  BY <1>0, <1>3
<1>5. x = Wrap * p + z
  BY <1>0, <1>3, Z3
<1> HIDE DEF p, z
<1>6. a + b = Wrap * (q + p) + z /\ q + p \in Int
  BY <1>0, <1>1, <1>3, <1>4, <1>5
<1>7. (Wrap * (q + p) + z) % Wrap = z
  BY <1>0, <1>4, <1>6, ModUnique
<1> QED
  BY <1>6, <1>7 DEF z, x, r

LEMMA SizeIs ==
  /\ PolicyTotal = Total(policyWeight, tracked)
  /\ PolicyTotal' = Total(policyWeight', tracked')
BY DEF PolicyTotal, MapThenSumSet, MapThenFoldSet, Total, IsSum, Pick

LEMMA TrackedFinite ==
  ASSUME TypeOK
  PROVE  IsFiniteSet(tracked) /\ \A e \in tracked : policyWeight[e] \in Int
<1>1. IsFiniteSet(Entry)
  BY FS_Interval, BoundAssumption DEF Entry
<1> QED
  BY <1>1, FS_Subset DEF TypeOK

LEMMA TotalInt == ASSUME TypeOK PROVE PolicyTotal \in Int
BY SizeIs, TrackedFinite, TotalType

\* Nothing changes for the entries in the lists.
LEMMA TotalKept ==
  ASSUME TypeOK, UNCHANGED tracked,
         \A e \in tracked : policyWeight'[e] = policyWeight[e]
  PROVE  PolicyTotal' = PolicyTotal
<1>1. Total(policyWeight', tracked) = Total(policyWeight, tracked)
  BY TrackedFinite, TotalSame
<1> QED
  BY <1>1, SizeIs

LEMMA TotalRemoved ==
  ASSUME TypeOK, NEW e \in tracked, tracked' = tracked \ {e},
         \A f \in tracked' : policyWeight'[f] = policyWeight[f]
  PROVE  PolicyTotal' = PolicyTotal - policyWeight[e]
<1>1. IsFiniteSet(tracked') /\ policyWeight[e] \in Int
  BY TrackedFinite, FS_Subset
<1>2. Total(policyWeight', tracked') = Total(policyWeight, tracked')
  BY <1>1, TotalSame
<1>3. Total(policyWeight, tracked) = policyWeight[e] + Total(policyWeight, tracked \ {e})
  BY TrackedFinite, TotalWithout
<1>4. Total(policyWeight, tracked \ {e}) \in Int
  BY <1>1, TrackedFinite, TotalType
<1> QED
  BY <1>1, <1>2, <1>3, <1>4, SizeIs

\* An entry is added, or one of those in the lists has a new weight.
LEMMA TotalChanged ==
  ASSUME TypeOK, TypeOK', NEW e \in Entry, tracked' = tracked \cup {e},
         \A f \in tracked : f # e => policyWeight'[f] = policyWeight[f]
  PROVE  PolicyTotal' = PolicyTotal + (IF e \in tracked
                                         THEN policyWeight'[e] - policyWeight[e]
                                         ELSE policyWeight'[e])
<1>1. /\ IsFiniteSet(tracked') /\ IsFiniteSet(tracked) /\ IsFiniteSet(tracked \ {e})
      /\ \A f \in tracked' : policyWeight'[f] \in Int
      /\ \A f \in tracked : policyWeight[f] \in Int
  <2>1. IsFiniteSet(Entry)
    BY FS_Interval, BoundAssumption DEF Entry
  <2> QED
    BY <2>1, FS_Subset DEF TypeOK
<1>2. tracked' \ {e} = tracked \ {e}
  OBVIOUS
<1>3. Total(policyWeight', tracked \ {e}) = Total(policyWeight, tracked \ {e})
  BY <1>1, TotalSame
<1>4. Total(policyWeight', tracked')
        = policyWeight'[e] + Total(policyWeight', tracked \ {e})
  BY <1>1, <1>2, TotalWithout
<1>5. Total(policyWeight, tracked \ {e}) \in Int /\ policyWeight'[e] \in Int
  BY <1>1, TotalType
<1>6. CASE e \in tracked
  <2>1. Total(policyWeight, tracked)
          = policyWeight[e] + Total(policyWeight, tracked \ {e})
    BY <1>1, <1>6, TotalWithout
  <2>2. policyWeight[e] \in Int
    BY <1>1, <1>6
  <2> QED
    BY <1>3, <1>4, <1>5, <1>6, <2>1, <2>2, SizeIs
<1>7. CASE e \notin tracked
  <2>1. tracked \ {e} = tracked
    BY <1>7
  <2>2. /\ Total(policyWeight', tracked') = policyWeight'[e] + Total(policyWeight, tracked)
        /\ Total(policyWeight, tracked) \in Int
    BY <1>3, <1>4, <1>5, <2>1
  <2>3. \A a, b \in Int : a + b = b + a
    OBVIOUS
  <2>4. Total(policyWeight', tracked') = Total(policyWeight, tracked) + policyWeight'[e]
    BY <1>5, <2>2, <2>3
  <2> QED
    BY <1>7, <2>4, SizeIs
<1> QED
  BY <1>6, <1>7

LEMMA RemoveInSync ==
  ASSUME TypeOK, WeightInSync, NEW e \in Entry, PolicyRemove(e),
         UNCHANGED policyWeight
  PROVE  WeightInSync'
<1>1. CASE e \in tracked
  <2>1. PolicyTotal' = PolicyTotal - policyWeight[e] /\ policyWeight[e] \in Int
    BY <1>1, TotalRemoved DEF PolicyRemove, TypeOK
  <2>2. PolicyTotal' = PolicyTotal + (-policyWeight[e])
    BY <2>1, TotalInt
  <2>3. weightedSize' = ((PolicyTotal % Wrap) + (-policyWeight[e])) % Wrap
    BY <1>1, <2>1, CostAssumption DEF PolicyRemove, WeightInSync, TypeOK
  <2>4. -policyWeight[e] \in Int
    BY <2>1
  <2> QED
    BY <2>2, <2>3, <2>4, TotalInt, ModAdd DEF WeightInSync
<1>2. CASE e \notin tracked
  <2>1. UNCHANGED <<tracked, weightedSize>>
    BY <1>2 DEF PolicyRemove
  <2> QED
    BY <2>1, TotalKept DEF WeightInSync
<1> QED
  BY <1>1, <1>2

LEMMA InSyncSinks ==
  ASSUME Inv, Inv', NewOnce, WeightInSync,
         SinkIgnored \/ SinkNewExpired \/ SinkNew \/ SinkRemove \/ SinkUpdate
  PROVE  WeightInSync'
<1> USE DEF Inv
<1>0. /\ Draining /\ Pop /\ UNCHANGED <<pc, out, writeChan>> /\ Item.code # "WAIT"
  BY DEF SinkIgnored, SinkNewExpired, SinkNew, SinkRemove, SinkUpdate, clientVars
<1>1. PICK e \in Entry : e = Item.entry /\ Item.costChange \in Int
  BY <1>0, ItemMade DEF Event
<1>2. policyWeight \in [Entry -> Int] /\ weightedSize \in Int /\ tracked \subseteq Entry
  <2>1. /\ policyWeight \in [Entry -> Int] /\ tracked \subseteq Entry
        /\ weightedSize \in 0..(Wrap - 1)
    BY DEF TypeOK
  <2> QED
    BY <2>1
<1>3. CASE SinkIgnored \/ SinkNewExpired
  BY <1>3, TotalKept DEF SinkIgnored, SinkNewExpired, WeightInSync
<1>4. CASE SinkNew
  <2>1. /\ policyWeight' = [policyWeight EXCEPT ![e] = @ + Item.costChange]
        /\ weightedSize' = (weightedSize + policyWeight'[e]) % Wrap
        /\ tracked' = tracked \cup {e}
    BY <1>1, <1>4 DEF SinkNew
  <2>2. e \notin tracked
    BY <1>0, <1>1, <1>4, NewPop DEF SinkNew, Draining
  <2>3. PolicyTotal' = PolicyTotal + policyWeight'[e] /\ policyWeight'[e] \in Int
    BY <1>2, <2>1, <2>2, TotalChanged DEF TypeOK
  <2>4. weightedSize' = ((PolicyTotal % Wrap) + policyWeight'[e]) % Wrap
    BY <2>1 DEF WeightInSync
  <2> QED
    BY <2>3, <2>4, TotalInt, ModAdd DEF WeightInSync
<1>5. CASE SinkRemove
  BY <1>1, <1>5, RemoveInSync DEF SinkRemove
<1>6. CASE SinkUpdate
  <2> DEFINE ch == Item.costChange
             w == policyWeight[e] + ch
  <2>1. /\ policyWeight' = [policyWeight EXCEPT ![e] = w]
        /\ IF e \in tracked /\ ch # 0 THEN UpdateCost(e, w, ch)
           ELSE UNCHANGED <<tracked, weightedSize>>
    BY <1>1, <1>6 DEF SinkUpdate
  <2>2. ch \in Int /\ w \in Int /\ policyWeight'[e] = w
    BY <1>1, <1>2, <2>1
  <2>3. \A f \in Entry : f # e => policyWeight'[f] = policyWeight[f]
    BY <1>2, <2>1
  <2>4. CASE ~(e \in tracked /\ ch # 0)
    <3>1. \A f \in tracked : policyWeight'[f] = policyWeight[f]
      BY <1>2, <2>1, <2>2, <2>3, <2>4
    <3> QED
      BY <2>1, <2>4, <3>1, TotalKept DEF WeightInSync
  <2>5. CASE e \in tracked /\ ch # 0 /\ w > Cap
    <3>1. /\ tracked' = tracked \ {e}
          /\ weightedSize' = (weightedSize + ch - w) % Wrap
      BY <2>1, <2>5 DEF UpdateCost
    <3>2. PolicyTotal' = PolicyTotal - policyWeight[e]
      BY <1>2, <2>3, <2>5, <3>1, TotalRemoved
    <3>3. policyWeight[e] \in Int /\ -policyWeight[e] \in Int
      BY <1>2
    <3>4. weightedSize + ch - w = weightedSize + (-policyWeight[e])
      BY <1>2, <2>2, <3>3
    <3>5. PolicyTotal' = PolicyTotal + (-policyWeight[e])
      BY <3>2, <3>3, TotalInt
    <3>6. weightedSize' = ((PolicyTotal % Wrap) + (-policyWeight[e])) % Wrap
      BY <3>1, <3>4 DEF WeightInSync
    <3> QED
      BY <3>3, <3>5, <3>6, TotalInt, ModAdd DEF WeightInSync
  <2>6. CASE e \in tracked /\ ch # 0 /\ ~(w > Cap)
    <3>1. tracked' = tracked /\ weightedSize' = (weightedSize + ch) % Wrap
      BY <2>1, <2>6 DEF UpdateCost
    <3>2. tracked' = tracked \cup {e}
      BY <2>6, <3>1
    <3>3. PolicyTotal' = PolicyTotal + (policyWeight'[e] - policyWeight[e])
      BY <1>2, <2>3, <2>6, <3>2, TotalChanged
    <3>4. policyWeight'[e] - policyWeight[e] = ch
      BY <1>2, <2>2
    <3>5. weightedSize' = ((PolicyTotal % Wrap) + ch) % Wrap
      BY <3>1 DEF WeightInSync
    <3> QED
      BY <2>2, <3>3, <3>4, <3>5, TotalInt, ModAdd DEF WeightInSync
  <2> QED
    BY <2>4, <2>5, <2>6
<1> QED
  BY <1>3, <1>4, <1>5, <1>6

LEMMA InSyncStep ==
  Inv /\ Inv' /\ NewOnce /\ WeightInSync /\ [Next]_vars => WeightInSync'
<1> SUFFICES ASSUME Inv, Inv', NewOnce, WeightInSync, [Next]_vars
             PROVE  WeightInSync'
  OBVIOUS
<1>0. TypeOK
  BY DEF Inv
<1>1. ASSUME UNCHANGED <<policyWeight, tracked, weightedSize>> PROVE WeightInSync'
  BY <1>0, <1>1, TotalKept DEF WeightInSync
<1>2. CASE QuietStep
  BY <1>1, <1>2, QuietEffect DEF policyVars
<1>3. ASSUME NEW c \in Client, NEW k \in Key, NEW cost \in Cost, NEW exp \in Nat,
             SetSame(c, k, cost, exp)
      PROVE  WeightInSync'
  BY <1>1, <1>3 DEF SetSame, SetExisting, policyVars
<1>4. ASSUME NEW c \in Client, NEW k \in Key, NEW cost \in Cost, NEW exp \in Nat,
             SetFresh(c, k, cost, exp)
      PROVE  WeightInSync'
  <2>1. PICK e \in Entry : /\ ~Referenced(e)
                           /\ policyWeight' = [policyWeight EXCEPT ![e] = 0]
                           /\ UNCHANGED <<tracked, weightedSize>>
    BY <1>4 DEF SetFresh, SetNew
  <2>2. e \notin tracked
    BY <2>1 DEF Referenced
  <2>3. \A f \in tracked : policyWeight'[f] = policyWeight[f]
    BY <1>0, <2>1, <2>2 DEF TypeOK
  <2> QED
    BY <1>0, <2>1, <2>3, TotalKept DEF WeightInSync
<1>5. ASSUME NEW c \in Client, NEW k \in Key, Delete(c, k) PROVE WeightInSync'
  BY <1>1, <1>5 DEF Delete, policyVars
<1>6. ASSUME NEW s \in Shard, CloseShard(s) PROVE WeightInSync'
  BY <1>1, <1>6 DEF CloseShard, policyVars
<1>7. CASE Unmap \/ TickExpire
  BY <1>1, <1>7 DEF Unmap, TickExpire, policyVars
<1>8. CASE ExpireCheck
  <2>1. cur \in Entry
    BY <1>8 DEF ExpireCheck, Inv, ListenerInv, CurMade, Made
  <2> QED
    BY <1>0, <1>8, <2>1, RemoveInSync DEF ExpireCheck
<1>9. CASE Evict
  <2>1. PICK v \in tracked : PolicyRemove(v) /\ UNCHANGED policyWeight
    BY <1>9 DEF Evict
  <2> QED
    BY <1>0, <2>1, RemoveInSync DEF TypeOK
<1> QED
  BY <1>2, <1>3, <1>4, <1>5, <1>6, <1>7, <1>8, <1>9, NextCases, InSyncSinks

LEMMA InSyncInit == Init => WeightInSync
<1> SUFFICES ASSUME Init PROVE WeightInSync
  OBVIOUS
<1>1. PolicyTotal = 0 /\ weightedSize = 0
  BY SizeIs, TotalEmpty DEF Init
<1>2. 0 % Wrap = 0
  BY CostAssumption
<1> QED
  BY <1>1, <1>2 DEF WeightInSync

\* The policy's running size is, modulo the width of its type, the sum of the
\* weights of the entries in its lists, for any costs, any number of callers
\* and entries and any order of their events.
THEOREM SizeInSync == Spec => []WeightInSync
BY InSyncInit, InSyncStep, NewHolds, InvHolds, PTL DEF Spec

-----------------------------------------------------------------------------
(* The capacity.                                                           *)

\* No weight in the lists has gone below zero, which needs two updates of one
\* entry that overtake each other, and the sum has not left its type.
WeightsSound ==
  (\A e \in tracked : policyWeight[e] >= 0) /\ PolicyTotal < Wrap

\* Who holds policyMu, and what is done under it.
HoldsPolicyMu ==
  /\ policyMu = "maint" <=> mpc \in {"drain", "wake"}
  /\ step # "next" => policyMu # "free" /\ mpc # "wake"
  /\ step \in {"next", "evict"} => why = "EVICTED"

\* Over the capacity, the policy is about to evict or in the middle of it.
OverIsEvicting ==
  weightedSize > Cap => step = "evict" \/ (step = "unmap" /\ why = "EVICTED")

LEMMA HoldsInit == Init => HoldsPolicyMu
BY DEF Init, HoldsPolicyMu

LEMMA HoldsStep == Inv /\ HoldsPolicyMu /\ [Next]_vars => HoldsPolicyMu'
<1> SUFFICES ASSUME Inv, HoldsPolicyMu, [Next]_vars PROVE HoldsPolicyMu'
  OBVIOUS
<1>1. ASSUME UNCHANGED <<policyMu, mpc, step, why>> PROVE HoldsPolicyMu'
  BY <1>1 DEF HoldsPolicyMu
<1>2. CASE UNCHANGED vars \/ Close \/ TickExit \/ Elapse
           \/ \E c \in Client : Wait(c) \/ Send(c) \/ Wake(c)
  BY <1>1, <1>2 DEF vars, maintVars, stepVars, Close, TickExit, Elapse, Wait,
     Send, Wake
<1>3. CASE ExpireSkip \/ Recv \/ Collect \/ CollectDone \/ Lock \/ SinkWait
           \/ DrainDone \/ Unlock \/ MaintExit \/ Tick \/ TickDone
  BY <1>3 DEF HoldsPolicyMu, maintVars, stepVars, ExpireSkip, Recv, Collect,
     CollectDone, Lock, SinkWait, Draining, DrainDone, Unlock, MaintExit, Tick,
     TickDone
<1>4. ASSUME NEW c \in Client, NEW k \in Key, NEW cost \in Cost, NEW exp \in Nat,
             SetSame(c, k, cost, exp) \/ SetFresh(c, k, cost, exp)
      PROVE  HoldsPolicyMu'
  BY <1>1, <1>4 DEF SetSame, SetFresh, Rest, maintVars, stepVars
<1>5. ASSUME NEW c \in Client, NEW k \in Key, Delete(c, k) PROVE HoldsPolicyMu'
  BY <1>1, <1>5 DEF Delete, maintVars, stepVars
<1>6. ASSUME NEW s \in Shard, CloseShard(s) PROVE HoldsPolicyMu'
  BY <1>1, <1>6 DEF CloseShard, maintVars, stepVars
<1>7. CASE SinkIgnored \/ SinkNewExpired \/ SinkNew \/ SinkRemove \/ SinkUpdate
  BY <1>7 DEF HoldsPolicyMu, Draining, SinkIgnored, SinkNewExpired, SinkNew,
     SinkRemove, SinkUpdate, UpdateCost, EvictNext, ExpireStart, stepVars
<1>8. CASE ExpireCheck \/ Unmap \/ Evict \/ TickExpire
  BY <1>8 DEF HoldsPolicyMu, ExpireCheck, Unmap, Evict, TickExpire, EvictNext,
     ExpireStart, maintVars, Inv, TypeOK
<1> QED
  BY <1>2, <1>3, <1>4, <1>5, <1>6, <1>7, <1>8, NextCases DEF QuietStep

\* A sum that is sound is what weightedSize says.
LEMMA SizeExact ==
  TypeOK /\ WeightInSync /\ WeightsSound
    => weightedSize = PolicyTotal /\ PolicyTotal \in Nat
<1> SUFFICES ASSUME TypeOK, WeightInSync, WeightsSound
             PROVE  weightedSize = PolicyTotal /\ PolicyTotal \in Nat
  OBVIOUS
<1>1. \A e \in tracked : policyWeight[e] \in Nat
  BY TrackedFinite DEF WeightsSound
<1>2. PolicyTotal \in Nat
  BY <1>1, TrackedFinite, TotalNat, SizeIs
<1>3. Wrap \in Int /\ PolicyTotal < Wrap
  BY CostAssumption DEF WeightsSound
<1>4. PolicyTotal % Wrap = PolicyTotal
  BY <1>2, <1>3
<1> QED
  BY <1>2, <1>4 DEF WeightInSync

LEMMA RemoveLowers ==
  ASSUME TypeOK, TypeOK', WeightInSync, WeightInSync', WeightsSound, WeightsSound',
         NEW e \in Entry, PolicyRemove(e), UNCHANGED policyWeight
  PROVE  weightedSize' <= weightedSize
<1>1. weightedSize = PolicyTotal /\ PolicyTotal \in Nat
  BY SizeExact
<1>2. (weightedSize = PolicyTotal /\ PolicyTotal \in Nat)'
  BY SizeExact, PTL
<1>3. CASE e \in tracked
  <2>1. PolicyTotal' = PolicyTotal - policyWeight[e]
    BY <1>3, TotalRemoved DEF PolicyRemove
  <2>2. policyWeight[e] \in Int /\ policyWeight[e] >= 0
    BY <1>3 DEF WeightsSound, TypeOK
  <2> QED
    BY <1>1, <1>2, <2>1, <2>2
<1>4. CASE e \notin tracked
  BY <1>1, <1>4 DEF PolicyRemove
<1> QED
  BY <1>3, <1>4

\* Where eviction ends the size is right: no entry is left to be evicted only
\* if the sum is zero.
LEMMA EvictNextRight ==
  WeightInSync /\ EvictNext(weightedSize, tracked) = "next"
    => ~(weightedSize > Cap)
<1> SUFFICES ASSUME WeightInSync, EvictNext(weightedSize, tracked) = "next"
             PROVE  ~(weightedSize > Cap)
  OBVIOUS
<1>1. ~(weightedSize > Cap /\ tracked # {})
  BY DEF EvictNext
<1>2. ASSUME tracked = {} PROVE weightedSize = 0
  <2>1. PolicyTotal = 0
    BY <1>2, SizeIs, TotalEmpty
  <2>2. 0 % Wrap = 0
    BY CostAssumption
  <2> QED
    BY <2>1, <2>2 DEF WeightInSync
<1>3. ~(0 > Cap)
  BY CostAssumption
<1> QED
  BY <1>1, <1>2, <1>3

LEMMA OverStep ==
  ASSUME Inv, Inv', HoldsPolicyMu, WeightInSync, WeightInSync', WeightsSound,
         WeightsSound', OverIsEvicting, [Next]_vars
  PROVE  OverIsEvicting'
<1>0. TypeOK /\ TypeOK'
  BY DEF Inv
<1>1. ASSUME UNCHANGED <<weightedSize, step, why>> PROVE OverIsEvicting'
  BY <1>1 DEF OverIsEvicting
<1>2. EvictNext(weightedSize', tracked') = "next" => ~(weightedSize' > Cap)
  <2>1. (EvictNext(weightedSize, tracked) = "next" => ~(weightedSize > Cap))'
    BY EvictNextRight, PTL
  <2> QED
    BY <2>1
<1>3. \A n : n = EvictNext(weightedSize', tracked') => n \in {"evict", "next"}
  BY DEF EvictNext
<1>4. CASE QuietStep
  <2>1. UNCHANGED weightedSize
    BY <1>4, QuietEffect DEF policyVars
  <2>2. \/ UNCHANGED <<step, why>> \/ step = "check"
    BY <1>4 DEF QuietStep, vars, Wait, Send, Wake, Close, ExpireSkip, Recv,
       Collect, CollectDone, Lock, SinkWait, DrainDone, Unlock, MaintExit, Tick,
       TickDone, TickExit, Elapse, stepVars
  <2> QED
    BY <2>1, <2>2 DEF OverIsEvicting
<1>5. ASSUME NEW c \in Client, NEW k \in Key, NEW cost \in Cost, NEW exp \in Nat,
             SetSame(c, k, cost, exp) \/ SetFresh(c, k, cost, exp)
      PROVE  OverIsEvicting'
  BY <1>1, <1>5 DEF SetSame, SetFresh, SetExisting, SetNew, Rest, policyVars, stepVars
<1>6. ASSUME NEW c \in Client, NEW k \in Key, Delete(c, k) PROVE OverIsEvicting'
  BY <1>1, <1>6 DEF Delete, policyVars, stepVars
<1>7. ASSUME NEW s \in Shard, CloseShard(s) PROVE OverIsEvicting'
  BY <1>1, <1>7 DEF CloseShard, policyVars, stepVars
<1>8. CASE SinkIgnored \/ SinkNewExpired
  BY <1>8 DEF OverIsEvicting, SinkIgnored, SinkNewExpired, Draining, stepVars
<1>9. CASE SinkNew
  BY <1>2, <1>3, <1>9 DEF OverIsEvicting, SinkNew
<1>10. CASE SinkRemove
  <2>1. PICK e \in Entry : e = Item.entry
    BY <1>10, ItemMade DEF SinkRemove, clientVars
  <2>2. weightedSize' <= weightedSize
    BY <1>0, <1>10, <2>1, RemoveLowers DEF SinkRemove
  <2>3. ~(weightedSize > Cap)
    BY <1>10 DEF SinkRemove, Draining, OverIsEvicting
  <2>4. weightedSize \in Int /\ weightedSize' \in Int /\ Cap \in Int
    BY <1>0, CostAssumption DEF TypeOK
  <2> QED
    BY <2>2, <2>3, <2>4 DEF OverIsEvicting
<1>11. CASE SinkUpdate
  <2>1. step = "next" /\ why' = why /\ why = "EVICTED"
    BY <1>11 DEF SinkUpdate, Draining, HoldsPolicyMu
  <2>2. \/ UNCHANGED <<weightedSize, step>>
        \/ step' = "unmap"
        \/ step' = EvictNext(weightedSize', tracked')
    BY <1>11 DEF SinkUpdate, UpdateCost
  <2> QED
    BY <1>1, <1>2, <1>3, <2>1, <2>2 DEF OverIsEvicting
<1>12. CASE ExpireCheck
  <2>1. cur \in Entry
    BY <1>12 DEF ExpireCheck, Inv, ListenerInv, CurMade, Made
  <2>2. weightedSize' <= weightedSize
    BY <1>0, <1>12, <2>1, RemoveLowers DEF ExpireCheck
  <2>3. ~(weightedSize > Cap)
    BY <1>12 DEF ExpireCheck, OverIsEvicting
  <2>4. weightedSize \in Int /\ weightedSize' \in Int /\ Cap \in Int
    BY <1>0, CostAssumption DEF TypeOK
  <2> QED
    BY <2>2, <2>3, <2>4 DEF OverIsEvicting
<1>13. CASE Unmap
  <2>1. UNCHANGED <<weightedSize, tracked>>
    BY <1>13 DEF Unmap, policyVars
  <2>2. CASE why = "EVICTED"
    BY <1>2, <1>3, <1>13, <2>1, <2>2 DEF Unmap, OverIsEvicting
  <2>3. CASE why # "EVICTED"
    BY <1>13, <2>1, <2>3 DEF Unmap, OverIsEvicting
  <2> QED
    BY <2>2, <2>3
<1>14. CASE Evict
  BY <1>14 DEF Evict, OverIsEvicting
<1>15. CASE TickExpire
  BY <1>15 DEF TickExpire, OverIsEvicting
<1> QED
  BY <1>4, <1>5, <1>6, <1>7, <1>8, <1>9, <1>10, <1>11, <1>12, <1>13, <1>14,
     <1>15, NextCases

LEMMA SizeFree == HoldsPolicyMu /\ OverIsEvicting /\ Inv => SizeBounded
<1> SUFFICES ASSUME HoldsPolicyMu, OverIsEvicting, Inv, policyMu = "free"
             PROVE  weightedSize <= Cap
  BY DEF SizeBounded
<1>1. ~(weightedSize > Cap)
  BY DEF HoldsPolicyMu, OverIsEvicting
<1>2. weightedSize \in Int /\ Cap \in Int
  BY CostAssumption DEF Inv, TypeOK
<1> QED
  BY <1>1, <1>2

\* As long as no weight goes below zero and their sum stays within its type,
\* the policy is within the capacity whenever policyMu is free.
THEOREM WithinCapacity == Spec /\ []WeightsSound => []SizeBounded
<1>1. Init => HoldsPolicyMu /\ OverIsEvicting
  <2>1. ~(0 > Cap)
    BY CostAssumption
  <2> QED
    BY <2>1, HoldsInit DEF Init, OverIsEvicting
<1>2. Inv /\ Inv' /\ HoldsPolicyMu /\ WeightInSync /\ WeightInSync'
        /\ WeightsSound /\ WeightsSound' /\ OverIsEvicting /\ [Next]_vars
        => OverIsEvicting'
  BY OverStep
<1> QED
  BY <1>1, <1>2, SizeFree, HoldsStep, SizeInSync, InvHolds, PTL DEF Spec

-----------------------------------------------------------------------------
(* The capacity when all costs are the same, as they are unless the user   *)
(* gives a cost function: no event can then lower a weight.                *)

SameCost == \A a, b \in Cost : a = b

\* A mapped entry has a cost, a NEW event announces one, an UPDATE changes
\* nothing, and so no policy weight is below zero.
RaisesOnly ==
  /\ \A e \in Entry : Mapped(e) => weight[e] \in Cost
  /\ \A m \in Events : /\ m.code = "NEW" => m.costChange >= 0
                       /\ m.code = "UPDATE" => m.costChange = 0
  /\ \A e \in Entry : policyWeight[e] >= 0

LEMMA RaisesCallers ==
  ASSUME Inv, SameCost, RaisesOnly, NEW c \in Client, NEW k \in Key,
         NEW cost \in Cost, NEW exp \in Nat,
         SetSame(c, k, cost, exp) \/ SetFresh(c, k, cost, exp)
  PROVE  RaisesOnly'
<1>0. cost \in Nat
  BY CostAssumption
<1>1. CASE SetSame(c, k, cost, exp)
  <2>1. PICK e \in Entry :
          /\ e = hashmap[k] /\ weight' = [weight EXCEPT ![e] = cost]
          /\ Post(c, WriteBufItem("UPDATE", e, cost - weight[e], exp > 0 /\ exp # expire[e]))
          /\ UNCHANGED <<hashmap, policyWeight, writeChan, writeBuffer>>
    BY <1>1 DEF SetSame, SetExisting, Rest, maintVars, policyVars, Inv, TypeOK
  <2> DEFINE m == WriteBufItem("UPDATE", e, cost - weight[e], exp > 0 /\ exp # expire[e])
  <2>2. weight[e] = cost
    BY <2>1 DEF RaisesOnly, SameCost, Mapped
  <2>3. m.code = "UPDATE" /\ m.costChange = 0
    BY <1>0, <2>2 DEF WriteBufItem
  <2>4. Events' \subseteq Events \cup {m}
    BY <2>1, EventsPost DEF Inv
  <2>5. \A f \in Entry : Mapped(f)' => weight'[f] \in Cost
    BY <2>1 DEF RaisesOnly, Mapped, Inv, TypeOK
  <2> HIDE DEF m
  <2> QED
    BY <2>1, <2>3, <2>4, <2>5 DEF RaisesOnly
<1>2. CASE SetFresh(c, k, cost, exp)
  <2>1. PICK e \in Entry :
          /\ hashmap' = [hashmap EXCEPT ![k] = e]
          /\ weight' = [weight EXCEPT ![e] = cost]
          /\ policyWeight' = [policyWeight EXCEPT ![e] = 0]
          /\ Post(c, WriteBufItem("NEW", e, cost, FALSE))
          /\ UNCHANGED <<writeChan, writeBuffer>>
    BY <1>2 DEF SetFresh, SetNew, Rest, maintVars
  <2> DEFINE m == WriteBufItem("NEW", e, cost, FALSE)
  <2>2. m.code = "NEW" /\ m.costChange >= 0
    BY <1>0 DEF WriteBufItem
  <2>3. Events' \subseteq Events \cup {m}
    BY <2>1, EventsPost DEF Inv
  <2>4. \A f \in Entry : Mapped(f)' => weight'[f] \in Cost
    BY <2>1 DEF RaisesOnly, Mapped, Inv, TypeOK
  <2>5. \A f \in Entry : policyWeight'[f] >= 0
    BY <2>1 DEF RaisesOnly, Inv, TypeOK
  <2> HIDE DEF m
  <2> QED
    BY <2>2, <2>3, <2>4, <2>5 DEF RaisesOnly
<1> QED
  BY <1>1, <1>2

LEMMA RaisesStep == SameCost /\ Inv /\ RaisesOnly /\ [Next]_vars => RaisesOnly'
<1> SUFFICES ASSUME SameCost, Inv, RaisesOnly, [Next]_vars PROVE RaisesOnly'
  OBVIOUS
\* Steps that raise a weight, if they touch one, and send no cost.
<1>1. ASSUME UNCHANGED weight,
             \A k \in Key : hashmap'[k] \in {hashmap[k], NoEntry},
             \A m \in Events' : m \in Events \/ m.code \in {"WAIT", "REMOVE"},
             \A e \in Entry : policyWeight'[e] >= 0
      PROVE  RaisesOnly'
  <2>1. \A e \in Entry : Mapped(e)' => Mapped(e)
    BY <1>1 DEF Mapped, Entry, NoEntry
  <2> QED
    BY <1>1, <2>1 DEF RaisesOnly
<1>2. CASE QuietStep
  BY <1>1, <1>2, QuietEffect, QuietAdds DEF mapVars, policyVars, RaisesOnly, Bare
<1>3. ASSUME NEW c \in Client, NEW k \in Key, Delete(c, k) PROVE RaisesOnly'
  <2> DEFINE m == WriteBufItem("REMOVE", hashmap[k], 0, FALSE)
  <2>1. Events' \subseteq Events \cup {m} /\ m.code = "REMOVE"
    BY <1>3, EventsPost DEF Delete, Inv, maintVars, WriteBufItem
  <2>2. /\ UNCHANGED <<weight, policyWeight>>
        /\ \A j \in Key : hashmap'[j] \in {hashmap[j], NoEntry}
    BY <1>3 DEF Delete, policyVars, Inv, TypeOK
  <2> HIDE DEF m
  <2> QED
    BY <1>1, <2>1, <2>2 DEF RaisesOnly
<1>4. CASE \/ \E s \in Shard : CloseShard(s)
           \/ ExpireCheck \/ Unmap \/ Evict \/ TickExpire
  <2>1. UNCHANGED <<pc, out, writeChan, writeBuffer>>
    BY <1>4 DEF CloseShard, ExpireCheck, Unmap, Evict, TickExpire, clientVars,
       maintVars
  <2>2. /\ UNCHANGED <<weight, policyWeight>>
        /\ \A j \in Key : hashmap'[j] \in {hashmap[j], NoEntry}
    BY <1>4 DEF CloseShard, ExpireCheck, Unmap, Evict, TickExpire, mapVars,
       policyVars, Inv, TypeOK
  <2>3. Events' \subseteq Events
    BY <2>1, SameEvents
  <2> QED
    BY <1>1, <2>2, <2>3 DEF RaisesOnly
<1>5. CASE SinkIgnored \/ SinkNewExpired \/ SinkNew \/ SinkRemove \/ SinkUpdate
  <2>1. /\ Draining /\ Pop /\ UNCHANGED <<hashmap, weight, pc, out, writeChan>>
        /\ Item.code # "WAIT"
    BY <1>5 DEF SinkIgnored, SinkNewExpired, SinkNew, SinkRemove, SinkUpdate,
       clientVars, mapVars, Draining
  <2>2. /\ Item.entry \in Entry /\ Item \in Events /\ Events' \subseteq Events
    BY <2>1, Sunk
  <2>3. Item.costChange \in Int
    BY <2>1, EventsPop DEF Draining, Inv, Event
  <2>4. \A e \in Entry : policyWeight'[e] >= 0
    <3>1. CASE SinkIgnored \/ SinkNewExpired \/ SinkRemove
      BY <3>1 DEF SinkIgnored, SinkNewExpired, SinkRemove, RaisesOnly
    <3>2. CASE SinkNew \/ SinkUpdate
      <4>1. /\ Item.costChange >= 0
            /\ policyWeight' = [policyWeight EXCEPT ![Item.entry] = @ + Item.costChange]
        BY <2>2, <3>2 DEF SinkNew, SinkUpdate, RaisesOnly
      <4> QED
        BY <2>2, <2>3, <4>1 DEF RaisesOnly, Inv, TypeOK
    <3> QED
      BY <1>5, <3>1, <3>2
  <2> QED
    BY <1>1, <2>1, <2>2, <2>4
<1> QED
  BY <1>2, <1>3, <1>4, <1>5, RaisesCallers, NextCases

LEMMA TrackedUnannounced ==
  ASSUME TypeOK, NewOnce, NEW e \in tracked PROVE ~Pending(e, "NEW")
<1> SUFFICES ASSUME NEW m \in Events, m.entry = e, m.code = "NEW" PROVE FALSE
  BY DEF Pending
<1>1. OutNew(e) = {} /\ ChanNew(e) = {} /\ BatchNew(e) = {}
  BY DEF NewOnce, AnnouncedOnce, TypeOK
<1>2. CASE m \in {out[c] : c \in {d \in Client : pc[d] = "send"}}
  BY <1>1, <1>2 DEF OutNew, IsNew
<1>3. CASE m \in Range(writeChan)
  <2>1. PICK i \in 1..Len(writeChan) : m = writeChan[i]
    BY <1>3 DEF Range, TypeOK
  <2> QED
    BY <1>1, <2>1 DEF ChanNew, IsNew
<1>4. CASE m \in Range(writeBuffer)
  <2>1. PICK i \in 1..Len(writeBuffer) : m = writeBuffer[i]
    BY <1>4 DEF Range, TypeOK
  <2> QED
    BY <1>1, <2>1 DEF BatchNew, IsNew
<1> QED
  BY <1>2, <1>3, <1>4 DEF Events

Unannounced == \A e \in tracked : ~Pending(e, "NEW")

LEMMA TrackedNotNew == TypeOK /\ NewOnce => Unannounced
BY TrackedUnannounced DEF Unannounced

\* A NEW event carries the cost of its entry, which weighs nothing until then.
NewUnweighed ==
  \A m \in Events :
    m.code = "NEW" => m.costChange \in Cost /\ policyWeight[m.entry] = 0

LEMMA UnweighedSinks ==
  ASSUME Inv, Inv', NewOnce', RaisesOnly, NewUnweighed,
         SinkIgnored \/ SinkNewExpired \/ SinkNew \/ SinkRemove \/ SinkUpdate
  PROVE  NewUnweighed'
<1>1. /\ Draining /\ Pop /\ UNCHANGED <<pc, out, writeChan>> /\ Item.code # "WAIT"
  BY DEF SinkIgnored, SinkNewExpired, SinkNew, SinkRemove, SinkUpdate, clientVars,
     Draining
<1>2. Item.entry \in Entry /\ Item \in Events /\ Events' \subseteq Events
  BY <1>1, Sunk
<1>3. ASSUME UNCHANGED policyWeight PROVE NewUnweighed'
  BY <1>2, <1>3 DEF NewUnweighed
<1>4. CASE SinkIgnored \/ SinkNewExpired \/ SinkRemove
  BY <1>3, <1>4 DEF SinkIgnored, SinkNewExpired, SinkRemove
<1>5. CASE SinkUpdate
  <2>1. /\ policyWeight' = [policyWeight EXCEPT ![Item.entry] = @ + Item.costChange]
        /\ Item.costChange = 0
    BY <1>2, <1>5 DEF SinkUpdate, RaisesOnly
  <2>2. policyWeight' = policyWeight
    BY <1>2, <2>1 DEF Inv, TypeOK
  <2> QED
    BY <1>3, <2>2
<1>6. CASE SinkNew
  <2>1. PICK e \in Entry : /\ e = Item.entry /\ e \in tracked'
                           /\ policyWeight' = [policyWeight EXCEPT ![e] = @ + Item.costChange]
    BY <1>2, <1>6 DEF SinkNew
  <2>2. Unannounced'
    <3>1. (TypeOK /\ NewOnce => Unannounced)'
      BY TrackedNotNew, PTL
    <3> QED
      BY <3>1 DEF Inv
  <2>3. \A m \in Events' : m.code = "NEW" => m.entry # e
    BY <2>1, <2>2 DEF Pending, Unannounced
  <2>4. \A m \in Events' : m.code = "NEW" => policyWeight'[m.entry] = policyWeight[m.entry]
    BY <1>2, <2>1, <2>3 DEF Inv, TypeOK, ListenerInv, EventsMade, Made
  <2> QED
    BY <1>2, <2>4 DEF NewUnweighed
<1> QED
  BY <1>4, <1>5, <1>6

LEMMA UnweighedStep ==
  ASSUME Inv, Inv', NewOnce', RaisesOnly, NewUnweighed, [Next]_vars
  PROVE  NewUnweighed'
<1>1. ASSUME UNCHANGED policyWeight, \A m \in Events' : m \in Events \/ m.code # "NEW"
      PROVE  NewUnweighed'
  BY <1>1 DEF NewUnweighed
<1>2. CASE QuietStep
  BY <1>1, <1>2, QuietEffect, QuietAdds DEF policyVars, Bare
<1>3. ASSUME NEW c \in Client, NEW k \in Key, NEW cost \in Cost, NEW exp \in Nat,
             SetSame(c, k, cost, exp)
      PROVE  NewUnweighed'
  <2>1. PICK m : /\ m.code # "NEW" /\ Post(c, m)
                 /\ UNCHANGED <<policyWeight, writeChan, writeBuffer>>
    BY <1>3 DEF SetSame, SetExisting, Rest, maintVars, policyVars, WriteBufItem
  <2>2. Events' \subseteq Events \cup {m}
    BY <2>1, EventsPost DEF Inv
  <2> QED
    BY <1>1, <2>1, <2>2
<1>4. ASSUME NEW c \in Client, NEW k \in Key, NEW cost \in Cost, NEW exp \in Nat,
             SetFresh(c, k, cost, exp)
      PROVE  NewUnweighed'
  <2>1. PICK e \in Entry :
          /\ policyWeight' = [policyWeight EXCEPT ![e] = 0]
          /\ Post(c, WriteBufItem("NEW", e, cost, FALSE))
          /\ UNCHANGED <<writeChan, writeBuffer>>
    BY <1>4 DEF SetFresh, SetNew, Rest, maintVars
  <2>2. PICK m : m = WriteBufItem("NEW", e, cost, FALSE)
    OBVIOUS
  <2>3. m.entry = e /\ m.costChange = cost
    BY <2>2 DEF WriteBufItem
  <2>4. Events' \subseteq Events \cup {m}
    BY <2>1, <2>2, EventsPost DEF Inv
  <2>5. policyWeight'[e] = 0 /\ \A f \in Entry : policyWeight'[f] \in {0, policyWeight[f]}
    BY <2>1 DEF Inv, TypeOK
  <2>6. \A x \in Events : x.code = "NEW" => x.entry \in Entry
    BY DEF Inv, ListenerInv, EventsMade, Made
  <2> QED
    BY <2>3, <2>4, <2>5, <2>6 DEF NewUnweighed
<1>5. ASSUME NEW c \in Client, NEW k \in Key, Delete(c, k) PROVE NewUnweighed'
  <2>1. PICK m : /\ m.code # "NEW" /\ Post(c, m)
                 /\ UNCHANGED <<policyWeight, writeChan, writeBuffer>>
    BY <1>5 DEF Delete, maintVars, policyVars, WriteBufItem
  <2>2. Events' \subseteq Events \cup {m}
    BY <2>1, EventsPost DEF Inv
  <2> QED
    BY <1>1, <2>1, <2>2
<1>6. CASE \/ \E s \in Shard : CloseShard(s)
           \/ ExpireCheck \/ Unmap \/ Evict \/ TickExpire
  <2>1. UNCHANGED <<pc, out, writeChan, writeBuffer, policyWeight>>
    BY <1>6 DEF CloseShard, ExpireCheck, Unmap, Evict, TickExpire, clientVars,
       maintVars, policyVars
  <2>2. Events' \subseteq Events
    BY <2>1, SameEvents
  <2> QED
    BY <1>1, <2>1, <2>2
<1> QED
  BY <1>2, <1>3, <1>4, <1>5, <1>6, NextCases, UnweighedSinks

\* An entry is weighed only when the policy is within its capacity, so the sum
\* is never more than the capacity and one entry.
LEMMA SumStep ==
  ASSUME 2 * Cap < Wrap, Inv, Inv', NewOnce, RaisesOnly, NewUnweighed, WeightInSync,
         PolicyTotal < Wrap, OverIsEvicting, [Next]_vars
  PROVE  PolicyTotal' < Wrap
<1>0. TypeOK /\ TypeOK' /\ PolicyTotal \in Int /\ Wrap \in Int /\ Cap \in Nat
  BY TotalInt, CostAssumption DEF Inv
<1>1. weightedSize = PolicyTotal /\ PolicyTotal \in Nat
  BY <1>0, SizeExact DEF WeightsSound, RaisesOnly, TypeOK
<1>2. ASSUME UNCHANGED tracked, \A e \in tracked : policyWeight'[e] = policyWeight[e]
      PROVE  PolicyTotal' < Wrap
  BY <1>0, <1>2, TotalKept
<1>3. ASSUME NEW e \in Entry, PolicyRemove(e), UNCHANGED policyWeight
      PROVE  PolicyTotal' < Wrap
  <2>1. CASE e \in tracked
    <3>1. PolicyTotal' = PolicyTotal - policyWeight[e]
      BY <1>0, <1>3, <2>1, TotalRemoved DEF PolicyRemove
    <3>2. policyWeight[e] \in Int /\ policyWeight[e] >= 0
      BY <1>0 DEF RaisesOnly, TypeOK
    <3> QED
      BY <1>0, <3>1, <3>2
  <2>2. CASE e \notin tracked
    BY <1>2, <1>3, <2>2 DEF PolicyRemove
  <2> QED
    BY <2>1, <2>2
<1>4. CASE QuietStep
  BY <1>2, <1>4, QuietEffect DEF policyVars
<1>5. ASSUME NEW c \in Client, NEW k \in Key, NEW cost \in Cost, NEW exp \in Nat,
             SetSame(c, k, cost, exp)
      PROVE  PolicyTotal' < Wrap
  BY <1>2, <1>5 DEF SetSame, SetExisting, policyVars
<1>6. ASSUME NEW c \in Client, NEW k \in Key, NEW cost \in Cost, NEW exp \in Nat,
             SetFresh(c, k, cost, exp)
      PROVE  PolicyTotal' < Wrap
  <2>1. PICK e \in Entry : /\ ~Referenced(e)
                           /\ policyWeight' = [policyWeight EXCEPT ![e] = 0]
                           /\ UNCHANGED tracked
    BY <1>6 DEF SetFresh, SetNew
  <2>2. e \notin tracked
    BY <2>1 DEF Referenced
  <2> QED
    BY <1>0, <1>2, <2>1, <2>2 DEF TypeOK
<1>7. CASE \/ \E c \in Client, k \in Key : Delete(c, k)
           \/ \E s \in Shard : CloseShard(s)
           \/ Unmap \/ TickExpire \/ SinkIgnored \/ SinkNewExpired
  BY <1>2, <1>7 DEF Delete, CloseShard, Unmap, TickExpire, SinkIgnored,
     SinkNewExpired, policyVars
<1>8. CASE ExpireCheck
  BY <1>3, <1>8 DEF ExpireCheck, Inv, ListenerInv, CurMade, Made
<1>9. CASE Evict
  <2>1. PICK v \in tracked : PolicyRemove(v) /\ UNCHANGED policyWeight
    BY <1>9 DEF Evict
  <2> QED
    BY <1>0, <1>3, <2>1 DEF TypeOK
<1>10. CASE SinkNew \/ SinkRemove \/ SinkUpdate
  <2>1. /\ Draining /\ Pop /\ UNCHANGED <<pc, out, writeChan>> /\ Item.code # "WAIT"
    BY <1>10 DEF SinkNew, SinkRemove, SinkUpdate, clientVars, Draining
  <2>2. PICK e \in Entry : e = Item.entry /\ Item \in Events
    BY <2>1, Sunk
  <2>3. CASE SinkRemove
    BY <1>3, <2>2, <2>3 DEF SinkRemove
  <2>4. CASE SinkUpdate
    <3>1. /\ policyWeight' = [policyWeight EXCEPT ![e] = @ + Item.costChange]
          /\ Item.costChange = 0
      BY <2>2, <2>4 DEF SinkUpdate, RaisesOnly
    <3>2. policyWeight' = policyWeight /\ UNCHANGED tracked
      BY <1>0, <2>2, <2>4, <3>1 DEF TypeOK, SinkUpdate
    <3> QED
      BY <1>2, <3>2
  <2>5. CASE SinkNew
    <3>1. /\ policyWeight' = [policyWeight EXCEPT ![e] = @ + Item.costChange]
          /\ tracked' = tracked \cup {e} /\ Item.code = "NEW"
      BY <2>2, <2>5 DEF SinkNew
    <3>2. Item.costChange \in 1..Cap /\ policyWeight[e] = 0
      BY <2>2, <3>1, CostAssumption DEF NewUnweighed
    <3>3. policyWeight'[e] \in 1..Cap
      BY <1>0, <3>1, <3>2 DEF TypeOK
    <3>4. e \notin tracked
      BY <1>0, <2>1, <2>2, <3>1, NewPop DEF Draining
    <3>5. PolicyTotal' = PolicyTotal + policyWeight'[e]
      BY <1>0, <3>1, <3>4, TotalChanged DEF TypeOK
    <3>6. ~(weightedSize > Cap)
      BY <2>1 DEF Draining, OverIsEvicting
    <3> QED
      BY <1>0, <1>1, <3>3, <3>5, <3>6
  <2> QED
    BY <1>10, <2>3, <2>4, <2>5
<1> QED
  BY <1>4, <1>5, <1>6, <1>7, <1>8, <1>9, <1>10, NextCases

\* The cache is within its capacity whenever policyMu is free, however events
\* overtake each other, if every entry costs the same (the default is 1) and
\* the counter has room for twice the capacity, as a 64 bit one has: MaxSize
\* is an int64 and weightedSize a uint.
THEOREM WithinCapacitySameCost ==
  SameCost /\ 2 * Cap < Wrap => (Spec => []SizeBounded)
<1> SUFFICES ASSUME SameCost, 2 * Cap < Wrap PROVE Spec => []SizeBounded
  OBVIOUS
<1> DEFINE Sum == PolicyTotal < Wrap
           J == RaisesOnly /\ NewUnweighed /\ HoldsPolicyMu /\ OverIsEvicting /\ Sum
           Known_ == Inv /\ NewOnce /\ WeightInSync
<1>1. Init => J
  <2> SUFFICES ASSUME Init PROVE J
    OBVIOUS
  <2>1. RaisesOnly
    BY DEF Init, RaisesOnly, Mapped, Events, Range, Entry, NoEntry
  <2>2. NewUnweighed
    BY DEF Init, NewUnweighed, Events, Range
  <2>3. ~(0 > Cap) /\ 0 < Wrap
    BY CostAssumption
  <2>4. PolicyTotal = 0
    BY SizeIs, TotalEmpty DEF Init
  <2> QED
    BY <2>1, <2>2, <2>3, <2>4, HoldsInit DEF Init, OverIsEvicting
<1>2. Known_ /\ Known_' /\ J /\ [Next]_vars => J'
  <2> SUFFICES ASSUME Known_, Known_', J, [Next]_vars PROVE J'
    OBVIOUS
  <2>1. RaisesOnly' /\ NewUnweighed' /\ HoldsPolicyMu' /\ Sum'
    BY RaisesStep, UnweighedStep, HoldsStep, SumStep
  <2>2. WeightsSound /\ WeightsSound'
    BY <2>1 DEF RaisesOnly, WeightsSound, Inv, TypeOK
  <2>3. OverIsEvicting'
    BY <2>2, OverStep
  <2> QED
    BY <2>1, <2>3
<1>3. Known_ /\ J => SizeBounded
  BY SizeFree
<1> QED
  BY <1>1, <1>2, <1>3, SizeInSync, NewHolds, InvHolds, PTL DEF Spec

-----------------------------------------------------------------------------
(* Entries in the policy that no map has, in a cache without deadlines.    *)

NoDeadlines ==
  /\ wheel = {} /\ step # "check"
  /\ \A e \in Entry : expire[e] = 0
  /\ \A m \in Events : ~m.rechedule

Known(e) == e \in tracked \/ Pending(e, "NEW")

\* An entry the policy knows or will know is in its map, or its removal is on
\* the way, or has been.
OnItsWayOut ==
  \A e \in Entry : Known(e) /\ ~removed[e] /\ ~Mapped(e)
                     /\ index[key[e]] \notin shardClosed => Pending(e, "REMOVE")

\* Only a deletion flags an entry the policy does not know yet.
FlaggedByDelete ==
  /\ \A e \in Entry : deleted[e] => removed[e]
  /\ \A e \in Entry : Pending(e, "NEW") /\ removed[e] => deleted[e]

ZombieInv == NoDeadlines /\ OnItsWayOut /\ FlaggedByDelete

\* Steps that make nothing known and take nothing out of a map.
LEMMA ZombieFrame ==
  ASSUME Inv, ZombieInv, UNCHANGED <<hashmap, shardClosed, key>>,
         \A e \in Entry : Known(e)' => Known(e),
         \A e \in Entry : Pending(e, "NEW")' => Pending(e, "NEW"),
         \A e \in Entry : /\ removed[e] => removed'[e]
                          /\ Pending(e, "REMOVE") => Pending(e, "REMOVE")' \/ removed'[e]
                          /\ deleted[e] => deleted'[e]
                          /\ deleted'[e] => deleted[e] \/ removed'[e]
                          /\ removed'[e] => \/ removed[e] \/ deleted'[e]
                                            \/ ~Pending(e, "NEW")
  PROVE  OnItsWayOut' /\ FlaggedByDelete'
<1>1. \A e \in Entry : Mapped(e)' <=> Mapped(e)
  BY DEF Mapped
<1>2. OnItsWayOut'
  BY <1>1 DEF ZombieInv, OnItsWayOut
<1>3. FlaggedByDelete'
  BY DEF ZombieInv, FlaggedByDelete
<1> QED
  BY <1>2, <1>3

LEMMA ZombieQuiet ==
  ASSUME Inv, BatchDone, ZombieInv, QuietStep PROVE ZombieInv'
<1>1. UNCHANGED <<mapVars, policyVars>> /\ (UNCHANGED stepVars \/ step' = "next")
  BY QuietEffect
<1>2. \A m \in Events : m \in Events' \/ m.code = "WAIT"
  BY QuietKeeps
<1>3. \A m \in Events' : m \in Events \/ (m.code = "WAIT" /\ ~m.rechedule)
  BY QuietAdds DEF Bare
<1>4. \A e \in Entry : /\ Pending(e, "NEW")' <=> Pending(e, "NEW")
                       /\ Pending(e, "REMOVE") => Pending(e, "REMOVE")'
  BY <1>2, <1>3 DEF Pending
<1>5. UNCHANGED <<hashmap, shardClosed, key, expire, removed, deleted, tracked, wheel>>
  BY <1>1 DEF mapVars, policyVars
<1>6. OnItsWayOut' /\ FlaggedByDelete'
  BY <1>4, <1>5, ZombieFrame DEF Known
<1>7. NoDeadlines'
  BY <1>1, <1>3, <1>5 DEF ZombieInv, NoDeadlines, stepVars
<1> QED
  BY <1>6, <1>7 DEF ZombieInv

LEMMA ZombieCallers ==
  ASSUME Inv, ZombieInv, TTL \subseteq {0},
         \/ \E c \in Client, k \in Key, cost \in Cost, exp \in Nat :
              Given(exp) /\ (SetSame(c, k, cost, exp) \/ SetFresh(c, k, cost, exp))
         \/ \E c \in Client, k \in Key : Delete(c, k)
         \/ \E s \in Shard : CloseShard(s)
  PROVE  ZombieInv'
<1> USE DEF ZombieInv
<1>t. /\ expire \in [Entry -> Nat] /\ hashmap \in [Key -> Entry \cup {NoEntry}]
      /\ key \in [Entry -> Key \cup {NoKey}]
      /\ removed \in [Entry -> BOOLEAN] /\ deleted \in [Entry -> BOOLEAN]
  BY DEF Inv, TypeOK
<1>1. ASSUME NEW c \in Client, NEW k \in Key, NEW cost \in Cost, NEW exp \in Nat,
             Given(exp), SetSame(c, k, cost, exp)
      PROVE  ZombieInv'
  <2> DEFINE e == hashmap[k]
             m == WriteBufItem("UPDATE", e, cost - weight[e], exp > 0 /\ exp # expire[e])
  <2>1. /\ exp = 0 /\ e \in Entry
        /\ expire' = [expire EXCEPT ![e] = IF exp > 0 THEN exp ELSE @]
        /\ pc[c] = "idle" /\ Post(c, m) /\ UNCHANGED <<writeChan, writeBuffer>>
        /\ UNCHANGED <<hashmap, shardClosed, key, tracked, removed, deleted, wheel, step>>
    BY <1>t, <1>1 DEF SetSame, SetExisting, Given, Rest, policyVars, stepVars, maintVars
  <2>2. m.code = "UPDATE" /\ ~m.rechedule
    <3>1. ~(exp > 0)
      BY <2>1
    <3> QED
      BY <3>1, Zenon DEF WriteBufItem
  <2>3. Events' \subseteq Events \cup {m} /\ Events \subseteq Events'
    BY <2>1, EventsPost, PostKeeps DEF Inv
  <2> HIDE DEF m
  <2>4. NoDeadlines'
    BY <1>t, <2>1, <2>2, <2>3 DEF NoDeadlines
  <2>5. \A f \in Entry : /\ Pending(f, "NEW")' <=> Pending(f, "NEW")
                         /\ Pending(f, "REMOVE") => Pending(f, "REMOVE")'
    BY <2>2, <2>3 DEF Pending
  <2> QED
    BY <2>1, <2>4, <2>5, ZombieFrame DEF Known
<1>2. ASSUME NEW c \in Client, NEW k \in Key, NEW cost \in Cost, NEW exp \in Nat,
             Given(exp), SetFresh(c, k, cost, exp)
      PROVE  ZombieInv'
  <2>1. PICK e \in Entry :
          /\ exp = 0 /\ ~Referenced(e) /\ hashmap[k] = NoEntry
          /\ hashmap' = [hashmap EXCEPT ![k] = e]
          /\ key' = [key EXCEPT ![e] = k]
          /\ expire' = [expire EXCEPT ![e] = exp]
          /\ removed' = [removed EXCEPT ![e] = FALSE]
          /\ deleted' = [deleted EXCEPT ![e] = FALSE]
          /\ Post(c, WriteBufItem("NEW", e, cost, FALSE))
          /\ UNCHANGED <<shardClosed, tracked, wheel, step, writeChan, writeBuffer>>
          /\ pc[c] = "idle"
    BY <1>2 DEF SetFresh, SetNew, Given, Rest, stepVars, maintVars
  <2> DEFINE m == WriteBufItem("NEW", e, cost, FALSE)
  <2>2. m.code = "NEW" /\ m.entry = e /\ ~m.rechedule
    BY DEF WriteBufItem
  <2>3. Events' \subseteq Events \cup {m} /\ Events \subseteq Events'
    BY <2>1, EventsPost, PostKeeps DEF Inv
  <2> HIDE DEF m
  <2>4. NoDeadlines'
    BY <1>t, <2>1, <2>2, <2>3 DEF NoDeadlines
  <2>5. \A f \in Entry \ {e} : /\ Pending(f, "NEW")' <=> Pending(f, "NEW")
                               /\ Pending(f, "REMOVE") => Pending(f, "REMOVE")'
    BY <2>2, <2>3 DEF Pending
  <2>6. Mapped(e)' /\ \A f \in Entry \ {e} : Mapped(f) => Mapped(f)'
    BY <1>t, <2>1 DEF Mapped, Entry, NoEntry
  <2>7. \A f \in Entry \ {e} : /\ removed'[f] = removed[f] /\ deleted'[f] = deleted[f]
                               /\ key'[f] = key[f]
    BY <1>t, <2>1
  <2>8. OnItsWayOut'
    BY <2>1, <2>5, <2>6, <2>7 DEF OnItsWayOut, Known
  <2>9. FlaggedByDelete'
    BY <1>t, <2>1, <2>5, <2>7 DEF FlaggedByDelete
  <2> QED
    BY <2>4, <2>8, <2>9
<1>3. ASSUME NEW c \in Client, NEW k \in Key, Delete(c, k) PROVE ZombieInv'
  <2> DEFINE m == WriteBufItem("REMOVE", hashmap[k], 0, FALSE)
  <2>1. /\ hashmap' = [hashmap EXCEPT ![k] = NoEntry]
        /\ pc[c] = "idle" /\ Post(c, m) /\ UNCHANGED <<writeChan, writeBuffer>>
        /\ UNCHANGED <<shardClosed, key, expire, tracked, removed, deleted, wheel, step>>
    BY <1>3 DEF Delete, policyVars, stepVars, maintVars
  <2>2. m.code = "REMOVE" /\ m.entry = hashmap[k] /\ ~m.rechedule
    BY DEF WriteBufItem
  <2>3. Events' \subseteq Events \cup {m} /\ Events \subseteq Events' /\ m \in Events'
    BY <2>1, EventsPost, PostKeeps DEF Inv
  <2> HIDE DEF m
  <2>4. NoDeadlines'
    BY <2>1, <2>2, <2>3 DEF NoDeadlines
  <2>5. \A f \in Entry : /\ Pending(f, "NEW")' <=> Pending(f, "NEW")
                         /\ Pending(f, "REMOVE") => Pending(f, "REMOVE")'
                         /\ f = hashmap[k] => Pending(f, "REMOVE")'
    BY <2>2, <2>3 DEF Pending
  <2>6. \A f \in Entry : Mapped(f) /\ f # hashmap[k] => Mapped(f)'
    BY <1>t, <2>1 DEF Mapped
  <2>7. OnItsWayOut'
    BY <2>1, <2>5, <2>6 DEF OnItsWayOut, Known
  <2>8. FlaggedByDelete'
    BY <2>1, <2>5 DEF FlaggedByDelete
  <2> QED
    BY <2>4, <2>7, <2>8
<1>4. ASSUME NEW s \in Shard, CloseShard(s) PROVE ZombieInv'
  <2>1. /\ hashmap' = [k \in Key |-> IF index[k] = s THEN NoEntry ELSE hashmap[k]]
        /\ shardClosed' = shardClosed \cup {s}
        /\ UNCHANGED <<pc, out, writeChan, writeBuffer>>
        /\ UNCHANGED <<key, expire, tracked, removed, deleted, wheel, step>>
    BY <1>4 DEF CloseShard, clientVars, maintVars, policyVars, stepVars
  <2>2. Events' \subseteq Events /\ Events \subseteq Events'
    BY <2>1, SameEvents, SameKeeps
  <2>3. NoDeadlines'
    BY <2>1, <2>2 DEF NoDeadlines
  <2>4. \A f \in Entry, code \in {"NEW", "REMOVE"} : Pending(f, code)' <=> Pending(f, code)
    BY <2>2 DEF Pending
  <2>5. \A f \in Entry : Mapped(f) /\ index[key[f]] # s => Mapped(f)'
    BY <2>1 DEF Mapped, Inv, ListenerInv, MapsOwnKey, Entry, NoEntry
  <2>6. OnItsWayOut'
    BY <2>1, <2>4, <2>5 DEF OnItsWayOut, Known
  <2>7. FlaggedByDelete'
    BY <2>1, <2>4 DEF FlaggedByDelete
  <2> QED
    BY <2>3, <2>6, <2>7
<1> QED
  BY <1>1, <1>2, <1>3, <1>4

LEMMA ZombieSinks ==
  ASSUME Inv, NewOnce, ZombieInv,
         SinkIgnored \/ SinkNewExpired \/ SinkNew \/ SinkRemove \/ SinkUpdate
  PROVE  ZombieInv'
<1> USE DEF ZombieInv
<1>0. /\ Draining /\ Pop /\ UNCHANGED <<pc, out, writeChan>>
      /\ Item.code # "WAIT" /\ step = "next"
      /\ UNCHANGED <<hashmap, shardClosed, key, expire>>
  BY DEF SinkIgnored, SinkNewExpired, SinkNew, SinkRemove, SinkUpdate,
     clientVars, mapVars, Draining
<1>1. PICK e \in Entry :
        /\ e = Item.entry /\ Item \in Events
        /\ Events' \subseteq Events /\ Events \subseteq Events' \cup {Item}
  BY <1>0, Sunk
<1>2. /\ removed \in [Entry -> BOOLEAN] /\ deleted \in [Entry -> BOOLEAN]
      /\ tracked \subseteq Entry
  BY DEF Inv, TypeOK
<1>3. /\ \A f \in Entry, code \in {"NEW", "REMOVE"} : Pending(f, code)' => Pending(f, code)
      /\ \A f \in Entry, code \in {"NEW", "REMOVE"} :
           Pending(f, code) => Pending(f, code)' \/ (f = e /\ Item.code = code)
      /\ Pending(e, Item.code)
  BY <1>1 DEF Pending
<1>4. \A m \in Events' : ~m.rechedule
  BY <1>1 DEF NoDeadlines
<1>5. CASE SinkIgnored
  <2>1. /\ UNCHANGED <<tracked, removed, wheel, step>>
        /\ deleted' = [deleted EXCEPT ![e] = @ \/ Item.code = "REMOVE"]
        /\ deleted[e] \/ removed[e]
    BY <1>1, <1>5 DEF SinkIgnored, Ignores, stepVars
  <2>2. removed[e]
    BY <2>1 DEF FlaggedByDelete
  <2>3. \A f \in Entry : /\ deleted[f] => deleted'[f]
                         /\ deleted'[f] => deleted[f] \/ removed[f]
    BY <1>2, <2>1, <2>2
  <2>4. OnItsWayOut' /\ FlaggedByDelete'
    BY <1>0, <1>3, <2>1, <2>2, <2>3, ZombieFrame DEF Known
  <2> QED
    BY <1>0, <1>4, <2>1, <2>4 DEF NoDeadlines
<1>6. CASE SinkNewExpired
  BY <1>1, <1>6 DEF SinkNewExpired, NoDeadlines
<1>7. CASE SinkNew
  <2>1. /\ removed' = [removed EXCEPT ![e] = FALSE] /\ UNCHANGED deleted
        /\ tracked' = tracked \cup {e} /\ wheel' = wheel
        /\ step' \in {"evict", "next"}
        /\ ~deleted[e] /\ Item.code = "NEW"
    BY <1>1, <1>7 DEF SinkNew, Ignores, EvictNext, NoDeadlines
  <2>2. Pending(e, "NEW") /\ ~removed[e]
    BY <1>3, <2>1 DEF FlaggedByDelete
  <2>3. \A f \in Entry : removed'[f] = removed[f]
    BY <1>2, <2>1, <2>2
  <2>4. \A f \in Entry : Known(f)' => Known(f)
    BY <1>3, <2>1, <2>2 DEF Known
  <2>5. OnItsWayOut' /\ FlaggedByDelete'
    BY <1>0, <1>3, <2>1, <2>3, <2>4, ZombieFrame
  <2> QED
    BY <1>0, <1>4, <2>1, <2>5 DEF NoDeadlines
<1>8. CASE SinkRemove
  <2>1. /\ removed' = [removed EXCEPT ![e] = TRUE]
        /\ deleted' = [deleted EXCEPT ![e] = TRUE]
        /\ tracked' = tracked \ {e} /\ wheel' = wheel \ {e} /\ UNCHANGED step
    BY <1>1, <1>8 DEF SinkRemove, PolicyRemove, stepVars
  <2>2. \A f \in Entry : /\ removed[f] => removed'[f]
                         /\ deleted[f] => deleted'[f]
                         /\ deleted'[f] => deleted[f] \/ removed'[f]
                         /\ removed'[f] => removed[f] \/ deleted'[f]
                         /\ f = e => removed'[f]
    BY <1>2, <2>1
  <2>3. \A f \in Entry : Known(f)' => Known(f)
    BY <1>3, <2>1 DEF Known
  <2>4. OnItsWayOut' /\ FlaggedByDelete'
    BY <1>0, <1>3, <2>2, <2>3, ZombieFrame
  <2> QED
    BY <1>0, <1>4, <2>1, <2>4 DEF NoDeadlines
<1>9. CASE SinkUpdate
  <2>1. /\ Item.code = "UPDATE" /\ UNCHANGED deleted /\ ~Item.rechedule
        /\ \/ UNCHANGED <<tracked, removed, wheel>> /\ step' \in {"evict", "next"}
           \/ /\ e \in tracked /\ tracked' = tracked \ {e}
              /\ removed' = [removed EXCEPT ![e] = TRUE]
              /\ wheel' = wheel \ {e} /\ step' = "unmap"
    BY <1>0, <1>1, <1>9 DEF SinkUpdate, UpdateCost, EvictNext, NoDeadlines
  <2>2. \A f \in Entry : /\ removed[f] => removed'[f]
                         /\ removed'[f] => removed[f] \/ f \in tracked
    BY <1>2, <2>1
  <2>3. \A f \in tracked : ~Pending(f, "NEW")
    BY TrackedUnannounced DEF Inv
  <2>4. \A f \in Entry : Known(f)' => Known(f)
    BY <1>3, <2>1 DEF Known
  <2>5. OnItsWayOut' /\ FlaggedByDelete'
    BY <1>0, <1>3, <2>1, <2>2, <2>3, <2>4, ZombieFrame
  <2> QED
    BY <1>0, <1>4, <2>1, <2>5 DEF NoDeadlines
<1> QED
  BY <1>5, <1>6, <1>7, <1>8, <1>9

LEMMA ZombieRemovals ==
  ASSUME Inv, KeptInv, NewOnce, ZombieInv, ExpireCheck \/ Unmap \/ Evict \/ TickExpire
  PROVE  ZombieInv'
<1> USE DEF ZombieInv
<1>1. ~ExpireCheck /\ ~TickExpire
  BY DEF ExpireCheck, TickExpire, NoDeadlines
<1>2. Events' \subseteq Events /\ Events \subseteq Events'
  BY SameEvents, SameKeeps DEF ExpireCheck, Unmap, Evict, TickExpire, clientVars,
     maintVars
<1>3. \A f \in Entry, code \in {"NEW", "REMOVE"} : Pending(f, code)' <=> Pending(f, code)
  BY <1>2 DEF Pending
<1>4. CASE Unmap
  <2>1. /\ UNCHANGED <<shardClosed, key, expire, tracked, removed, deleted, wheel>>
        /\ step' \in {"evict", "next"} /\ removed[cur]
        /\ \A k \in Key : hashmap'[k] = hashmap[k] \/ hashmap[k] = cur
    BY <1>4 DEF Unmap, policyVars, EvictNext, KeptInv, CurRemoved, Inv, TypeOK
  <2>2. \A f \in Entry : Mapped(f) => Mapped(f)' \/ removed[f]
    BY <2>1 DEF Mapped
  <2>3. OnItsWayOut'
    BY <1>3, <2>1, <2>2 DEF OnItsWayOut, Known
  <2>4. FlaggedByDelete'
    BY <1>3, <2>1 DEF FlaggedByDelete
  <2>5. NoDeadlines'
    BY <1>2, <2>1 DEF NoDeadlines
  <2> QED
    BY <2>3, <2>4, <2>5
<1>5. CASE Evict
  <2>1. PICK v \in tracked : /\ tracked' = tracked \ {v} /\ wheel' = wheel \ {v}
                             /\ removed' = [removed EXCEPT ![v] = TRUE]
    BY <1>5 DEF Evict, PolicyRemove
  <2>2. /\ UNCHANGED <<hashmap, shardClosed, key, expire, deleted>>
        /\ step' = "unmap"
    BY <1>5 DEF Evict, mapVars
  <2>3. ~Pending(v, "NEW") /\ v \in Entry /\ removed \in [Entry -> BOOLEAN]
    BY TrackedUnannounced DEF Inv, TypeOK
  <2>4. \A f \in Entry : /\ removed[f] => removed'[f]
                         /\ removed'[f] => removed[f] \/ f = v
    BY <2>1, <2>3
  <2>5. OnItsWayOut' /\ FlaggedByDelete'
    BY <1>3, <2>1, <2>2, <2>3, <2>4, ZombieFrame DEF Known
  <2>6. NoDeadlines'
    BY <1>2, <2>1, <2>2 DEF NoDeadlines
  <2> QED
    BY <2>5, <2>6
<1> QED
  BY <1>1, <1>4, <1>5

LEMMA ZombieHolds == TTL \subseteq {0} => (Spec => []ZombieInv)
<1> SUFFICES ASSUME TTL \subseteq {0} PROVE Spec => []ZombieInv
  OBVIOUS
<1>1. Init => ZombieInv
  <2> SUFFICES ASSUME Init PROVE ZombieInv
    OBVIOUS
  <2>1. Events = {}
    BY DEF Init, Events, Range
  <2> QED
    BY <2>1 DEF Init, ZombieInv, NoDeadlines, OnItsWayOut, FlaggedByDelete, Known,
       Pending
<1>2. Inv /\ KeptInv /\ NewOnce /\ ZombieInv /\ [Next]_vars => ZombieInv'
  BY NextCases, ZombieQuiet, ZombieCallers, ZombieSinks, ZombieRemovals
  DEF KeptInv
<1> QED
  BY <1>1, <1>2, InvHolds, KeptHolds, NewHolds, PTL DEF Spec

\* In a cache without deadlines, what the policy keeps is in its map, or the
\* event that will take it out of the policy is on the way.  (With deadlines an
\* expiry of an entry whose NEW event was overtaken breaks this.)
THEOREM NoneUndead == TTL \subseteq {0} => (Spec => []NoZombie)
<1> SUFFICES ASSUME TTL \subseteq {0} PROVE Spec => []NoZombie
  OBVIOUS
<1>1. Inv /\ ZombieInv => NoZombie
  BY DEF Inv, TypeOK, ZombieInv, OnItsWayOut, NoZombie, Known
<1> QED
  BY <1>1, ZombieHolds, InvHolds, PTL

-----------------------------------------------------------------------------
(* No cost change is lost, in a cache without deadlines.                   *)

LEMMA TotalZero ==
  ASSUME NEW S, IsFiniteSet(S), NEW f, \A x \in S : f[x] = 0
  PROVE  Total(f, S) = 0
<1> DEFINE N == {0}
<1>1. 0 \in N /\ (\A a, b \in N : a + b \in N) /\ (\A x \in S : f[x] \in N)
  OBVIOUS
<1>2. Total(f, S) \in N
  <2> HIDE DEF N
  <2> QED
    BY <1>1, TotalWithin
<1> QED
  BY <1>2

\* An entry no event speaks of.
LEMMA PendingNone ==
  ASSUME TypeOK, NEW e \in Entry, \A m \in Events : m.entry # e
  PROVE  PendingChange(e) = 0
<1>1. \A c \in Client : SentOf(pc, out, e)[c] = 0
  BY DEF SentOf, Change, Events
<1>2. /\ \A i \in 1..Len(writeChan) : ItemsOf(writeChan, e)[i] = 0
      /\ \A i \in 1..Len(writeBuffer) : ItemsOf(writeBuffer, e)[i] = 0
  BY DEF ItemsOf, Change, Events, Range, TypeOK
<1>3. IsFiniteSet(1..Len(writeChan)) /\ IsFiniteSet(1..Len(writeBuffer))
  BY FS_Interval DEF TypeOK
<1>4. InSends(pc, out, e) = 0 /\ InItems(writeChan, e) = 0 /\ InItems(writeBuffer, e) = 0
  BY <1>1, <1>2, <1>3, TotalZero, ClientAssumption DEF InSends, InItems
<1>5. PendingChange(e) = InSends(pc, out, e) + InItems(writeChan, e) + InItems(writeBuffer, e)
  BY PendingIs DEF PendingSums
<1> QED
  BY <1>4, <1>5

LEMMA ConservedFrame ==
  ASSUME Inv, CostConserved, UNCHANGED <<weight, policyWeight>>,
         \A k \in Key : hashmap'[k] \in {hashmap[k], NoEntry},
         \A e \in Entry : removed[e] => removed'[e],
         \A e \in Entry : Mapped(e) /\ ~removed'[e] => PendingChange(e)' = PendingChange(e)
  PROVE  CostConserved'
<1> SUFFICES ASSUME NEW e \in Entry, Mapped(e)', ~removed'[e]
             PROVE  weight'[e] = policyWeight'[e] + PendingChange(e)'
  BY DEF CostConserved
<1>1. Mapped(e)
  BY DEF Mapped, Entry, NoEntry
<1> QED
  BY <1>1 DEF CostConserved

LEMMA ConservedCallers ==
  ASSUME Inv, Inv', CostConserved, NEW c \in Client, NEW k \in Key,
         NEW cost \in Cost, NEW exp \in Nat,
         SetSame(c, k, cost, exp) \/ SetFresh(c, k, cost, exp)
  PROVE  CostConserved'
<1> USE DEF Inv
<1>0. cost \in Nat
  BY CostAssumption
<1>1. CASE SetSame(c, k, cost, exp)
  <2>1. PICK e \in Entry :
          /\ e = hashmap[k] /\ weight' = [weight EXCEPT ![e] = cost]
          /\ Post(c, WriteBufItem("UPDATE", e, cost - weight[e], exp > 0 /\ exp # expire[e]))
          /\ UNCHANGED <<hashmap, policyWeight, removed, writeChan, writeBuffer>>
          /\ pc[c] = "idle" /\ weight[e] \in Nat
    BY <1>1 DEF SetSame, SetExisting, Rest, maintVars, policyVars, TypeOK
  <2> DEFINE m == WriteBufItem("UPDATE", e, cost - weight[e], exp > 0 /\ exp # expire[e])
  <2>2. m \in Event /\ m.entry = e /\ m.costChange = cost - weight[e]
    BY <1>0, <2>1 DEF WriteBufItem, Event
  <2> HIDE DEF m
  <2> SUFFICES ASSUME NEW f \in Entry, Mapped(f)', ~removed'[f]
               PROVE  weight'[f] = policyWeight'[f] + PendingChange(f)'
    BY DEF CostConserved
  <2>3. PendingChange(f)' = PendingChange(f) + Change(m, f)
    BY <2>1, <2>2, PendingPost DEF m
  <2>4. weight[f] = policyWeight[f] + PendingChange(f)
    BY <2>1 DEF CostConserved, Mapped
  <2>5. PendingChange(f) \in Int /\ policyWeight[f] \in Int
    <3>1. PendingChange(f) \in Int
      BY PendingBoth
    <3> QED
      BY <3>1 DEF TypeOK
  <2>6. CASE f = e
    <3>1. weight'[f] = cost /\ Change(m, f) = cost - weight[f]
      BY <2>1, <2>2, <2>6 DEF Change, TypeOK
    <3> QED
      BY <1>0, <2>1, <2>3, <2>4, <2>5, <2>6, <3>1
  <2>7. CASE f # e
    <3>1. weight'[f] = weight[f] /\ Change(m, f) = 0
      BY <2>1, <2>2, <2>7 DEF Change, TypeOK
    <3> QED
      BY <2>1, <2>3, <2>4, <2>5, <3>1
  <2> QED
    BY <2>6, <2>7
<1>2. CASE SetFresh(c, k, cost, exp)
  <2>1. PICK e \in Entry :
          /\ ~Referenced(e)
          /\ hashmap' = [hashmap EXCEPT ![k] = e]
          /\ weight' = [weight EXCEPT ![e] = cost]
          /\ policyWeight' = [policyWeight EXCEPT ![e] = 0]
          /\ removed' = [removed EXCEPT ![e] = FALSE]
          /\ Post(c, WriteBufItem("NEW", e, cost, FALSE))
          /\ UNCHANGED <<writeChan, writeBuffer>>
          /\ pc[c] = "idle"
    BY <1>2 DEF SetFresh, SetNew, Rest, maintVars
  <2> DEFINE m == WriteBufItem("NEW", e, cost, FALSE)
  <2>2. m \in Event /\ m.entry = e /\ m.costChange = cost
    BY <1>0, <2>1 DEF WriteBufItem, Event
  <2> HIDE DEF m
  <2> SUFFICES ASSUME NEW f \in Entry, Mapped(f)', ~removed'[f]
               PROVE  weight'[f] = policyWeight'[f] + PendingChange(f)'
    BY DEF CostConserved
  <2>3. PendingChange(f)' = PendingChange(f) + Change(m, f)
    BY <2>1, <2>2, PendingPost DEF m
  <2>4. PendingChange(f) \in Int /\ policyWeight[f] \in Int
    <3>1. PendingChange(f) \in Int
      BY PendingBoth
    <3> QED
      BY <3>1 DEF TypeOK
  <2>5. CASE f = e
    <3>1. PendingChange(f) = 0
      BY <2>1, <2>5, PendingNone DEF Referenced
    <3>2. weight'[f] = cost /\ policyWeight'[f] = 0 /\ Change(m, f) = cost
      BY <2>1, <2>2, <2>5 DEF Change, TypeOK
    <3> QED
      BY <1>0, <2>3, <3>1, <3>2
  <2>6. CASE f # e
    <3>1. /\ weight'[f] = weight[f] /\ policyWeight'[f] = policyWeight[f]
          /\ Change(m, f) = 0 /\ ~removed[f]
      BY <2>1, <2>2, <2>6 DEF Change, TypeOK
    <3>2. Mapped(f)
      BY <2>1, <2>6 DEF Mapped, TypeOK
    <3> QED
      BY <2>3, <2>4, <3>1, <3>2 DEF CostConserved
  <2> QED
    BY <2>5, <2>6
<1> QED
  BY <1>1, <1>2

LEMMA ConservedSinks ==
  ASSUME Inv, Inv', CostConserved, FlaggedByDelete,
         SinkIgnored \/ SinkNewExpired \/ SinkNew \/ SinkRemove \/ SinkUpdate
  PROVE  CostConserved'
<1> USE DEF Inv
<1>0. /\ Draining /\ Pop /\ UNCHANGED <<hashmap, weight, pc, out, writeChan>>
      /\ Item.code # "WAIT"
  BY DEF SinkIgnored, SinkNewExpired, SinkNew, SinkRemove, SinkUpdate,
     clientVars, mapVars, Draining
<1>1. PICK e \in Entry :
        e = Item.entry /\ Item \in Events /\ (Mapped(e) => ~deleted[e])
  BY <1>0, Sunk
<1>2. Item.costChange \in Int
  BY <1>0, EventsPop DEF Draining, Event
<1> SUFFICES ASSUME NEW f \in Entry, Mapped(f)', ~removed'[f]
             PROVE  weight'[f] = policyWeight'[f] + PendingChange(f)'
  BY DEF CostConserved
<1>3. Mapped(f) /\ weight'[f] = weight[f]
  BY <1>0 DEF Mapped
<1>4. PendingChange(f)' = PendingChange(f) - Change(Item, f)
  BY <1>0, PendingPop DEF Draining
<1>5. PendingChange(f) \in Int /\ policyWeight[f] \in Int
  <2>1. PendingChange(f) \in Int
    BY PendingBoth
  <2> QED
    BY <2>1 DEF TypeOK
<1>6. CASE f # e
  <2>1. policyWeight'[f] = policyWeight[f] /\ removed'[f] = removed[f]
    BY <1>1, <1>6 DEF SinkIgnored, SinkNewExpired, SinkNew, SinkRemove, SinkUpdate,
       ExpireStart, UpdateCost, TypeOK
  <2>2. Change(Item, f) = 0
    BY <1>1, <1>6 DEF Change
  <2> QED
    BY <1>3, <1>4, <1>5, <2>1, <2>2 DEF CostConserved
<1>7. CASE f = e
  <2>1. ~deleted[f]
    BY <1>1, <1>3, <1>7
  <2>2. CASE SinkIgnored
    BY <1>1, <1>7, <2>1, <2>2 DEF SinkIgnored, Ignores
  <2>3. CASE SinkNewExpired \/ SinkRemove
    BY <1>1, <1>7, <2>3 DEF SinkNewExpired, SinkRemove, ExpireStart, TypeOK
  <2>4. CASE SinkNew \/ SinkUpdate
    <3>1. /\ policyWeight'[f] = policyWeight[f] + Item.costChange
          /\ Change(Item, f) = Item.costChange
      BY <1>1, <1>7, <2>4 DEF SinkNew, SinkUpdate, Change, TypeOK
    <3>2. ~removed[f]
      BY <1>1, <1>7, <2>1, <2>4 DEF SinkNew, SinkUpdate, Ignores, FlaggedByDelete, Pending
    <3> QED
      BY <1>2, <1>3, <1>4, <1>5, <3>1, <3>2 DEF CostConserved
  <2> QED
    BY <2>2, <2>3, <2>4
<1> QED
  BY <1>6, <1>7

LEMMA ConservedStep ==
  Inv /\ Inv' /\ KeptInv /\ WaitsBare /\ FlaggedByDelete /\ CostConserved /\ [Next]_vars
    => CostConserved'
<1> SUFFICES ASSUME Inv, Inv', KeptInv, WaitsBare, FlaggedByDelete, CostConserved,
                    [Next]_vars
             PROVE  CostConserved'
  OBVIOUS
<1>1. CASE QuietStep
  <2>1. \A e \in Entry : PendingChange(e)' = PendingChange(e)
    BY <1>1, PendingQuiet DEF KeptInv
  <2>2. UNCHANGED <<hashmap, weight, policyWeight, removed>>
    BY <1>1, QuietEffect DEF mapVars, policyVars
  <2> QED
    BY <2>1, <2>2, ConservedFrame
<1>2. ASSUME NEW c \in Client, NEW k \in Key, Delete(c, k) PROVE CostConserved'
  <2> DEFINE m == WriteBufItem("REMOVE", hashmap[k], 0, FALSE)
  <2>1. m \in Event /\ \A e \in Entry : Change(m, e) = 0
    BY DEF WriteBufItem, Event, Change, Inv, TypeOK
  <2>2. Post(c, m) /\ pc[c] = "idle" /\ UNCHANGED <<writeChan, writeBuffer>>
    BY <1>2 DEF Delete, maintVars
  <2> HIDE DEF m
  <2>3. \A e \in Entry : PendingChange(e)' = PendingChange(e) /\ PendingChange(e) \in Int
    <3> SUFFICES ASSUME NEW e \in Entry
                 PROVE  PendingChange(e)' = PendingChange(e) /\ PendingChange(e) \in Int
      OBVIOUS
    <3>1. PendingChange(e)' = PendingChange(e) + Change(m, e)
      BY <2>1, <2>2, PendingPost DEF Inv
    <3>2. PendingChange(e) \in Int
      BY PendingBoth DEF Inv
    <3> QED
      BY <2>1, <3>1, <3>2
  <2>4. /\ UNCHANGED <<weight, policyWeight, removed>>
        /\ \A j \in Key : hashmap'[j] \in {hashmap[j], NoEntry}
    BY <1>2 DEF Delete, policyVars, Inv, TypeOK
  <2> QED
    BY <2>3, <2>4, ConservedFrame
<1>3. CASE \/ \E s \in Shard : CloseShard(s)
           \/ ExpireCheck \/ Unmap \/ Evict \/ TickExpire
  <2>1. UNCHANGED <<pc, out, writeChan, writeBuffer>>
    BY <1>3 DEF CloseShard, ExpireCheck, Unmap, Evict, TickExpire, clientVars,
       maintVars
  <2>2. \A e \in Entry : PendingChange(e)' = PendingChange(e)
    BY <2>1, PendingSame DEF Inv
  <2>3. /\ UNCHANGED <<weight, policyWeight>>
        /\ \A j \in Key : hashmap'[j] \in {hashmap[j], NoEntry}
    BY <1>3 DEF CloseShard, ExpireCheck, Unmap, Evict, TickExpire, mapVars,
       policyVars, Inv, TypeOK
  <2>4. \A e \in Entry : removed[e] => removed'[e]
    BY <1>3 DEF CloseShard, ExpireCheck, Unmap, Evict, TickExpire, ExpireStart,
       policyVars, Inv, TypeOK
  <2> QED
    BY <2>2, <2>3, <2>4, ConservedFrame
<1> QED
  BY <1>1, <1>2, <1>3, ConservedCallers, ConservedSinks, NextCases

LEMMA BareStep == Inv /\ WaitsBare /\ [Next]_vars => WaitsBare'
<1> SUFFICES ASSUME Inv, WaitsBare, [Next]_vars PROVE WaitsBare'
  OBVIOUS
<1>1. ASSUME \A m \in Events' : m \in Events \/ m.code # "WAIT" \/ Bare(m)
      PROVE  WaitsBare'
  BY <1>1 DEF WaitsBare, Bare
<1>2. CASE QuietStep
  BY <1>1, <1>2, QuietAdds
<1>3. ASSUME NEW c \in Client, NEW m, m.code # "WAIT", Post(c, m),
             UNCHANGED <<writeChan, writeBuffer>>
      PROVE  WaitsBare'
  <2>1. Events' \subseteq Events \cup {m}
    BY <1>3, EventsPost DEF Inv
  <2> QED
    BY <1>1, <1>3, <2>1
<1>4. ASSUME NEW c \in Client, NEW k \in Key, NEW cost \in Cost, NEW exp \in Nat,
             SetSame(c, k, cost, exp) \/ SetFresh(c, k, cost, exp)
      PROVE  WaitsBare'
  <2>1. PICK code, e, change, resched :
          /\ Post(c, WriteBufItem(code, e, change, resched))
          /\ code \in {"UPDATE", "NEW"}
    BY <1>4 DEF SetSame, SetFresh, SetExisting, SetNew
  <2>2. WriteBufItem(code, e, change, resched).code # "WAIT"
    BY <2>1 DEF WriteBufItem
  <2>3. UNCHANGED <<writeChan, writeBuffer>>
    BY <1>4 DEF SetSame, SetFresh, Rest, maintVars
  <2> QED
    BY <1>3, <2>1, <2>2, <2>3
<1>5. ASSUME NEW c \in Client, NEW k \in Key, Delete(c, k) PROVE WaitsBare'
  <2>1. WriteBufItem("REMOVE", hashmap[k], 0, FALSE).code # "WAIT"
    BY DEF WriteBufItem
  <2> QED
    BY <1>3, <1>5, <2>1 DEF Delete, maintVars
<1>6. CASE \/ \E s \in Shard : CloseShard(s)
           \/ ExpireCheck \/ Unmap \/ Evict \/ TickExpire
  <2>1. UNCHANGED <<pc, out, writeChan, writeBuffer>>
    BY <1>6 DEF CloseShard, ExpireCheck, Unmap, Evict, TickExpire, clientVars,
       maintVars
  <2> QED
    BY <1>1, <2>1, SameEvents
<1>7. CASE SinkIgnored \/ SinkNewExpired \/ SinkNew \/ SinkRemove \/ SinkUpdate
  <2>1. Draining /\ Pop /\ UNCHANGED <<pc, out, writeChan>> /\ Item.code # "WAIT"
    BY <1>7 DEF SinkIgnored, SinkNewExpired, SinkNew, SinkRemove, SinkUpdate,
       clientVars
  <2>2. Events' \subseteq Events
    BY <2>1, Sunk
  <2> QED
    BY <1>1, <2>2
<1> QED
  BY <1>2, <1>4, <1>5, <1>6, <1>7, NextCases

\* Without deadlines no cost change is lost or applied twice, in whatever order
\* the events of callers, evictions and deletions reach the policy.
THEOREM CostsConserved == TTL \subseteq {0} => (Spec => []CostConserved)
<1> SUFFICES ASSUME TTL \subseteq {0} PROVE Spec => []CostConserved
  OBVIOUS
<1>1. Init => CostConserved /\ WaitsBare
  BY DEF Init, CostConserved, Mapped, WaitsBare, Events, Range, Entry, NoEntry
<1>2. ZombieInv => FlaggedByDelete
  BY DEF ZombieInv
<1> QED
  BY <1>1, <1>2, BareStep, ConservedStep, ZombieHolds, KeptHolds, InvHolds, PTL DEF Spec

-----------------------------------------------------------------------------
(* Expiry and late deadlines.                                              *)

\* While an expired entry is being unmapped no event is drained, so the event
\* of a Set that gave it a new deadline is still there.
LEMMA EarlyStep ==
  Inv /\ BatchDone /\ HoldsPolicyMu /\ EarlyExpiry /\ [Next]_vars => EarlyExpiry'
<1> SUFFICES ASSUME Inv, BatchDone, HoldsPolicyMu, EarlyExpiry, [Next]_vars,
                    step' = "unmap", why' = "EXPIRED", Mapped(cur)', expire'[cur'] > now'
             PROVE  Pending(cur, "UPDATE")'
  BY DEF EarlyExpiry
<1>1. ASSUME step = "unmap", why = "EXPIRED", UNCHANGED <<cur, hashmap>>,
             expire'[cur] = expire[cur], expire[cur] > now' => expire[cur] > now,
             \A m \in Events : m \in Events' \/ m.code = "WAIT"
      PROVE  Pending(cur, "UPDATE")'
  <2>1. Mapped(cur)
    BY <1>1 DEF Mapped
  <2>2. Pending(cur, "UPDATE")
    BY <1>1, <2>1 DEF EarlyExpiry
  <2> QED
    BY <1>1, <2>2 DEF Pending
<1>2. CASE QuietStep
  <2>1. UNCHANGED <<hashmap, expire, step, cur, why>>
    BY <1>2, QuietEffect DEF mapVars, stepVars
  <2>2. now' = now \/ now' = now + 1
    BY <1>2 DEF QuietStep, vars, Wait, Send, Wake, Close, ExpireSkip, Recv, Collect,
       CollectDone, Lock, SinkWait, DrainDone, Unlock, MaintExit, Tick, TickDone,
       TickExit, Elapse
  <2>3. cur \in Entry
    BY <2>1 DEF Inv, ListenerInv, CurMade, Made
  <2>4. expire[cur] > now' => expire[cur] > now
    BY <2>2, <2>3 DEF Inv, TypeOK
  <2> QED
    BY <1>1, <1>2, <2>1, <2>4, QuietKeeps
<1>3. ASSUME NEW c \in Client, NEW k \in Key, NEW cost \in Cost, NEW exp \in Nat,
             SetSame(c, k, cost, exp)
      PROVE  Pending(cur, "UPDATE")'
  <2> DEFINE e == hashmap[k]
             m == WriteBufItem("UPDATE", e, cost - weight[e], exp > 0 /\ exp # expire[e])
  <2>1. /\ expire' = [expire EXCEPT ![e] = IF exp > 0 THEN exp ELSE @]
        /\ pc[c] = "idle" /\ Post(c, m) /\ UNCHANGED <<writeChan, writeBuffer>>
        /\ UNCHANGED <<hashmap, step, cur, why, now>>
    BY <1>3 DEF SetSame, SetExisting, Rest, stepVars, maintVars
  <2>2. m.code = "UPDATE" /\ m.entry = e
    BY DEF WriteBufItem
  <2>3. Events \cup {m} \subseteq Events'
    BY <2>1, PostKeeps DEF Inv
  <2> HIDE DEF m
  <2>4. CASE cur = e
    BY <2>1, <2>2, <2>3, <2>4 DEF Pending
  <2>5. CASE cur # e
    <3>1. expire'[cur] = expire[cur]
      BY <2>1, <2>5 DEF Inv, ListenerInv, CurMade, Made, TypeOK
    <3> QED
      BY <1>1, <2>1, <2>3, <3>1
  <2> QED
    BY <2>4, <2>5
<1>4. ASSUME NEW c \in Client, NEW k \in Key, NEW cost \in Cost, NEW exp \in Nat,
             SetFresh(c, k, cost, exp)
      PROVE  Pending(cur, "UPDATE")'
  <2>1. PICK e \in Entry :
          /\ ~Referenced(e)
          /\ hashmap' = [hashmap EXCEPT ![k] = e]
          /\ expire' = [expire EXCEPT ![e] = exp]
          /\ pc[c] = "idle" /\ Post(c, WriteBufItem("NEW", e, cost, FALSE))
          /\ UNCHANGED <<step, cur, why, now, writeChan, writeBuffer>>
    BY <1>4 DEF SetFresh, SetNew, Rest, stepVars, maintVars
  <2>2. Events \subseteq Events'
    BY <2>1, PostKeeps DEF Inv
  <2>3. cur # e /\ cur \in Entry
    BY <2>1 DEF Referenced, Inv, ListenerInv, CurMade, Made
  <2>4. Mapped(cur) /\ expire[cur] > now
    BY <2>1, <2>3 DEF Mapped, Inv, TypeOK
  <2>5. Pending(cur, "UPDATE")
    BY <2>1, <2>4 DEF EarlyExpiry
  <2> QED
    BY <2>1, <2>2, <2>5 DEF Pending
<1>5. ASSUME \A k \in Key : hashmap'[k] \in {hashmap[k], NoEntry},
             UNCHANGED <<expire, step, cur, why, now>>, Events \subseteq Events'
      PROVE  Pending(cur, "UPDATE")'
  <2>1. cur \in Entry
    BY <1>5 DEF Inv, ListenerInv, CurMade, Made
  <2>2. Mapped(cur)
    BY <1>5, <2>1 DEF Mapped, Entry, NoEntry
  <2>3. Pending(cur, "UPDATE")
    BY <1>5, <2>2 DEF EarlyExpiry
  <2> QED
    BY <1>5, <2>3 DEF Pending
<1>6. ASSUME NEW c \in Client, NEW k \in Key, Delete(c, k)
      PROVE  Pending(cur, "UPDATE")'
  <2>1. Events \subseteq Events'
    BY <1>6, PostKeeps DEF Delete, Inv, maintVars
  <2> QED
    BY <1>5, <1>6, <2>1 DEF Delete, stepVars, Inv, TypeOK
<1>7. ASSUME NEW s \in Shard, CloseShard(s) PROVE Pending(cur, "UPDATE")'
  <2>1. Events \subseteq Events'
    BY <1>7, SameKeeps DEF CloseShard, clientVars, maintVars
  <2> QED
    BY <1>5, <1>7, <2>1 DEF CloseShard, stepVars, Inv, TypeOK
<1>8. CASE ExpireCheck
  <2>1. UNCHANGED <<expire, cur, now>> /\ expire[cur] <= now /\ cur \in Entry
    BY <1>8 DEF ExpireCheck, mapVars, Inv, ListenerInv, CurMade, Made
  <2>2. expire[cur] \in Nat /\ now \in Nat
    BY <2>1 DEF Inv, TypeOK
  <2> QED
    BY <2>1, <2>2
<1>9. CASE SinkIgnored \/ SinkNewExpired \/ SinkNew \/ SinkRemove \/ SinkUpdate
           \/ Unmap \/ Evict \/ TickExpire
  BY <1>9 DEF SinkIgnored, SinkNewExpired, SinkNew, SinkRemove, SinkUpdate, Unmap,
     Evict, TickExpire, ExpireStart, EvictNext, UpdateCost, Draining, HoldsPolicyMu,
     stepVars
<1> QED
  BY <1>2, <1>3, <1>4, <1>6, <1>7, <1>8, <1>9, NextCases

\* An entry is taken out of its map as expired before its time only while the
\* event of the Set that gave it more time is on its way.
THEOREM ExpiryUndoesNoKnownSet == Spec => []EarlyExpiry
<1>1. Init => EarlyExpiry /\ HoldsPolicyMu
  BY HoldsInit DEF Init, EarlyExpiry
<1>2. KeptInv => BatchDone
  BY DEF KeptInv
<1> QED
  BY <1>1, <1>2, EarlyStep, HoldsStep, KeptHolds, InvHolds, PTL DEF Spec
=============================================================================
