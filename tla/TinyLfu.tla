------------------------------ MODULE TinyLfu ------------------------------
(***************************************************************************)
(* The W-TinyLFU eviction policy (internal/tlfu.go, slru.go, list.go): an  *)
(* admission window and a segmented LRU of a probation and a protected     *)
(* list, whose capacities a hill climber shifts.  The store calls it under *)
(* policyMu, so an operation runs alone; one action is one turn of one of  *)
(* its loops.                                                              *)
(*                                                                         *)
(* Abstracted.  Which of two entries the sketch finds more frequent is     *)
(* left open (admit), and so are the hit rates and float steps that decide *)
(* whether and by how much the climber moves; its clamps are kept.         *)
(***************************************************************************)
EXTENDS Integers, Sequences, SequencesExt, FiniteSetsExt

CONSTANTS
  Entry,        \* bound: the entries the store can hand over
  Cost,         \* the policy weights they come to have: 0 from a cost function
                \* or reordered updates, above Cap from reordered updates
  Cap,          \* the policy's capacity
  Amount,       \* what the climber's step may come to
  Wrap,         \* 2^width of weightedSize
  Nil

ASSUME CapAssumption == Cap \in Nat \ {0} /\ Wrap \in Nat \ {0} /\ Cost \subseteq Nat
ASSUME AmountAssumption == Amount \subseteq Int
ASSUME EntryAssumption == Nil \notin Entry /\ IsFiniteSet(Entry)

Queue == {"window", "probation", "protected"}

WindowSize == IF Cap \div 100 < 1 THEN 1 ELSE Cap \div 100

VARIABLES
  list,         \* the three lists; a list's front is its first element
  len,          \* their len fields: the running sums of weights
  capacity,     \* of the window and of the protected list
  policyWeight, weightedSize,
  pc, op, arg,  \* the operation under way and its entry
  amount,       \* the climber's
  candidate, victim, candidateQueue, victimQueue  \* of evictFromMain

lists == <<list, len, policyWeight, weightedSize>>
walk  == <<candidate, victim, candidateQueue, victimQueue>>
vars  == <<lists, capacity, pc, op, arg, amount, walk>>

Init ==
  /\ list = [q \in Queue |-> << >>]
  /\ len = [q \in Queue |-> 0]
  /\ capacity = [window |-> WindowSize,
                 protected |-> ((Cap - WindowSize) * 8) \div 10]
  /\ policyWeight = [e \in Entry |-> 0] /\ weightedSize = 0
  /\ pc = "idle" /\ op = "none" /\ arg = Nil /\ amount = 0
  /\ candidate = Nil /\ victim = Nil
  /\ candidateQueue = "probation" /\ victimQueue = "probation"

-----------------------------------------------------------------------------
(* List operations (list.go).                                              *)

Listed == UNION {ToSet(list[q]) : q \in Queue}
QueueOf(e) == CHOOSE q \in Queue : e \in ToSet(list[q])

Back(q) == IF list[q] = << >> THEN Nil ELSE Last(list[q])

Place(l, e) == CHOOSE i \in 1..Len(l) : l[i] = e

\* The list without e, which has one place in it.
Unlink(l, e) == RemoveAt(l, Place(l, e))

\* The entry before e, towards the front of its list; Nil at the front.
PrevPolicy(e) ==
  LET l == list[QueueOf(e)] IN
  IF Place(l, e) = 1 THEN Nil ELSE l[Place(l, e) - 1]

\* Take e out of its list, put it in front of q: Remove and PushFront, or
\* MoveToFront.
MoveToFront(e, q) ==
  LET from == QueueOf(e) IN
  /\ list' = [[list EXCEPT ![from] = Unlink(@, e)] EXCEPT ![q] = <<e>> \o @]
  /\ len' = [[len EXCEPT ![from] = @ - policyWeight[e]]
                  EXCEPT ![q] = @ + policyWeight[e]]

\* TinyLfu.Remove, which leaves the entry its weight.
Drop(e) ==
  LET from == QueueOf(e) IN
  /\ list' = [list EXCEPT ![from] = Unlink(@, e)]
  /\ len' = [len EXCEPT ![from] = @ - policyWeight[e]]
  /\ weightedSize' = (weightedSize - policyWeight[e]) % Wrap

Finish == /\ pc' = "idle" /\ op' = "none" /\ arg' = Nil
          /\ candidate' = Nil /\ victim' = Nil
          /\ candidateQueue' = "probation" /\ victimQueue' = "probation"

-----------------------------------------------------------------------------
(* The operations of the store.                                            *)

\* Set and Access first let the climber move if its sample is complete.
Begin(name, e) ==
  /\ pc = "idle"
  /\ op' = name /\ arg' = e
  /\ pc' \in {"climb", name}
  /\ UNCHANGED <<lists, capacity, amount, walk>>

Set(e) == e \notin Listed /\ Begin("Set", e)
Access(e) == Begin("Access", e)

SetAdd ==
  /\ pc = "Set"
  /\ \E w \in Cost :
       /\ policyWeight' = [policyWeight EXCEPT ![arg] = w]
       /\ weightedSize' = (weightedSize + w) % Wrap
       /\ list' = [list EXCEPT !["window"] = <<arg>> \o @]
       /\ len' = [len EXCEPT !["window"] = @ + w]
  /\ pc' = "demote"
  /\ UNCHANGED <<capacity, op, arg, amount, walk>>

\* An access to an entry the policy has let go in the meantime moves nothing.
AccessMove ==
  /\ pc = "Access"
  /\ IF arg \in Listed
       THEN MoveToFront(arg, IF QueueOf(arg) = "window" THEN "window"
                                                        ELSE "protected")
       ELSE UNCHANGED <<list, len>>
  /\ Finish
  /\ UNCHANGED <<capacity, policyWeight, weightedSize, amount>>

RemoveListed(e) ==
  /\ pc = "idle" /\ e \in Listed
  /\ Drop(e)
  /\ UNCHANGED <<capacity, policyWeight, pc, op, arg, amount, walk>>

\* Seeded fault: the length of the list is not brought up to date.
UpdateCostUnsized(e, w) ==
  LET change == w - policyWeight[e] IN
  /\ pc = "idle" /\ e \in Listed /\ change # 0
  /\ policyWeight' = [policyWeight EXCEPT ![e] = w]
  /\ weightedSize' = (weightedSize + change) % Wrap
  /\ op' = "UpdateCost" /\ arg' = e /\ pc' = "updated"
  /\ UNCHANGED <<list, len, capacity, amount, walk>>

\* sinkWrite's change of policyWeight and the head of UpdateCost.
UpdateCost(e, w) ==
  LET change == w - policyWeight[e]
      q == QueueOf(e)
  IN
  /\ pc = "idle" /\ e \in Listed /\ change # 0
  /\ policyWeight' = [policyWeight EXCEPT ![e] = w]
  /\ weightedSize' = (weightedSize + change) % Wrap
  /\ len' = [len EXCEPT ![q] = @ + change]
  /\ op' = "UpdateCost" /\ arg' = e /\ pc' = "updated"
  /\ UNCHANGED <<list, capacity, amount, walk>>

\* The tail of UpdateCost: an entry that is too heavy is evicted at once,
\* another is touched; then, if need be, the rest is made to fit.
Updated ==
  /\ pc = "updated"
  /\ IF policyWeight[arg] > Cap
       THEN Drop(arg)
       ELSE /\ MoveToFront(arg, IF QueueOf(arg) = "window" THEN "window"
                                                           ELSE "protected")
            /\ UNCHANGED weightedSize
  /\ pc' = "fit"
  /\ UNCHANGED <<capacity, policyWeight, op, arg, amount, walk>>

\* Seeded fault: a heavier entry makes nobody leave.
FitAsIs == pc = "fit" /\ Finish /\ UNCHANGED <<lists, capacity, amount>>

Fit ==
  /\ pc = "fit"
  /\ IF weightedSize > Cap
       THEN pc' = "evictWindow" /\ UNCHANGED <<op, arg, walk>>
       ELSE Finish
  /\ UNCHANGED <<lists, capacity, amount>>

-----------------------------------------------------------------------------
(* The hill climber: climb and resizeWindow.                               *)

\* Seeded fault: the window is allowed to shrink to nothing.
ClampToZero(a) ==
  IF a > capacity.protected THEN capacity.protected
  ELSE IF -a > capacity.window THEN -capacity.window
  ELSE a

\* The protected list keeps at least 0, the window at least 1.
Clamp(a) ==
  IF a > 0 /\ a > capacity.protected THEN capacity.protected
  ELSE IF a < 0 /\ -a > capacity.window - 1 THEN -(capacity.window - 1)
  ELSE a

Climb ==
  /\ pc = "climb"
  /\ \E a \in Amount :
       /\ amount' = Clamp(a)
       /\ capacity' = [window    |-> capacity.window + Clamp(a),
                       protected |-> capacity.protected - Clamp(a)]
  /\ pc' = "demoteFirst"
  /\ UNCHANGED <<lists, op, arg, walk>>

AfterDemote ==
  IF pc = "demote" THEN "evictWindow"
  ELSE IF amount > 0 THEN "grow" ELSE IF amount < 0 THEN "shrink" ELSE op

\* A turn of demoteFromProtected, from resizeWindow or from Set.
Demote ==
  /\ pc \in {"demoteFirst", "demote"}
  /\ IF len["protected"] > capacity.protected
       THEN /\ list["protected"] # << >>
            /\ MoveToFront(Back("protected"), "probation")
            /\ UNCHANGED pc
       ELSE pc' = AfterDemote /\ UNCHANGED <<list, len>>
  /\ UNCHANGED <<policyWeight, weightedSize, capacity, op, arg, amount, walk>>

\* The entry a turn of increaseWindow, or of decreaseWindow, would move.
Moving ==
  LET p == Back("probation") IN
  IF pc = "shrink" THEN Back("window")
  ELSE IF p = Nil \/ policyWeight[p] > amount THEN Back("protected")
  ELSE p
Distance == IF pc = "grow" THEN amount ELSE -amount
CanMove == Moving # Nil /\ policyWeight[Moving] <= Distance

\* A turn of increaseWindow or decreaseWindow; amount is what remains.
Resize ==
  /\ pc \in {"grow", "shrink"} /\ CanMove
  /\ MoveToFront(Moving, IF pc = "grow" THEN "window" ELSE "probation")
  /\ amount' = IF pc = "grow" THEN amount - policyWeight[Moving]
                              ELSE amount + policyWeight[Moving]
  /\ UNCHANGED <<policyWeight, weightedSize, capacity, pc, op, arg, walk>>

\* What could not be moved is given back.
ResizeDone ==
  /\ pc \in {"grow", "shrink"} /\ ~CanMove
  /\ capacity' = [window    |-> capacity.window - amount,
                  protected |-> capacity.protected + amount]
  /\ amount' = 0
  /\ pc' = op
  /\ UNCHANGED <<lists, op, arg, walk>>

-----------------------------------------------------------------------------
(* EvictEntries.                                                           *)

\* A turn of evictFromWindow; the first entry it moves is the candidate.
EvictWindow ==
  /\ pc = "evictWindow" /\ len["window"] > capacity.window
  /\ list["window"] # << >>
  /\ MoveToFront(Back("window"), "probation")
  /\ candidate' = IF candidate = Nil THEN Back("window") ELSE candidate
  /\ UNCHANGED <<policyWeight, weightedSize, capacity, pc, op, arg, amount,
                 victim, candidateQueue, victimQueue>>

EvictWindowDone ==
  /\ pc = "evictWindow" /\ len["window"] <= capacity.window
  /\ victim' = Back("probation")
  /\ pc' = "evictMain"
  /\ UNCHANGED <<lists, capacity, op, arg, amount, candidate, candidateQueue,
                 victimQueue>>

Over == pc = "evictMain" /\ weightedSize > Cap

\* The candidate a turn works with, once the window has been resorted to.
Cand == IF candidate = Nil /\ candidateQueue = "probation" THEN Back("window")
                                                           ELSE candidate
CandQueue == IF candidate = Nil THEN "window" ELSE candidateQueue

\* Seeded fault: the list that has run out is searched again.
NextVictimsSame ==
  /\ Over /\ Cand = Nil /\ victim = Nil /\ victimQueue # "window"
  /\ victimQueue' = victimQueue
  /\ victim' = Back(victimQueue)
  /\ candidate' = Nil /\ candidateQueue' = CandQueue
  /\ UNCHANGED <<lists, capacity, pc, op, arg, amount>>

\* Neither is left: the victims come from the protected list, then the window.
NextVictims ==
  /\ Over /\ Cand = Nil /\ victim = Nil /\ victimQueue # "window"
  /\ victimQueue' = IF victimQueue = "probation" THEN "protected" ELSE "window"
  /\ victim' = Back(victimQueue')
  /\ candidate' = Nil /\ candidateQueue' = CandQueue
  /\ UNCHANGED <<lists, capacity, pc, op, arg, amount>>

Turn(evicted, c, v) ==
  /\ Drop(evicted)
  /\ candidate' = c /\ victim' = v /\ candidateQueue' = CandQueue
  /\ UNCHANGED <<policyWeight, capacity, pc, op, arg, amount, victimQueue>>

EvictCandidateOnly ==
  /\ Over /\ Cand # Nil /\ victim = Nil
  /\ Turn(Cand, PrevPolicy(Cand), Nil)

EvictVictimOnly ==
  /\ Over /\ Cand = Nil /\ victim # Nil
  /\ Turn(victim, Nil, PrevPolicy(victim))

\* Seeded fault: the candidate is kept after its eviction.
EvictSameKept ==
  /\ Over /\ Cand # Nil /\ victim = Cand
  /\ Turn(Cand, Cand, PrevPolicy(victim))

EvictSame ==
  /\ Over /\ Cand # Nil /\ victim = Cand
  /\ Turn(Cand, Nil, PrevPolicy(victim))

Contest == Over /\ Cand # Nil /\ victim # Nil /\ victim # Cand

\* The candidate is heavier than everything together, or it is not admitted.
EvictCandidate ==
  /\ Contest
  /\ Turn(Cand, PrevPolicy(Cand), victim)

\* The candidate is admitted.  Its neighbour is read after the victim has gone.
EvictVictim ==
  /\ Contest /\ policyWeight[Cand] <= weightedSize
  /\ Turn(victim,
          IF PrevPolicy(Cand) = victim THEN PrevPolicy(victim)
                                       ELSE PrevPolicy(Cand),
          PrevPolicy(victim))

EvictDone ==
  /\ pc = "evictMain"
  /\ \/ weightedSize <= Cap
     \/ Over /\ Cand = Nil /\ victim = Nil /\ victimQueue = "window"
  /\ Finish
  /\ UNCHANGED <<lists, capacity, amount>>

-----------------------------------------------------------------------------
EvictMain == \/ NextVictims \/ EvictCandidateOnly \/ EvictVictimOnly
             \/ EvictSame \/ EvictCandidate \/ EvictVictim \/ EvictDone

Step == \/ SetAdd \/ AccessMove \/ Updated \/ Fit \/ Climb \/ Demote \/ Resize
        \/ ResizeDone \/ EvictWindow \/ EvictWindowDone \/ EvictMain

Next == \/ \E e \in Entry : \/ Set(e) \/ Access(e) \/ RemoveListed(e)
                            \/ \E w \in Cost : UpdateCost(e, w)
        \/ Step

Spec == Init /\ [][Next]_vars

\* An operation that has begun keeps running: it holds policyMu and its loops
\* wait for nobody.
FairSpec == Spec /\ WF_vars(Step)

-----------------------------------------------------------------------------
Total(S) == MapThenSumSet(LAMBDA e : policyWeight[e], S)

\* Each entry is in one list, once, and a list's len is the weight of its
\* entries whatever moves, cost changes and removals came in between.
ListsInSync ==
  /\ \A q \in Queue : IsInjective(list[q]) /\ len[q] = Total(ToSet(list[q]))
  /\ \A q, r \in Queue : q # r => ToSet(list[q]) \cap ToSet(list[r]) = {}

\* The pointers that walk the lists while entries are evicted stay on listed
\* entries: the next step of the walk would follow a nil pointer otherwise.
WalkOnLists ==
  pc = "evictMain" => /\ candidate # Nil => candidate \in Listed
                      /\ victim # Nil => victim \in Listed

\* The climber never takes more from a segment than it has: the window keeps
\* room for one, and the protected capacity does not fall below 0, where the
\* conversions to int would make the loops pop from an empty list.
SegmentsPositive ==
  /\ capacity.window >= 1 /\ capacity.protected >= 0
  /\ pc \in {"demoteFirst", "demote"} /\ len["protected"] > capacity.protected
       => list["protected"] # << >>
  /\ pc = "evictWindow" /\ len["window"] > capacity.window
       => list["window"] # << >>

\* Nothing is evicted but for room, and an operation ends within the capacity.
Abstract == INSTANCE Policy WITH
  members <- Listed, weight <- policyWeight, busy <- pc # "idle"
ImplementsPolicy == Abstract!Spec

\* Every operation ends: the loops of the climber and of the eviction do.
OperationEnds == pc # "idle" ~> pc = "idle"
=============================================================================
