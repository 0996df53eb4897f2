---------------------------- MODULE TinyLfuProofs ---------------------------
(***************************************************************************)
(* The eviction policy, for any entries, costs, capacity and any moves of  *)
(* the climber: an entry is in one list once, the lens are the weights of  *)
(* what the lists hold, the eviction loop walks over listed entries only,  *)
(* the segments stay positive, and TinyLfu implements Policy as long as    *)
(* the weights together do not exceed what weightedSize can hold.          *)
(*                                                                         *)
(* The argument.  Every action moves one entry between lists, drops one,   *)
(* takes in a new one or changes a weight, and each of these keeps lists,  *)
(* lens and weightedSize in step (Sound).  An operation is at a known      *)
(* place and has its entry listed or not yet listed (Ops).  The climber    *)
(* takes from one segment what it gives to the other (Segments).  The      *)
(* victim is the last entry of its list, the lists before it on the walk   *)
(* are empty, and the candidate is listed (Walk): so the walk leaves no    *)
(* entry out, and when it ends for want of entries there are none.  What a *)
(* sum over a set is does not follow by induction here, but a smallest set *)
(* for which it went wrong cannot exist (Smallest).                        *)
(***************************************************************************)
EXTENDS TinyLfu, FiniteSetTheorems, NaturalsInduction, WellFoundedInduction, TLAPS

-----------------------------------------------------------------------------
(* Sums over finite sets.  MapThenSumSet adds up a set by taking out one   *)
(* element after the other; which one comes next does not matter.          *)

Pick(s) == CHOOSE x \in s : TRUE

IsSum(g, f, S) ==
  g = [s \in SUBSET S |->
         IF s = {} THEN 0 ELSE f[Pick(s)] + g[s \ {Pick(s)}]]

SumOver(f, S) == (CHOOSE g : IsSum(g, f, S))[S]

LEMMA Unfold ==
  ASSUME NEW f, NEW S
  PROVE  MapThenSumSet(LAMBDA e : f[e], S) = SumOver(f, S)
BY DEF MapThenSumSet, MapThenFoldSet, SumOver, IsSum, Pick

\* What is wrong for some part of a finite set is wrong for a smallest part.
LEMMA Smallest ==
  ASSUME NEW S, IsFiniteSet(S), NEW Bad \in SUBSET (SUBSET S), Bad # {}
  PROVE  \E s \in Bad : \A x \in s : s \ {x} \notin Bad
<1> DEFINE Sizes == {Cardinality(s) : s \in Bad}
           R == OpToRel(<, Nat)
<1>1. \A s \in Bad : IsFiniteSet(s) /\ Cardinality(s) \in Nat
  BY FS_Subset, FS_CardinalityType
<1>2. Sizes \in SUBSET Nat /\ Sizes # {}
  BY <1>1
<1>3. PICK n \in Sizes : \A m \in Sizes : ~(<<m, n>> \in R)
  <2>1. IsWellFoundedOn(R, Nat)
    BY NatLessThanWellFounded
  <2> HIDE DEF R, Sizes
  <2> QED
    BY <1>2, <2>1, WFMin
<1>4. \A m \in Sizes : ~(m < n)
  BY <1>2, <1>3 DEF OpToRel
<1>5. PICK s \in Bad : Cardinality(s) = n
  OBVIOUS
<1>6. ASSUME NEW x \in s, s \ {x} \in Bad PROVE FALSE
  <2>1. Cardinality(s \ {x}) = Cardinality(s) - 1
    BY <1>1, FS_RemoveElement
  <2>2. Cardinality(s \ {x}) \in Sizes
    BY <1>6
  <2> HIDE DEF Sizes, R
  <2>3. ~(Cardinality(s) - 1 < Cardinality(s))
    BY <1>4, <1>5, <2>1, <2>2
  <2> QED
    BY <1>1, <2>3
<1> QED
  BY <1>6

\* A sum depends on nothing but the numbers that are added.
LEMMA SumSame ==
  ASSUME NEW S, IsFiniteSet(S), NEW T, NEW f, NEW h, NEW g, NEW i,
         IsSum(g, f, S), IsSum(i, h, T),
         NEW s \in SUBSET S, s \subseteq T, \A x \in s : f[x] = h[x]
  PROVE  g[s] = i[s]
<1> SUFFICES ASSUME g[s] # i[s] PROVE FALSE
  OBVIOUS
<1> DEFINE Bad == {t \in SUBSET s : g[t] # i[t]}
<1>1. IsFiniteSet(s) /\ Bad \in SUBSET (SUBSET s) /\ Bad # {}
  BY FS_Subset
<1>2. PICK t \in Bad : \A x \in t : t \ {x} \notin Bad
  <2> HIDE DEF Bad
  <2> QED
    BY <1>1, Smallest
<1>3. /\ g[t] = IF t = {} THEN 0 ELSE f[Pick(t)] + g[t \ {Pick(t)}]
      /\ i[t] = IF t = {} THEN 0 ELSE h[Pick(t)] + i[t \ {Pick(t)}]
  <2>1. t \in SUBSET S /\ t \in SUBSET T
    OBVIOUS
  <2> QED
    BY <2>1 DEF IsSum
<1>4. CASE t = {}
  BY <1>3, <1>4
<1>5. CASE t # {}
  <2>1. Pick(t) \in t
    BY <1>5 DEF Pick
  <2>2. g[t \ {Pick(t)}] = i[t \ {Pick(t)}]
    BY <1>2, <2>1
  <2> QED
    BY <1>3, <1>5, <2>1, <2>2
<1> QED
  BY <1>4, <1>5

LEMMA SumExists ==
  ASSUME NEW S, IsFiniteSet(S), NEW f
  PROVE  \E g : IsSum(g, f, S)
<1> SUFFICES ASSUME \A g : ~IsSum(g, f, S) PROVE FALSE
  OBVIOUS
<1> DEFINE Bad == {t \in SUBSET S : \A g : ~IsSum(g, f, t)}
<1>1. Bad \in SUBSET (SUBSET S) /\ Bad # {}
  OBVIOUS
<1>2. PICK t \in Bad : \A x \in t : t \ {x} \notin Bad
  <2> HIDE DEF Bad
  <2> QED
    BY <1>1, Smallest
<1>3. \A x \in t : \E g : IsSum(g, f, t \ {x})
  BY <1>2
<1> DEFINE G(x) == CHOOSE g : IsSum(g, f, t \ {x})
<1>4. \A x \in t : IsSum(G(x), f, t \ {x})
  BY <1>3
<1> HIDE DEF G
<1> DEFINE i == [s \in SUBSET t |->
                   IF s = {} THEN 0
                   ELSE f[Pick(s)] + G(Pick(s))[s \ {Pick(s)}]]
<1>5. ASSUME NEW s \in SUBSET t, s # {}
      PROVE  i[s \ {Pick(s)}] = G(Pick(s))[s \ {Pick(s)}]
  <2> DEFINE x == Pick(s)
             r == s \ {x}
             y == Pick(r)
  <2>1. x \in s /\ r \in SUBSET t /\ r \in SUBSET (t \ {x})
    BY <1>5 DEF Pick
  <2>2. i[r] = IF r = {} THEN 0 ELSE f[y] + G(y)[r \ {y}]
    BY <2>1
  <2>3. G(x)[r] = IF r = {} THEN 0 ELSE f[y] + G(x)[r \ {y}]
    <3>1. IsSum(G(x), f, t \ {x})
      BY <1>4, <2>1
    <3> QED
      BY <2>1, <3>1 DEF IsSum
  <2>4. ASSUME r # {} PROVE G(y)[r \ {y}] = G(x)[r \ {y}]
    <3>1. y \in r
      BY <2>4 DEF Pick
    <3>2. IsSum(G(x), f, t \ {x}) /\ IsSum(G(y), f, t \ {y})
      BY <1>4, <2>1, <3>1
    <3>3. IsFiniteSet(t \ {y})
      BY FS_Subset
    <3>4. r \ {y} \in SUBSET (t \ {y}) /\ r \ {y} \subseteq t \ {x}
      BY <2>1
    <3> HIDE DEF x, y, r
    <3> QED
      BY <3>2, <3>3, <3>4, SumSame
  <2> QED
    BY <2>2, <2>3, <2>4
<1>6. i = [s \in SUBSET t |->
             IF s = {} THEN 0 ELSE f[Pick(s)] + i[s \ {Pick(s)}]]
  BY <1>5
<1> HIDE DEF i
<1>7. IsSum(i, f, t)
  BY <1>6 DEF IsSum
<1> QED
  BY <1>2, <1>7

\* The sum over the parts of S.
LEMMA SumOf ==
  ASSUME NEW S, IsFiniteSet(S), NEW f
  PROVE  \E g : IsSum(g, f, S) /\ \A s \in SUBSET S : g[s] = SumOver(f, s)
<1>1. PICK g : IsSum(g, f, S)
  BY SumExists
<1>2. ASSUME NEW s \in SUBSET S PROVE g[s] = SumOver(f, s)
  <2>1. IsFiniteSet(s)
    BY FS_Subset
  <2>2. PICK i : i = (CHOOSE j : IsSum(j, f, s))
    OBVIOUS
  <2>3. IsSum(i, f, s)
    BY <2>1, <2>2, SumExists
  <2>4. g[s] = i[s]
    BY <1>1, <2>3, SumSame
  <2> QED
    BY <2>2, <2>4 DEF SumOver
<1> QED
  BY <1>1, <1>2

LEMMA SumEmpty == ASSUME NEW f PROVE SumOver(f, {}) = 0
<1>1. IsFiniteSet({})
  BY FS_EmptySet
<1>2. PICK g : IsSum(g, f, {}) /\ \A s \in SUBSET {} : g[s] = SumOver(f, s)
  BY <1>1, SumOf
<1> QED
  BY <1>2 DEF IsSum

LEMMA SumEqual ==
  ASSUME NEW S, IsFiniteSet(S), NEW f, NEW h, \A x \in S : f[x] = h[x]
  PROVE  SumOver(f, S) = SumOver(h, S)
<1>1. PICK g : IsSum(g, f, S) /\ \A s \in SUBSET S : g[s] = SumOver(f, s)
  BY SumOf
<1>2. PICK i : IsSum(i, h, S) /\ \A s \in SUBSET S : i[s] = SumOver(h, s)
  BY SumOf
<1>3. g[S] = i[S]
  BY <1>1, <1>2, SumSame
<1> QED
  BY <1>1, <1>2, <1>3

\* A sum stays within a set that has 0 and is closed under addition.
LEMMA SumWithin ==
  ASSUME NEW S, IsFiniteSet(S), NEW f, NEW N, 0 \in N,
         \A a, b \in N : a + b \in N, \A x \in S : f[x] \in N
  PROVE  SumOver(f, S) \in N
<1>1. PICK g : IsSum(g, f, S) /\ \A s \in SUBSET S : g[s] = SumOver(f, s)
  BY SumOf
<1> SUFFICES ASSUME g[S] \notin N PROVE FALSE
  BY <1>1
<1> DEFINE Bad == {t \in SUBSET S : g[t] \notin N}
<1>2. Bad \in SUBSET (SUBSET S) /\ Bad # {}
  OBVIOUS
<1>3. PICK t \in Bad : \A x \in t : t \ {x} \notin Bad
  <2> HIDE DEF Bad
  <2> QED
    BY <1>2, Smallest
<1>4. g[t] = IF t = {} THEN 0 ELSE f[Pick(t)] + g[t \ {Pick(t)}]
  BY <1>1 DEF IsSum
<1>5. t # {}
  BY <1>4
<1>6. Pick(t) \in t
  BY <1>5 DEF Pick
<1>7. g[t \ {Pick(t)}] \in N /\ f[Pick(t)] \in N
  BY <1>3, <1>6
<1> QED
  BY <1>4, <1>5, <1>7

LEMMA SumInt ==
  ASSUME NEW S, IsFiniteSet(S), NEW f, \A x \in S : f[x] \in Int
  PROVE  SumOver(f, S) \in Int
<1>1. 0 \in Int /\ \A a, b \in Int : a + b \in Int
  OBVIOUS
<1> QED
  BY <1>1, SumWithin

LEMMA SumNat ==
  ASSUME NEW S, IsFiniteSet(S), NEW f, \A x \in S : f[x] \in Nat
  PROVE  SumOver(f, S) \in Nat
<1>1. 0 \in Nat /\ \A a, b \in Nat : a + b \in Nat
  OBVIOUS
<1> QED
  BY <1>1, SumWithin

\* An element may be taken out first.
LEMMA SumWithout ==
  ASSUME NEW S, IsFiniteSet(S), NEW f, \A x \in S : f[x] \in Int, NEW e \in S
  PROVE  SumOver(f, S) = f[e] + SumOver(f, S \ {e})
<1>1. PICK g : IsSum(g, f, S) /\ \A s \in SUBSET S : g[s] = SumOver(f, s)
  BY SumOf
<1>2. \A s \in SUBSET S : g[s] \in Int
  BY <1>1, SumInt, FS_Subset
<1> DEFINE Bad == {t \in SUBSET S : \E x \in t : g[t] # f[x] + g[t \ {x}]}
<1> SUFFICES ASSUME Bad # {} PROVE FALSE
  BY <1>1
<1>3. PICK t \in Bad : \A x \in t : t \ {x} \notin Bad
  <2>1. Bad \in SUBSET (SUBSET S)
    OBVIOUS
  <2> HIDE DEF Bad
  <2> QED
    BY <2>1, Smallest
<1>4. PICK x \in t : g[t] # f[x] + g[t \ {x}]
  BY <1>3
<1> DEFINE y == Pick(t)
<1>5. y \in t /\ g[t] = f[y] + g[t \ {y}]
  BY <1>1, <1>4 DEF IsSum, Pick
<1>6. CASE x = y
  BY <1>4, <1>5, <1>6
<1>7. CASE x # y
  <2>1. t \ {y} \notin Bad /\ t \ {x} \notin Bad
    BY <1>3, <1>5
  <2>2. g[t \ {y}] = f[x] + g[(t \ {y}) \ {x}]
    BY <1>4, <1>7, <2>1
  <2>3. g[t \ {x}] = f[y] + g[(t \ {x}) \ {y}]
    BY <1>5, <1>7, <2>1
  <2>4. (t \ {x}) \ {y} = (t \ {y}) \ {x}
    OBVIOUS
  <2>5. g[(t \ {y}) \ {x}] \in Int /\ f[x] \in Int /\ f[y] \in Int
    BY <1>2, <1>5
  <2>6. \A a, b, c \in Int : a + (b + c) = b + (a + c)
    OBVIOUS
  <2>7. g[t] = f[y] + (f[x] + g[(t \ {y}) \ {x}])
    BY <1>5, <2>2
  <2>8. g[t] = f[x] + (f[y] + g[(t \ {y}) \ {x}])
    BY <2>5, <2>6, <2>7
  <2> QED
    BY <1>4, <2>3, <2>4, <2>8
<1> QED
  BY <1>6, <1>7

-----------------------------------------------------------------------------
(* Arithmetic modulo Wrap.                                                 *)

LEMMA ModUnique ==
  ASSUME NEW d \in Int, d > 0, NEW q \in Int, NEW r \in 0..(d - 1)
  PROVE  (d * q + r) % d = r
<1> DEFINE x == d * q + r
<1>1. x \in Int /\ d * q <= x /\ x < d * (q + 1)
  OBVIOUS
<1> HIDE DEF x
<1>2. x \div d \in Int /\ x % d \in 0..(d - 1)
  BY <1>1
<1>3. x = d * (x \div d) + (x % d)
  BY <1>1, Z3
<1>4. x \div d < q + 1 /\ ~(x \div d < q)
  BY <1>1, <1>2, <1>3
<1>5. x \div d = q
  BY <1>2, <1>4
<1>6. x % d = x - d * q
  BY <1>1, <1>2, <1>3, <1>5
<1> QED
  BY <1>6 DEF x

LEMMA ModAdd ==
  ASSUME NEW a \in Int, NEW b \in Int
  PROVE  ((a % Wrap) + b) % Wrap = (a + b) % Wrap
<1>0. Wrap \in Int /\ Wrap > 0
  BY CapAssumption
<1> DEFINE q == a \div Wrap
           r == a % Wrap
           x == r + b
           p == x \div Wrap
           z == x % Wrap
<1>1. q \in Int /\ r \in Int
  BY <1>0
<1>2. a = Wrap * q + r
  BY <1>0, Z3
<1>3. x \in Int /\ a + b = Wrap * q + x
  <2> HIDE DEF q, r
  <2> QED
    BY <1>0, <1>1, <1>2
<1> HIDE DEF x, q, r
<1>4. p \in Int /\ z \in 0..(Wrap - 1)
  BY <1>0, <1>3
<1>5. x = Wrap * p + z
  BY <1>0, <1>3, Z3
<1> HIDE DEF p, z
<1>6. a + b = Wrap * (q + p) + z /\ q + p \in Int
  BY <1>0, <1>1, <1>3, <1>4, <1>5
<1>7. (Wrap * (q + p) + z) % Wrap = z
  BY <1>0, <1>4, <1>6, ModUnique
<1> QED
  BY <1>6, <1>7 DEF z, x, r

-----------------------------------------------------------------------------
(* Lists.                                                                  *)

LEMMA SetOfIs ==
  ASSUME NEW S, NEW s \in Seq(S)
  PROVE  /\ DOMAIN s = 1..Len(s) /\ Len(s) \in Nat
         /\ ToSet(s) \subseteq S
         /\ \A x : x \in ToSet(s) <=> \E i \in 1..Len(s) : s[i] = x
         /\ s = << >> <=> Len(s) = 0
         /\ s = << >> <=> ToSet(s) = {}
<1>1. DOMAIN s = 1..Len(s) /\ Len(s) \in Nat /\ \A i \in 1..Len(s) : s[i] \in S
  OBVIOUS
<1>2. s = << >> <=> Len(s) = 0
  OBVIOUS
<1>3. \A x : x \in ToSet(s) <=> \E i \in 1..Len(s) : s[i] = x
  BY <1>1 DEF ToSet
<1>4. Len(s) # 0 => 1 \in 1..Len(s)
  BY <1>1
<1>5. Len(s) = 0 => ~(\E i \in 1..Len(s) : TRUE)
  BY <1>1
<1>6. s = << >> <=> ToSet(s) = {}
  BY <1>2, <1>3, <1>4, <1>5
<1>. QED BY <1>1, <1>2, <1>3, <1>6

LEMMA PlaceIs ==
  ASSUME NEW S, NEW s \in Seq(S), NEW e \in ToSet(s)
  PROVE  Place(s, e) \in 1..Len(s) /\ s[Place(s, e)] = e
<1>1. \E i \in 1..Len(s) : s[i] = e
  BY SetOfIs
<1>. QED BY <1>1 DEF Place

LEMMA ConcatIs ==
  ASSUME NEW S, NEW a \in Seq(S), NEW b \in Seq(S)
  PROVE  /\ a \o b \in Seq(S) /\ Len(a \o b) = Len(a) + Len(b)
         /\ \A j \in 1..(Len(a) + Len(b)) :
              (a \o b)[j] = IF j <= Len(a) THEN a[j] ELSE b[j - Len(a)]
  OBVIOUS

LEMMA RemoveAtIs ==
  ASSUME NEW S, NEW s \in Seq(S), NEW i \in 1..Len(s)
  PROVE  /\ RemoveAt(s, i) \in Seq(S)
         /\ Len(RemoveAt(s, i)) = Len(s) - 1
         /\ \A j \in 1..(Len(s) - 1) :
              RemoveAt(s, i)[j] = IF j < i THEN s[j] ELSE s[j + 1]
<1>1. /\ SubSeq(s, 1, i - 1) \in Seq(S) /\ Len(SubSeq(s, 1, i - 1)) = i - 1
      /\ \A j \in 1..(i - 1) : SubSeq(s, 1, i - 1)[j] = s[j]
  OBVIOUS
<1>2. /\ SubSeq(s, i + 1, Len(s)) \in Seq(S) /\ Len(SubSeq(s, i + 1, Len(s))) = Len(s) - i
      /\ \A j \in 1..(Len(s) - i) : SubSeq(s, i + 1, Len(s))[j] = s[i + j]
  OBVIOUS
<1>. DEFINE a == SubSeq(s, 1, i - 1)
            b == SubSeq(s, i + 1, Len(s))
<1>3. RemoveAt(s, i) = a \o b
  BY DEF RemoveAt
<1>. HIDE DEF a, b
<1>4. /\ a \o b \in Seq(S) /\ Len(a \o b) = Len(s) - 1
      /\ \A j \in 1..(Len(s) - 1) : (a \o b)[j] = IF j < i THEN a[j] ELSE b[j - (i - 1)]
  <2>1. a \in Seq(S) /\ b \in Seq(S) /\ Len(a) = i - 1 /\ Len(b) = Len(s) - i
    BY <1>1, <1>2 DEF a, b
  <2>2. /\ a \o b \in Seq(S) /\ Len(a \o b) = Len(a) + Len(b)
        /\ \A j \in 1..(Len(a) + Len(b)) :
              (a \o b)[j] = IF j <= Len(a) THEN a[j] ELSE b[j - Len(a)]
    BY <2>1, ConcatIs
  <2>3. Len(s) \in Nat /\ i \in Nat /\ Len(a) + Len(b) = Len(s) - 1
        /\ \A j \in 1..(Len(s) - 1) : j <= Len(a) <=> j < i
    BY <2>1
  <2>. QED BY <2>1, <2>2, <2>3
<1>5. ASSUME NEW j \in 1..(Len(s) - 1) PROVE (a \o b)[j] = IF j < i THEN s[j] ELSE s[j + 1]
  <2>1. CASE j < i
    BY <1>1, <1>4, <2>1 DEF a
  <2>2. CASE ~(j < i)
    <3>1. j - (i - 1) \in 1..(Len(s) - i) /\ i + (j - (i - 1)) = j + 1
      BY <2>2
    <3>2. b[j - (i - 1)] = s[j + 1]
      BY <1>2, <3>1 DEF b
    <3>. QED BY <1>4, <2>2, <3>2
  <2>. QED BY <2>1, <2>2
<1>. QED BY <1>3, <1>4, <1>5

LEMMA UnlinkIs ==
  ASSUME NEW S, NEW s \in Seq(S), IsInjective(s), NEW e \in ToSet(s)
  PROVE  /\ Unlink(s, e) \in Seq(S) /\ IsInjective(Unlink(s, e))
         /\ ToSet(Unlink(s, e)) = ToSet(s) \ {e}
         /\ Last(s) # e => Unlink(s, e) # << >> /\ Last(Unlink(s, e)) = Last(s)
         /\ Last(s) = e /\ Unlink(s, e) # << >> =>
              Place(s, e) # 1 /\ Last(Unlink(s, e)) = s[Place(s, e) - 1]
         /\ Last(s) = e /\ Unlink(s, e) = << >> => Place(s, e) = 1
<1>. DEFINE i == Place(s, e)
            t == Unlink(s, e)
<1>0. i \in 1..Len(s) /\ s[i] = e /\ Len(s) \in Nat /\ Len(s) \in 1..Len(s)
  BY PlaceIs, SetOfIs
<1>1. /\ t \in Seq(S) /\ Len(t) = Len(s) - 1
      /\ \A j \in 1..(Len(s) - 1) : t[j] = IF j < i THEN s[j] ELSE s[j + 1]
  BY <1>0, RemoveAtIs DEF Unlink
<1>2. \A j, k \in 1..Len(s) : s[j] = s[k] => j = k
  BY SetOfIs DEF IsInjective
<1>3. DOMAIN t = 1..(Len(s) - 1)
  BY <1>1, SetOfIs
<1>. HIDE DEF i, t
<1>4. IsInjective(t)
  <2>. SUFFICES ASSUME NEW j \in 1..(Len(s) - 1), NEW k \in 1..(Len(s) - 1), t[j] = t[k]
                PROVE  j = k
    BY <1>3 DEF IsInjective
  <2>. DEFINE f(x) == IF x < i THEN x ELSE x + 1
  <2>1. f(j) \in 1..Len(s) /\ f(k) \in 1..Len(s) /\ t[j] = s[f(j)] /\ t[k] = s[f(k)]
    BY <1>0, <1>1
  <2>2. f(j) = f(k)
    BY <1>2, <2>1
  <2>. QED BY <1>0, <2>2
<1>5. ToSet(t) = ToSet(s) \ {e}
  <2>1. ASSUME NEW x \in ToSet(t) PROVE x \in ToSet(s) \ {e}
    <3>1. PICK j \in 1..(Len(s) - 1) : t[j] = x
      BY <1>1, <2>1, SetOfIs
    <3>2. PICK k \in 1..Len(s) : k # i /\ x = s[k]
      <4>1. CASE j < i
        BY <1>0, <1>1, <3>1, <4>1
      <4>2. CASE ~(j < i)
        <5>1. j + 1 \in 1..Len(s) /\ j + 1 # i /\ x = s[j + 1]
          BY <1>0, <1>1, <3>1, <4>2
        <5>. QED BY <5>1
      <4>. QED BY <4>1, <4>2
    <3>3. x # e
      BY <1>0, <1>2, <3>2
    <3>. QED BY <3>2, <3>3, SetOfIs
  <2>2. ASSUME NEW x \in ToSet(s), x # e PROVE x \in ToSet(t)
    <3>1. PICK k \in 1..Len(s) : s[k] = x
      BY SetOfIs
    <3>2. k # i
      BY <1>0, <2>2, <3>1
    <3>3. CASE k < i
      <4>1. k \in 1..(Len(s) - 1) /\ t[k] = x
        BY <1>0, <1>1, <3>1, <3>3
      <4>. QED BY <1>1, <4>1, SetOfIs
    <3>4. CASE k > i
      <4>1. k - 1 \in 1..(Len(s) - 1) /\ t[k - 1] = x
        BY <1>0, <1>1, <3>1, <3>4
      <4>. QED BY <1>1, <4>1, SetOfIs
    <3>. QED BY <1>0, <3>2, <3>3, <3>4
  <2>. QED BY <2>1, <2>2
<1>6. Last(s) = s[Len(s)] /\ Last(t) = t[Len(s) - 1]
  BY <1>1 DEF Last
<1>7. ASSUME Last(s) # e PROVE t # << >> /\ Last(t) = Last(s)
  <2>1. i < Len(s)
    BY <1>0, <1>6, <1>7
  <2>2. Len(s) - 1 \in 1..(Len(s) - 1) /\ ~(Len(s) - 1 < i) /\ (Len(s) - 1) + 1 = Len(s)
    BY <1>0, <2>1
  <2>3. t[Len(s) - 1] = s[Len(s)]
    BY <1>1, <2>2
  <2>. QED BY <1>1, <1>6, <2>2, <2>3
<1>8. ASSUME Last(s) = e
      PROVE  /\ t # << >> => i # 1 /\ Last(t) = s[i - 1]
             /\ t = << >> => i = 1
  <2>1. i = Len(s)
    BY <1>0, <1>2, <1>6, <1>8
  <2>2. t = << >> <=> Len(s) = 1
    BY <1>0, <1>1
  <2>3. Len(s) # 1 => t[Len(s) - 1] = s[i - 1]
    BY <1>0, <1>1, <2>1
  <2>. QED BY <1>6, <2>1, <2>2, <2>3
<1>. QED BY <1>1, <1>4, <1>5, <1>7, <1>8 DEF i, t

LEMMA PushIs ==
  ASSUME NEW S, NEW s \in Seq(S), IsInjective(s), NEW e \in S, e \notin ToSet(s)
  PROVE  /\ <<e>> \o s \in Seq(S) /\ IsInjective(<<e>> \o s)
         /\ ToSet(<<e>> \o s) = ToSet(s) \cup {e}
<1>. DEFINE t == <<e>> \o s
<1>1. /\ t \in Seq(S) /\ Len(t) = Len(s) + 1 /\ t[1] = e
      /\ \A j \in 1..Len(s) : t[j + 1] = s[j]
      /\ Len(s) \in Nat
  OBVIOUS
<1>2. \A j, k \in 1..Len(s) : s[j] = s[k] => j = k
  BY SetOfIs DEF IsInjective
<1>3. \A j \in 1..Len(s) : s[j] # e
  BY SetOfIs
<1>. HIDE DEF t
<1>4. \A j \in 1..Len(t) : j = 1 \/ (j - 1 \in 1..Len(s) /\ t[j] = s[j - 1])
  <2>. SUFFICES ASSUME NEW j \in 1..Len(t), j # 1 PROVE j - 1 \in 1..Len(s) /\ t[j] = s[j - 1]
    OBVIOUS
  <2>1. j - 1 \in 1..Len(s) /\ (j - 1) + 1 = j
    BY <1>1
  <2>. QED BY <1>1, <2>1
<1>5. ASSUME NEW j \in 1..Len(t), NEW k \in 1..Len(t), t[j] = t[k] PROVE j = k
  <2>1. CASE j = 1 \/ k = 1
    BY <1>1, <1>3, <1>4, <1>5, <2>1
  <2>2. CASE j # 1 /\ k # 1
    <3>1. j - 1 \in 1..Len(s) /\ k - 1 \in 1..Len(s) /\ s[j - 1] = s[k - 1]
      BY <1>4, <1>5, <2>2
    <3>2. j - 1 = k - 1
      BY <1>2, <3>1
    <3>. QED BY <3>2
  <2>. QED BY <2>1, <2>2
<1>6. IsInjective(t)
  BY <1>1, <1>5, SetOfIs DEF IsInjective
<1>7. ToSet(t) = ToSet(s) \cup {e}
  <2>1. ASSUME NEW x \in ToSet(t) PROVE x \in ToSet(s) \cup {e}
    <3>1. PICK j \in 1..Len(t) : t[j] = x
      BY <1>1, <2>1, SetOfIs
    <3>. QED BY <1>1, <1>4, <3>1, SetOfIs
  <2>2. ASSUME NEW x \in ToSet(s) \cup {e} PROVE x \in ToSet(t)
    <3>1. CASE x = e
      <4>1. 1 \in 1..Len(t)
        BY <1>1
      <4>. QED BY <1>1, <3>1, <4>1, SetOfIs
    <3>2. CASE x \in ToSet(s)
      <4>1. PICK j \in 1..Len(s) : s[j] = x
        BY <3>2, SetOfIs
      <4>2. j + 1 \in 1..Len(t) /\ t[j + 1] = x
        BY <1>1, <4>1
      <4>. QED BY <1>1, <4>2, SetOfIs
    <3>. QED BY <3>1, <3>2
  <2>. QED BY <2>1, <2>2
<1>. QED BY <1>1, <1>6, <1>7 DEF t

-----------------------------------------------------------------------------
(* The three lists.                                                        *)

Lists ==
  /\ list \in [Queue -> Seq(Entry)]
  /\ \A q \in Queue : IsInjective(list[q])
  /\ \A q, r \in Queue : q # r => ToSet(list[q]) \cap ToSet(list[r]) = {}

\* The lens and the size are in step with the lists.
Lens ==
  /\ policyWeight \in [Entry -> Nat] /\ len \in [Queue -> Int]
  /\ \A q \in Queue : len[q] = SumOver(policyWeight, ToSet(list[q]))
Sized == weightedSize = SumOver(policyWeight, Listed) % Wrap

LEMMA ListedIs == \A e : e \in Listed <=> \E q \in Queue : e \in ToSet(list[q])
  BY DEF Listed

LEMMA QueueOfIs ==
  ASSUME Lists, NEW q \in Queue, NEW e \in ToSet(list[q])
  PROVE  QueueOf(e) = q
<1>1. \A r \in Queue : e \in ToSet(list[r]) => r = q
  BY DEF Lists
<1>. QED BY <1>1 DEF QueueOf

LEMMA QueueOfListed ==
  ASSUME NEW e \in Listed
  PROVE  QueueOf(e) \in Queue /\ e \in ToSet(list[QueueOf(e)])
  BY ListedIs DEF QueueOf

LEMMA ListTypes ==
  ASSUME Lists
  PROVE  /\ Listed \subseteq Entry /\ IsFiniteSet(Listed)
         /\ \A q \in Queue : ToSet(list[q]) \subseteq Entry /\ IsFiniteSet(ToSet(list[q]))
<1>1. \A q \in Queue : ToSet(list[q]) \subseteq Entry
  BY SetOfIs DEF Lists
<1>2. Listed \subseteq Entry
  BY <1>1, ListedIs
<1>. QED BY <1>1, <1>2, EntryAssumption, FS_Subset

LEMMA BackIs ==
  ASSUME Lists, NEW q \in Queue
  PROVE  /\ list[q] = << >> => Back(q) = Nil
         /\ list[q] # << >> => Back(q) = Last(list[q]) /\ Back(q) \in ToSet(list[q])
                              /\ Back(q) \in Listed /\ Back(q) \in Entry /\ Back(q) # Nil
<1>1. list[q] \in Seq(Entry)
  BY DEF Lists
<1>2. list[q] # << >> => Last(list[q]) \in ToSet(list[q])
  <2>. SUFFICES ASSUME list[q] # << >> PROVE Last(list[q]) \in ToSet(list[q])
    OBVIOUS
  <2>1. Len(list[q]) \in 1..Len(list[q])
    BY <1>1, SetOfIs
  <2>. QED BY <1>1, <2>1, SetOfIs DEF Last
<1>. QED BY <1>2, ListedIs, ListTypes, EntryAssumption DEF Back

\* The neighbour of a listed entry is another listed entry, or none.
LEMMA PrevIs ==
  ASSUME Lists, NEW e \in Listed
  PROVE  /\ PrevPolicy(e) # Nil => PrevPolicy(e) \in Listed \ {e}
         /\ PrevPolicy(e) \in Entry \cup {Nil}
<1>. DEFINE q == QueueOf(e)
            i == Place(list[q], e)
<1>1. q \in Queue /\ e \in ToSet(list[q]) /\ list[q] \in Seq(Entry)
  BY QueueOfListed DEF Lists
<1>2. i \in 1..Len(list[q]) /\ list[q][i] = e
  BY <1>1, PlaceIs
<1>. HIDE DEF i, q
<1>3. CASE i # 1
  <2>1. i - 1 \in 1..Len(list[q]) /\ i - 1 # i
    BY <1>1, <1>2, <1>3, SetOfIs
  <2>2. list[q][i - 1] # e
    BY <1>1, <1>2, <2>1, SetOfIs DEF Lists, IsInjective
  <2>3. list[q][i - 1] \in ToSet(list[q])
    BY <1>1, <2>1, SetOfIs
  <2>4. PrevPolicy(e) = list[q][i - 1]
    BY <1>3 DEF PrevPolicy, i, q
  <2>. QED BY <1>1, <2>2, <2>3, <2>4, ListedIs, ListTypes
<1>4. CASE i = 1
  BY <1>4 DEF PrevPolicy, i, q
<1>. QED BY <1>3, <1>4

\* Taking an entry out of its list.
LEMMA UnlinkList ==
  ASSUME Lists, NEW e \in Listed
  PROVE  LET from == QueueOf(e) IN
         /\ from \in Queue /\ list[from] \in Seq(Entry) /\ e \in Entry
         /\ Unlink(list[from], e) \in Seq(Entry) /\ IsInjective(Unlink(list[from], e))
         /\ ToSet(Unlink(list[from], e)) = ToSet(list[from]) \ {e}
         /\ \A r \in Queue : r # from => e \notin ToSet(list[r])
<1>1. QueueOf(e) \in Queue /\ e \in ToSet(list[QueueOf(e)]) /\ list[QueueOf(e)] \in Seq(Entry)
  BY QueueOfListed DEF Lists
<1>2. IsInjective(list[QueueOf(e)])
  BY <1>1 DEF Lists
<1>3. \A r \in Queue : r # QueueOf(e) => e \notin ToSet(list[r])
  BY <1>1 DEF Lists
<1>4. /\ Unlink(list[QueueOf(e)], e) \in Seq(Entry) /\ IsInjective(Unlink(list[QueueOf(e)], e))
      /\ ToSet(Unlink(list[QueueOf(e)], e)) = ToSet(list[QueueOf(e)]) \ {e}
  BY <1>1, <1>2, UnlinkIs
<1>. QED BY <1>1, <1>3, <1>4, ListTypes

LEMMA DropLists ==
  ASSUME Lists, NEW e \in Listed, list' = [list EXCEPT ![QueueOf(e)] = Unlink(@, e)]
  PROVE  /\ Lists' /\ Listed' = Listed \ {e}
         /\ \A r \in Queue : ToSet(list'[r]) = ToSet(list[r]) \ {e}
<1>. DEFINE from == QueueOf(e)
<1>1. /\ from \in Queue /\ list[from] \in Seq(Entry) /\ e \in Entry
      /\ Unlink(list[from], e) \in Seq(Entry) /\ IsInjective(Unlink(list[from], e))
      /\ ToSet(Unlink(list[from], e)) = ToSet(list[from]) \ {e}
      /\ \A r \in Queue : r # from => e \notin ToSet(list[r])
  BY UnlinkList
<1>. HIDE DEF from
<1>2. list'[from] = Unlink(list[from], e) /\ \A r \in Queue : r # from => list'[r] = list[r]
  BY <1>1 DEF Lists, from
<1>3. \A r \in Queue : ToSet(list'[r]) = ToSet(list[r]) \ {e}
  BY <1>1, <1>2
<1>4. list' \in [Queue -> Seq(Entry)]
  BY <1>1 DEF Lists, from
<1>5. \A r \in Queue : IsInjective(list'[r])
  BY <1>1, <1>2 DEF Lists
<1>6. Lists'
  BY <1>3, <1>4, <1>5 DEF Lists
<1>7. Listed' = Listed \ {e}
  <2>1. \A x : x \in Listed' <=> \E q \in Queue : x \in ToSet(list'[q])
    BY DEF Listed
  <2>. QED BY <1>3, <2>1, ListedIs
<1>. QED BY <1>3, <1>6, <1>7

\* Putting an entry that is nowhere in front of a list.
LEMMA PushLists ==
  ASSUME Lists, NEW e \in Entry, e \notin Listed, NEW q \in Queue,
         list' = [list EXCEPT ![q] = <<e>> \o @]
  PROVE  /\ Lists' /\ Listed' = Listed \cup {e}
         /\ ToSet(list'[q]) = ToSet(list[q]) \cup {e}
         /\ \A r \in Queue : r # q => ToSet(list'[r]) = ToSet(list[r])
<1>1. \A r \in Queue : e \notin ToSet(list[r])
  BY ListedIs
<1>2. list[q] \in Seq(Entry) /\ IsInjective(list[q])
  BY DEF Lists
<1>3. /\ <<e>> \o list[q] \in Seq(Entry) /\ IsInjective(<<e>> \o list[q])
      /\ ToSet(<<e>> \o list[q]) = ToSet(list[q]) \cup {e}
  BY <1>1, <1>2, PushIs
<1>4. list'[q] = <<e>> \o list[q] /\ \A r \in Queue : r # q => list'[r] = list[r]
  BY DEF Lists
<1>5. /\ ToSet(list'[q]) = ToSet(list[q]) \cup {e}
      /\ \A r \in Queue : r # q => ToSet(list'[r]) = ToSet(list[r])
  BY <1>3, <1>4
<1>6. list' \in [Queue -> Seq(Entry)]
  BY <1>3 DEF Lists
<1>7. \A r \in Queue : IsInjective(list'[r])
  BY <1>3, <1>4 DEF Lists
<1>8. \A r, p \in Queue : r # p => ToSet(list'[r]) \cap ToSet(list'[p]) = {}
  <2>1. \A r, p \in Queue : r # p => ToSet(list[r]) \cap ToSet(list[p]) = {}
    BY DEF Lists
  <2>2. \A r, p \in Queue : r # p => (ToSet(list[r]) \cup {e}) \cap ToSet(list[p]) = {}
    BY <1>1, <2>1
  <2>. QED BY <1>5, <2>1, <2>2
<1>10. Lists'
  BY <1>6, <1>7, <1>8 DEF Lists
<1>9. Listed' = Listed \cup {e}
  <2>1. \A x : x \in Listed' <=> \E r \in Queue : x \in ToSet(list'[r])
    BY DEF Listed
  <2>. QED BY <1>5, <2>1, ListedIs
<1>. QED BY <1>5, <1>10, <1>9

LEMMA MoveLists ==
  ASSUME Lists, NEW e \in Listed, NEW q \in Queue,
         list' = [[list EXCEPT ![QueueOf(e)] = Unlink(@, e)] EXCEPT ![q] = <<e>> \o @]
  PROVE  /\ Lists' /\ Listed' = Listed
         /\ ToSet(list'[q]) = ToSet(list[q]) \cup {e}
         /\ \A r \in Queue : r # q => ToSet(list'[r]) = ToSet(list[r]) \ {e}
<1>. DEFINE from == QueueOf(e)
            mid == [list EXCEPT ![from] = Unlink(@, e)]
<1>1. /\ from \in Queue /\ list[from] \in Seq(Entry) /\ e \in Entry
      /\ Unlink(list[from], e) \in Seq(Entry) /\ IsInjective(Unlink(list[from], e))
      /\ ToSet(Unlink(list[from], e)) = ToSet(list[from]) \ {e}
      /\ \A r \in Queue : r # from => e \notin ToSet(list[r])
  BY UnlinkList
<1>2. /\ mid \in [Queue -> Seq(Entry)]
      /\ mid[from] = Unlink(list[from], e) /\ \A r \in Queue : r # from => mid[r] = list[r]
  BY <1>1 DEF Lists
<1>3. list' = [mid EXCEPT ![q] = <<e>> \o @]
  OBVIOUS
<1>. HIDE DEF from, mid
<1>4. \A r \in Queue : ToSet(mid[r]) = ToSet(list[r]) \ {e} /\ IsInjective(mid[r])
  BY <1>1, <1>2 DEF Lists
<1>5. /\ <<e>> \o mid[q] \in Seq(Entry) /\ IsInjective(<<e>> \o mid[q])
      /\ ToSet(<<e>> \o mid[q]) = ToSet(mid[q]) \cup {e}
  BY <1>1, <1>2, <1>4, PushIs
<1>6. list'[q] = <<e>> \o mid[q] /\ \A r \in Queue : r # q => list'[r] = mid[r]
  BY <1>2, <1>3
<1>7. /\ ToSet(list'[q]) = ToSet(list[q]) \cup {e}
      /\ \A r \in Queue : r # q => ToSet(list'[r]) = ToSet(list[r]) \ {e}
  BY <1>4, <1>5, <1>6
<1>8. list' \in [Queue -> Seq(Entry)]
  BY <1>2, <1>3, <1>5
<1>9. \A r \in Queue : IsInjective(list'[r])
  BY <1>4, <1>5, <1>6
<1>10. \A r, p \in Queue : r # p => ToSet(list'[r]) \cap ToSet(list'[p]) = {}
  <2>1. \A r, p \in Queue : r # p => ToSet(list[r]) \cap ToSet(list[p]) = {}
    BY DEF Lists
  <2>2. \A r, p \in Queue : r # p =>
          (ToSet(list[r]) \cup {e}) \cap (ToSet(list[p]) \ {e}) = {}
    BY <2>1
  <2>3. \A r, p \in Queue : r # p =>
          (ToSet(list[r]) \ {e}) \cap (ToSet(list[p]) \ {e}) = {}
    BY <2>1
  <2>. QED BY <1>7, <2>2, <2>3
<1>11. Lists'
  BY <1>8, <1>9, <1>10 DEF Lists
<1>12. Listed' = Listed
  <2>1. \A x : x \in Listed' <=> \E r \in Queue : x \in ToSet(list'[r])
    BY DEF Listed
  <2>2. ASSUME NEW x \in Listed' PROVE x \in Listed
    <3>1. PICK r \in Queue : x \in ToSet(list'[r])
      BY <2>1
    <3>2. x = e \/ x \in ToSet(list[r])
      <4>1. CASE r = q
        BY <1>7, <3>1, <4>1
      <4>2. CASE r # q
        BY <1>7, <3>1, <4>2
      <4>. QED BY <4>1, <4>2
    <3>. QED BY <3>2, ListedIs
  <2>3. ASSUME NEW x \in Listed PROVE x \in Listed'
    <3>1. PICK r \in Queue : x \in ToSet(list[r])
      BY ListedIs
    <3>2. x \in ToSet(list'[r]) \/ x \in ToSet(list'[q])
      <4>1. CASE x = e
        BY <1>7, <4>1
      <4>2. CASE x # e /\ r # q
        BY <1>7, <3>1, <4>2
      <4>3. CASE r = q
        BY <1>7, <3>1, <4>3
      <4>. QED BY <4>1, <4>2, <4>3
    <3>. QED BY <2>1, <3>2
  <2>. QED BY <2>2, <2>3
<1>. QED BY <1>7, <1>11, <1>12

-----------------------------------------------------------------------------
(* What an operation may do to the lists: move an entry, drop one, take in *)
(* a new one, change a weight.                                             *)

Moves ==
  \E e \in Listed, q \in Queue :
    MoveToFront(e, q) /\ UNCHANGED <<policyWeight, weightedSize>>
Drops(e) == e \in Listed /\ Drop(e) /\ UNCHANGED policyWeight
Adds(e, w) ==
  /\ e \in Entry /\ e \notin Listed /\ w \in Nat
  /\ policyWeight' = [policyWeight EXCEPT ![e] = w]
  /\ weightedSize' = (weightedSize + w) % Wrap
  /\ list' = [list EXCEPT !["window"] = <<e>> \o @]
  /\ len' = [len EXCEPT !["window"] = @ + w]
Weighs(e, w) ==
  /\ e \in Listed /\ w \in Nat
  /\ policyWeight' = [policyWeight EXCEPT ![e] = w]
  /\ weightedSize' = (weightedSize + (w - policyWeight[e])) % Wrap
  /\ len' = [len EXCEPT ![QueueOf(e)] = @ + (w - policyWeight[e])]
  /\ UNCHANGED list

Sound == Lists /\ Lens /\ Sized

LEMMA SumAdd ==
  ASSUME NEW S, IsFiniteSet(S), NEW f, NEW e, e \notin S, \A x \in S \cup {e} : f[x] \in Int
  PROVE  SumOver(f, S \cup {e}) = f[e] + SumOver(f, S)
<1>1. IsFiniteSet(S \cup {e})
  BY FS_AddElement
<1>2. (S \cup {e}) \ {e} = S
  OBVIOUS
<1>3. e \in S \cup {e}
  OBVIOUS
<1>4. SumOver(f, S \cup {e}) = f[e] + SumOver(f, (S \cup {e}) \ {e})
  BY <1>1, <1>3, SumWithout
<1>. QED BY <1>2, <1>4

LEMMA SumsAreInt ==
  ASSUME Lists, Lens
  PROVE  /\ \A x \in Entry : policyWeight[x] \in Int /\ policyWeight[x] \in Nat
         /\ \A S \in SUBSET Entry : SumOver(policyWeight, S) \in Int
                                    /\ SumOver(policyWeight, S) \in Nat
<1>1. \A x \in Entry : policyWeight[x] \in Int /\ policyWeight[x] \in Nat
  BY DEF Lens
<1>2. ASSUME NEW S \in SUBSET Entry
      PROVE  SumOver(policyWeight, S) \in Int /\ SumOver(policyWeight, S) \in Nat
  <2>1. IsFiniteSet(S) /\ \A x \in S : policyWeight[x] \in Int /\ policyWeight[x] \in Nat
    BY <1>1, EntryAssumption, FS_Subset
  <2>. QED BY <2>1, SumInt, SumNat
<1>. QED BY <1>1, <1>2

LEMMA MoveSound ==
  ASSUME Sound, Moves
  PROVE  Sound' /\ Listed' = Listed
<1>1. PICK e \in Listed, q \in Queue :
        MoveToFront(e, q) /\ UNCHANGED <<policyWeight, weightedSize>>
  BY DEF Moves
<1>. DEFINE from == QueueOf(e)
<1>2. /\ Lists' /\ Listed' = Listed
      /\ ToSet(list'[q]) = ToSet(list[q]) \cup {e}
      /\ \A r \in Queue : r # q => ToSet(list'[r]) = ToSet(list[r]) \ {e}
  BY <1>1, MoveLists DEF MoveToFront, Sound
<1>3. /\ from \in Queue /\ e \in ToSet(list[from]) /\ e \in Entry
      /\ \A r \in Queue : r # from => e \notin ToSet(list[r])
  BY QueueOfListed, UnlinkList DEF Sound
<1>4. \A r \in Queue : ToSet(list[r]) \in SUBSET Entry /\ IsFiniteSet(ToSet(list[r]))
                       /\ IsFiniteSet(ToSet(list[r]) \ {e})
  BY ListTypes, FS_Subset DEF Sound
<1>5. /\ len' = [[len EXCEPT ![from] = @ - policyWeight[e]] EXCEPT ![q] = @ + policyWeight[e]]
      /\ UNCHANGED <<policyWeight, weightedSize>>
  BY <1>1 DEF MoveToFront
<1>6. policyWeight[e] \in Int /\ len \in [Queue -> Int] /\ policyWeight \in [Entry -> Nat]
  BY <1>3 DEF Sound, Lens
<1>. HIDE DEF from
<1>7. ASSUME NEW r \in Queue PROVE len'[r] = SumOver(policyWeight, ToSet(list'[r]))
  <2>0. len[r] = SumOver(policyWeight, ToSet(list[r]))
    BY DEF Sound, Lens
  <2>1. CASE r = from /\ r = q
    <3>1. ToSet(list'[r]) = ToSet(list[r])
      BY <1>2, <1>3, <2>1
    <3>2. len'[r] = (len[r] - policyWeight[e]) + policyWeight[e]
      BY <1>5, <1>6, <2>1
    <3>3. len'[r] = len[r]
      BY <1>6, <3>2
    <3>. QED BY <2>0, <3>1, <3>3
  <2>2. CASE r = from /\ r # q
    <3>1. ToSet(list'[r]) = ToSet(list[r]) \ {e} /\ e \in ToSet(list[r])
      BY <1>2, <1>3, <2>2
    <3>2. len'[r] = len[r] - policyWeight[e]
      BY <1>5, <1>6, <2>2
    <3>3. SumOver(policyWeight, ToSet(list[r])) =
            policyWeight[e] + SumOver(policyWeight, ToSet(list[r]) \ {e})
      BY <1>4, <3>1, SumsAreInt, SumWithout DEF Sound
    <3>4. SumOver(policyWeight, ToSet(list[r]) \ {e}) \in Int
      BY <1>4, SumsAreInt DEF Sound
    <3>. QED BY <1>6, <2>0, <3>1, <3>2, <3>3, <3>4
  <2>3. CASE r # from /\ r = q
    <3>1. ToSet(list'[r]) = ToSet(list[r]) \cup {e} /\ e \notin ToSet(list[r])
      BY <1>2, <1>3, <2>3
    <3>2. len'[r] = len[r] + policyWeight[e]
      BY <1>5, <1>6, <2>3
    <3>3. \A x \in ToSet(list[r]) \cup {e} : policyWeight[x] \in Int
      BY <1>3, <1>4, SumsAreInt DEF Sound
    <3>4. SumOver(policyWeight, ToSet(list[r]) \cup {e}) =
            policyWeight[e] + SumOver(policyWeight, ToSet(list[r]))
      BY <1>4, <3>1, <3>3, SumAdd
    <3>5. len[r] \in Int
      BY <1>6
    <3>. QED BY <1>6, <2>0, <3>1, <3>2, <3>4, <3>5
  <2>4. CASE r # from /\ r # q
    <3>1. ToSet(list'[r]) = ToSet(list[r])
      BY <1>2, <1>3, <2>4
    <3>2. len'[r] = len[r]
      BY <1>5, <1>6, <2>4
    <3>. QED BY <2>0, <3>1, <3>2
  <2>. QED BY <2>1, <2>2, <2>3, <2>4
<1>8. len' \in [Queue -> Int]
  BY <1>5, <1>6
<1>9. Lens'
  BY <1>5, <1>6, <1>7, <1>8 DEF Lens
<1>10. Sized'
  BY <1>2, <1>5 DEF Sound, Sized
<1>. QED BY <1>2, <1>9, <1>10 DEF Sound

LEMMA DropSound ==
  ASSUME Sound, NEW e, Drops(e)
  PROVE  /\ Sound' /\ Listed' = Listed \ {e} /\ UNCHANGED policyWeight
         /\ SumOver(policyWeight, Listed) = policyWeight[e] + SumOver(policyWeight, Listed')
<1>. DEFINE from == QueueOf(e)
<1>1. /\ e \in Listed /\ list' = [list EXCEPT ![from] = Unlink(@, e)]
      /\ len' = [len EXCEPT ![from] = @ - policyWeight[e]]
      /\ weightedSize' = (weightedSize - policyWeight[e]) % Wrap
      /\ UNCHANGED policyWeight
  BY DEF Drops, Drop
<1>2. /\ Lists' /\ Listed' = Listed \ {e}
      /\ \A r \in Queue : ToSet(list'[r]) = ToSet(list[r]) \ {e}
  BY <1>1, DropLists DEF Sound
<1>3. /\ from \in Queue /\ e \in ToSet(list[from]) /\ e \in Entry
      /\ \A r \in Queue : r # from => e \notin ToSet(list[r])
  BY <1>1, QueueOfListed, UnlinkList DEF Sound
<1>4. \A r \in Queue : ToSet(list[r]) \in SUBSET Entry /\ IsFiniteSet(ToSet(list[r]))
  BY ListTypes DEF Sound
<1>5. policyWeight[e] \in Int /\ len \in [Queue -> Int] /\ policyWeight \in [Entry -> Nat]
  BY <1>3 DEF Sound, Lens
<1>. HIDE DEF from
<1>6. ASSUME NEW r \in Queue PROVE len'[r] = SumOver(policyWeight, ToSet(list'[r]))
  <2>0. len[r] = SumOver(policyWeight, ToSet(list[r]))
    BY DEF Sound, Lens
  <2>1. CASE r = from
    <3>1. ToSet(list'[r]) = ToSet(list[r]) \ {e} /\ e \in ToSet(list[r])
      BY <1>2, <1>3, <2>1
    <3>2. len'[r] = len[r] - policyWeight[e]
      BY <1>1, <1>5, <2>1
    <3>3. SumOver(policyWeight, ToSet(list[r])) =
            policyWeight[e] + SumOver(policyWeight, ToSet(list[r]) \ {e})
      BY <1>4, <3>1, SumsAreInt, SumWithout DEF Sound
    <3>4. SumOver(policyWeight, ToSet(list[r]) \ {e}) \in Int
      BY <1>4, SumsAreInt DEF Sound
    <3>. QED BY <1>5, <2>0, <3>1, <3>2, <3>3, <3>4
  <2>2. CASE r # from
    <3>1. ToSet(list'[r]) = ToSet(list[r])
      BY <1>2, <1>3, <2>2
    <3>2. len'[r] = len[r]
      BY <1>1, <1>5, <2>2
    <3>. QED BY <2>0, <3>1, <3>2
  <2>. QED BY <2>1, <2>2
<1>7. len' \in [Queue -> Int]
  <2>1. len[from] - policyWeight[e] \in Int
    BY <1>3, <1>5
  <2>2. len' = [len EXCEPT ![from] = len[from] - policyWeight[e]]
    BY <1>1 DEF from
  <2>. QED BY <1>3, <1>5, <2>1, <2>2
<1>8. Lens'
  BY <1>1, <1>5, <1>6, <1>7 DEF Lens
<1>9. Listed \in SUBSET Entry /\ IsFiniteSet(Listed)
  BY ListTypes DEF Sound
<1>10. SumOver(policyWeight, Listed) = policyWeight[e] + SumOver(policyWeight, Listed \ {e})
  BY <1>1, <1>9, SumsAreInt, SumWithout DEF Sound
<1>11. SumOver(policyWeight, Listed) \in Int /\ SumOver(policyWeight, Listed \ {e}) \in Int
  BY <1>9, SumsAreInt DEF Sound
<1>12. Sized'
  <2>1. weightedSize' = ((SumOver(policyWeight, Listed) % Wrap) + (-policyWeight[e])) % Wrap
    <3>1. weightedSize = SumOver(policyWeight, Listed) % Wrap /\ weightedSize \in Int
      BY <1>11, CapAssumption DEF Sound, Sized
    <3>. QED BY <1>1, <1>5, <3>1
  <2>2. weightedSize' = (SumOver(policyWeight, Listed) + (-policyWeight[e])) % Wrap
    <3>1. -policyWeight[e] \in Int
      BY <1>5
    <3>. QED BY <1>11, <2>1, <3>1, ModAdd
  <2>3. SumOver(policyWeight, Listed) + (-policyWeight[e]) = SumOver(policyWeight, Listed \ {e})
    BY <1>5, <1>10, <1>11
  <2>. QED BY <1>1, <1>2, <2>2, <2>3 DEF Sized
<1>. QED BY <1>1, <1>2, <1>8, <1>10, <1>12 DEF Sound

LEMMA AddSound ==
  ASSUME Sound, NEW e, NEW w, Adds(e, w)
  PROVE  Sound' /\ Listed' = Listed \cup {e}
<1>1. /\ e \in Entry /\ e \notin Listed /\ w \in Nat
      /\ policyWeight' = [policyWeight EXCEPT ![e] = w]
      /\ weightedSize' = (weightedSize + w) % Wrap
      /\ list' = [list EXCEPT !["window"] = <<e>> \o @]
      /\ len' = [len EXCEPT !["window"] = @ + w]
      /\ "window" \in Queue
  BY DEF Adds, Queue
<1>2. /\ Lists' /\ Listed' = Listed \cup {e}
      /\ ToSet(list'["window"]) = ToSet(list["window"]) \cup {e}
      /\ \A r \in Queue : r # "window" => ToSet(list'[r]) = ToSet(list[r])
  BY <1>1, PushLists DEF Sound
<1>3. \A r \in Queue : /\ ToSet(list[r]) \in SUBSET Entry /\ IsFiniteSet(ToSet(list[r]))
                       /\ e \notin ToSet(list[r])
  BY <1>1, ListTypes, ListedIs DEF Sound
<1>4. len \in [Queue -> Int] /\ policyWeight \in [Entry -> Nat]
  BY DEF Sound, Lens
<1>5. policyWeight' \in [Entry -> Nat] /\ policyWeight'[e] = w
      /\ \A x \in Entry : x # e => policyWeight'[x] = policyWeight[x]
  BY <1>1, <1>4
<1>6. ASSUME NEW S \in SUBSET Entry, e \notin S
      PROVE  /\ SumOver(policyWeight', S) = SumOver(policyWeight, S)
             /\ SumOver(policyWeight', S \cup {e}) = w + SumOver(policyWeight, S)
  <2>1. IsFiniteSet(S) /\ \A x \in S : policyWeight'[x] = policyWeight[x]
    BY <1>5, <1>6, EntryAssumption, FS_Subset
  <2>2. SumOver(policyWeight', S) = SumOver(policyWeight, S)
    BY <2>1, SumEqual
  <2>3. \A x \in S \cup {e} : policyWeight'[x] \in Int
    BY <1>1, <1>5
  <2>4. SumOver(policyWeight', S \cup {e}) = policyWeight'[e] + SumOver(policyWeight', S)
    BY <1>6, <2>1, <2>3, SumAdd
  <2>. QED BY <1>5, <2>2, <2>4
<1>7. ASSUME NEW r \in Queue PROVE len'[r] = SumOver(policyWeight', ToSet(list'[r]))
  <2>0. len[r] = SumOver(policyWeight, ToSet(list[r])) /\ len[r] \in Int
    BY <1>4 DEF Sound, Lens
  <2>1. CASE r = "window"
    <3>1. len'[r] = len[r] + w
      BY <1>1, <1>4, <2>1
    <3>2. SumOver(policyWeight', ToSet(list'[r])) = w + SumOver(policyWeight, ToSet(list[r]))
      BY <1>2, <1>3, <1>6, <2>1
    <3>. QED BY <1>1, <2>0, <3>1, <3>2
  <2>2. CASE r # "window"
    <3>1. len'[r] = len[r]
      BY <1>1, <1>4, <2>2
    <3>2. SumOver(policyWeight', ToSet(list'[r])) = SumOver(policyWeight, ToSet(list[r]))
      BY <1>2, <1>3, <1>6, <2>2
    <3>. QED BY <2>0, <3>1, <3>2
  <2>. QED BY <2>1, <2>2
<1>8. len' \in [Queue -> Int]
  BY <1>1, <1>4
<1>9. Lens'
  BY <1>5, <1>7, <1>8 DEF Lens
<1>10. Sized'
  <2>1. Listed \in SUBSET Entry
    BY ListTypes DEF Sound
  <2>2. SumOver(policyWeight, Listed) \in Int
    BY <2>1, SumsAreInt DEF Sound
  <2>3. SumOver(policyWeight', Listed') = w + SumOver(policyWeight, Listed)
    BY <1>1, <1>2, <1>6, <2>1
  <2>4. weightedSize' = ((SumOver(policyWeight, Listed) % Wrap) + w) % Wrap
    BY <1>1 DEF Sound, Sized
  <2>5. weightedSize' = (SumOver(policyWeight, Listed) + w) % Wrap
    BY <1>1, <2>2, <2>4, ModAdd
  <2>6. SumOver(policyWeight, Listed) + w = w + SumOver(policyWeight, Listed)
    BY <1>1, <2>2
  <2>. QED BY <2>3, <2>5, <2>6 DEF Sized
<1>. QED BY <1>2, <1>9, <1>10 DEF Sound

LEMMA WeighSound ==
  ASSUME Sound, NEW e, NEW w, Weighs(e, w)
  PROVE  Sound' /\ Listed' = Listed
<1>. DEFINE from == QueueOf(e)
<1>1. /\ e \in Listed /\ w \in Nat
      /\ policyWeight' = [policyWeight EXCEPT ![e] = w]
      /\ weightedSize' = (weightedSize + (w - policyWeight[e])) % Wrap
      /\ len' = [len EXCEPT ![from] = @ + (w - policyWeight[e])]
      /\ UNCHANGED list
  BY DEF Weighs
<1>2. /\ from \in Queue /\ e \in ToSet(list[from]) /\ e \in Entry
      /\ \A r \in Queue : r # from => e \notin ToSet(list[r])
  BY <1>1, QueueOfListed, UnlinkList DEF Sound
<1>3. Lists' /\ Listed' = Listed
  BY <1>1 DEF Sound, Lists, Listed
<1>4. \A r \in Queue : ToSet(list[r]) \in SUBSET Entry
  BY ListTypes DEF Sound
<1>5. len \in [Queue -> Int] /\ policyWeight \in [Entry -> Nat]
  BY DEF Sound, Lens
<1>6. policyWeight' \in [Entry -> Nat] /\ policyWeight'[e] = w
      /\ \A x \in Entry : x # e => policyWeight'[x] = policyWeight[x]
  BY <1>1, <1>2, <1>5
<1>. HIDE DEF from
<1>7. ASSUME NEW S \in SUBSET Entry
      PROVE  /\ e \notin S => SumOver(policyWeight', S) = SumOver(policyWeight, S)
             /\ e \in S => SumOver(policyWeight', S) =
                             SumOver(policyWeight, S) + (w - policyWeight[e])
  <2>1. IsFiniteSet(S) /\ IsFiniteSet(S \ {e})
    BY EntryAssumption, FS_Subset
  <2>2. SumOver(policyWeight', S \ {e}) = SumOver(policyWeight, S \ {e})
    <3>1. \A x \in S \ {e} : policyWeight'[x] = policyWeight[x]
      BY <1>6
    <3>. QED BY <2>1, <3>1, SumEqual
  <2>3. e \notin S => S \ {e} = S
    OBVIOUS
  <2>4. CASE e \in S
    <3>1. \A x \in S : policyWeight'[x] \in Int /\ policyWeight[x] \in Int
      BY <1>5, <1>6
    <3>2. SumOver(policyWeight', S) = policyWeight'[e] + SumOver(policyWeight', S \ {e})
      BY <2>1, <2>4, <3>1, SumWithout
    <3>3. SumOver(policyWeight, S) = policyWeight[e] + SumOver(policyWeight, S \ {e})
      BY <2>1, <2>4, <3>1, SumWithout
    <3>4. SumOver(policyWeight, S \ {e}) \in Int
      BY SumsAreInt DEF Sound
    <3>5. policyWeight[e] \in Int
      BY <2>4, <3>1
    <3>. QED BY <1>1, <1>6, <2>2, <2>4, <3>2, <3>3, <3>4, <3>5
  <2>. QED BY <2>2, <2>3, <2>4
<1>8. ASSUME NEW r \in Queue PROVE len'[r] = SumOver(policyWeight', ToSet(list'[r]))
  <2>0. len[r] = SumOver(policyWeight, ToSet(list[r])) /\ list'[r] = list[r]
    BY <1>1 DEF Sound, Lens
  <2>1. CASE r = from
    <3>1. len'[r] = len[r] + (w - policyWeight[e])
      BY <1>1, <1>2, <1>5, <2>1
    <3>. QED BY <1>2, <1>4, <1>7, <2>0, <2>1, <3>1
  <2>2. CASE r # from
    <3>1. len'[r] = len[r]
      BY <1>1, <1>5, <2>2
    <3>. QED BY <1>2, <1>4, <1>7, <2>0, <2>2, <3>1
  <2>. QED BY <2>1, <2>2
<1>9. w - policyWeight[e] \in Int
  BY <1>1, <1>2, <1>5
<1>10. len' \in [Queue -> Int]
  <2>1. len[from] + (w - policyWeight[e]) \in Int
    BY <1>2, <1>5, <1>9
  <2>2. len' = [len EXCEPT ![from] = len[from] + (w - policyWeight[e])]
    BY <1>1 DEF from
  <2>. QED BY <1>2, <1>5, <2>1, <2>2
<1>11. Lens'
  BY <1>6, <1>8, <1>10 DEF Lens
<1>12. Sized'
  <2>1. Listed \in SUBSET Entry
    BY ListTypes DEF Sound
  <2>2. SumOver(policyWeight, Listed) \in Int
    BY <2>1, SumsAreInt DEF Sound
  <2>3. SumOver(policyWeight', Listed') = SumOver(policyWeight, Listed) + (w - policyWeight[e])
    BY <1>1, <1>3, <1>7, <2>1
  <2>4. weightedSize' = ((SumOver(policyWeight, Listed) % Wrap) + (w - policyWeight[e])) % Wrap
    BY <1>1 DEF Sound, Sized
  <2>5. weightedSize' = (SumOver(policyWeight, Listed) + (w - policyWeight[e])) % Wrap
    BY <1>9, <2>2, <2>4, ModAdd
  <2>. QED BY <2>3, <2>5 DEF Sized
<1>. QED BY <1>3, <1>11, <1>12 DEF Sound

LEMMA StaySound ==
  ASSUME Sound, UNCHANGED lists
  PROVE  Sound' /\ Listed' = Listed
  BY DEF Sound, Lists, Lens, Sized, Listed, lists

-----------------------------------------------------------------------------
(* Where an operation stands.                                              *)

\* Before the entries it works on have changed.
Early == {"climb", "demoteFirst", "grow", "shrink", "Set", "Access"}

Ops ==
  /\ pc \in Early \cup {"idle", "demote", "updated", "fit", "evictWindow", "evictMain"}
  /\ pc # "idle" => arg \in Entry
  /\ pc \in Early => op \in {"Set", "Access"}
  /\ pc = "Set" => op = "Set"
  /\ pc \in Early /\ op = "Set" => arg \notin Listed
  /\ pc = "updated" => arg \in Listed

\* What the climber has not moved yet can be given back.
Segments ==
  /\ capacity \in [window : Int, protected : Int] /\ amount \in Int
  /\ capacity.window >= 1 /\ capacity.protected >= 0
  /\ pc \in {"demoteFirst", "grow", "shrink"} =>
       amount <= capacity.window - 1 /\ -amount <= capacity.protected
  /\ pc = "grow" => amount >= 0
  /\ pc = "shrink" => amount <= 0

\* The victim is at the back of its list, and the lists searched before are
\* empty.
Walk ==
  /\ victimQueue \in Queue
  /\ pc \notin {"evictWindow", "evictMain"} => candidate = Nil
  /\ pc # "evictMain" => victim = Nil /\ victimQueue = "probation"
  /\ candidate # Nil => candidate \in Listed
  /\ pc = "evictMain" => victim = Back(victimQueue)
  /\ victimQueue \in {"protected", "window"} => list["probation"] = << >>
  /\ victimQueue = "window" => list["protected"] = << >>

LEMMA QueueNames == "window" \in Queue /\ "probation" \in Queue /\ "protected" \in Queue
  BY DEF Queue

LEMMA CandIs ==
  ASSUME Lists, Walk
  PROVE  Cand # Nil => Cand \in Listed
  BY BackIs, QueueNames DEF Walk, Cand

LEMMA VictimIs ==
  ASSUME Lists, Walk, pc = "evictMain"
  PROVE  /\ victim # Nil => victim \in Listed /\ Back(victimQueue) = victim
         /\ victim = Nil => list[victimQueue] = << >>
  BY BackIs DEF Walk

LEMMA MovingIs ==
  ASSUME Lists, Moving # Nil
  PROVE  Moving \in Listed
  BY BackIs, QueueNames DEF Moving

LEMMA SetAddKind == ASSUME Ops, SetAdd PROVE \E w : Adds(arg, w)
<1>1. arg \in Entry /\ arg \notin Listed
  BY DEF SetAdd, Ops, Early
<1>. QED BY <1>1, CapAssumption DEF SetAdd, Adds

LEMMA AccessMoveKind == ASSUME AccessMove PROVE UNCHANGED lists \/ Moves
<1>1. UNCHANGED <<policyWeight, weightedSize>>
  BY DEF AccessMove
<1>2. CASE arg \in Listed
  <2>1. \E q \in Queue : MoveToFront(arg, q)
    BY <1>2, QueueNames DEF AccessMove
  <2>. QED BY <1>1, <1>2, <2>1 DEF Moves
<1>3. CASE arg \notin Listed
  BY <1>1, <1>3 DEF AccessMove, lists
<1>. QED BY <1>2, <1>3

LEMMA UpdatedKind ==
  ASSUME Ops, Updated
  PROVE  (Drops(arg) /\ policyWeight[arg] > Cap) \/ Moves
<1>1. arg \in Listed /\ UNCHANGED policyWeight
  BY DEF Updated, Ops
<1>2. CASE policyWeight[arg] > Cap
  BY <1>1, <1>2 DEF Updated, Drops
<1>3. CASE ~(policyWeight[arg] > Cap)
  <2>1. (\E q \in Queue : MoveToFront(arg, q)) /\ UNCHANGED weightedSize
    BY <1>3, QueueNames DEF Updated
  <2>. QED BY <1>1, <2>1 DEF Moves
<1>. QED BY <1>2, <1>3

LEMMA DemoteKind == ASSUME Lists, Demote PROVE UNCHANGED lists \/ Moves
<1>1. UNCHANGED <<policyWeight, weightedSize>>
  BY DEF Demote
<1>2. CASE len["protected"] > capacity.protected
  <2>1. list["protected"] # << >> /\ MoveToFront(Back("protected"), "probation")
    BY <1>2 DEF Demote
  <2>2. Back("protected") \in Listed
    BY <2>1, BackIs, QueueNames
  <2>. QED BY <1>1, <2>1, <2>2, QueueNames DEF Moves
<1>3. CASE ~(len["protected"] > capacity.protected)
  BY <1>1, <1>3 DEF Demote, lists
<1>. QED BY <1>2, <1>3

LEMMA ResizeKind == ASSUME Lists, Resize PROVE Moves /\ Moving \in Listed
<1>1. Moving \in Listed
  BY MovingIs DEF Resize, CanMove
<1>2. (\E q \in Queue : MoveToFront(Moving, q)) /\ UNCHANGED <<policyWeight, weightedSize>>
  BY QueueNames DEF Resize
<1>. QED BY <1>1, <1>2 DEF Moves

LEMMA EvictWindowKind == ASSUME Lists, EvictWindow PROVE Moves /\ Back("window") \in Listed
<1>1. Back("window") \in Listed
  BY BackIs, QueueNames DEF EvictWindow
<1>. QED BY <1>1, QueueNames DEF EvictWindow, Moves

LEMMA TurnKind ==
  ASSUME NEW e \in Listed, NEW c, NEW v, Turn(e, c, v)
  PROVE  Drops(e)
  BY DEF Turn, Drops

\* A turn that evicts: the entry it drops, and where the pointers are then.
Evicts(e) ==
  /\ Over /\ Drops(e) /\ UNCHANGED <<pc, op, arg, amount, capacity, victimQueue>>
  /\ candidate' # Nil => candidate' \in Listed \ {e}
  /\ (victim # Nil /\ e = victim) => victim' = PrevPolicy(victim)
  /\ e # victim => victim' = victim

LEMMA EvictKind ==
  ASSUME Lists, Walk,
         EvictCandidateOnly \/ EvictVictimOnly \/ EvictSame \/ EvictCandidate \/ EvictVictim
  PROVE  \E e : Evicts(e)
<1>0. pc = "evictMain"
  BY DEF EvictCandidateOnly, EvictVictimOnly, EvictSame, EvictCandidate, EvictVictim,
         Contest, Over
<1>1. /\ Cand # Nil => Cand \in Listed
      /\ victim # Nil => victim \in Listed
  BY <1>0, CandIs, VictimIs
<1>2. \A e \in Listed : PrevPolicy(e) # Nil => PrevPolicy(e) \in Listed \ {e}
  BY PrevIs
<1>3. CASE EvictCandidateOnly
  BY <1>1, <1>2, <1>3, TurnKind DEF EvictCandidateOnly, Turn, Evicts
<1>4. CASE EvictVictimOnly
  BY <1>1, <1>2, <1>4, TurnKind DEF EvictVictimOnly, Turn, Evicts
<1>5. CASE EvictSame
  BY <1>1, <1>2, <1>5, TurnKind DEF EvictSame, Turn, Evicts
<1>6. CASE EvictCandidate
  BY <1>1, <1>2, <1>6, TurnKind DEF EvictCandidate, Contest, Turn, Evicts
<1>7. CASE EvictVictim
  <2>. DEFINE c == IF PrevPolicy(Cand) = victim THEN PrevPolicy(victim) ELSE PrevPolicy(Cand)
  <2>1. Over /\ Cand \in Listed /\ victim \in Listed /\ victim # Nil /\ Turn(victim, c, PrevPolicy(victim))
    BY <1>1, <1>7 DEF EvictVictim, Contest
  <2>2. c # Nil => c \in Listed \ {victim}
    BY <1>2, <2>1
  <2>. HIDE DEF c
  <2>. QED BY <2>1, <2>2, TurnKind DEF Turn, Evicts
<1>. QED BY <1>3, <1>4, <1>5, <1>6, <1>7

\* A weight changes only in UpdateCost.
LEMMA UpdateCostKind ==
  ASSUME NEW e \in Entry, NEW w \in Cost, UpdateCost(e, w)
  PROVE  Weighs(e, w)
  BY CapAssumption DEF UpdateCost, Weighs

LEMMA RemoveKind == ASSUME NEW e \in Entry, RemoveListed(e) PROVE Drops(e)
  BY DEF RemoveListed, Drops

LEMMA OtherKind ==
  ASSUME \/ \E e \in Entry : Set(e) \/ Access(e)
         \/ Fit \/ Climb \/ ResizeDone \/ EvictWindowDone \/ NextVictims \/ EvictDone
         \/ UNCHANGED vars
  PROVE  UNCHANGED lists
  BY DEF Set, Access, Begin, Fit, Climb, ResizeDone, EvictWindowDone, NextVictims, EvictDone,
         vars, lists

LEMMA SoundNext ==
  ASSUME Sound, Ops, Walk, [Next]_vars
  PROVE  Sound'
<1>0. Lists
  BY DEF Sound
<1>1. CASE UNCHANGED lists
  BY <1>1, StaySound
<1>2. CASE Moves
  BY <1>2, MoveSound
<1>3. ASSUME NEW e, Drops(e) PROVE Sound'
  BY <1>3, DropSound
<1>4. CASE SetAdd
  BY <1>4, SetAddKind, AddSound
<1>5. ASSUME NEW e \in Entry, NEW w \in Cost, UpdateCost(e, w) PROVE Sound'
  BY <1>5, UpdateCostKind, WeighSound
<1>6. CASE AccessMove
  BY <1>1, <1>2, <1>6, AccessMoveKind
<1>7. CASE Updated
  BY <1>2, <1>3, <1>7, UpdatedKind
<1>8. CASE Demote
  BY <1>0, <1>1, <1>2, <1>8, DemoteKind
<1>9. CASE Resize
  BY <1>0, <1>2, <1>9, ResizeKind
<1>10. CASE EvictWindow
  BY <1>0, <1>2, <1>10, EvictWindowKind
<1>11. CASE EvictCandidateOnly \/ EvictVictimOnly \/ EvictSame \/ EvictCandidate \/ EvictVictim
  BY <1>0, <1>3, <1>11, EvictKind DEF Evicts
<1>12. ASSUME NEW e \in Entry, RemoveListed(e) PROVE Sound'
  BY <1>3, <1>12, RemoveKind
<1>13. CASE \/ \E e \in Entry : Set(e) \/ Access(e)
            \/ Fit \/ Climb \/ ResizeDone \/ EvictWindowDone \/ NextVictims \/ EvictDone
            \/ UNCHANGED vars
  BY <1>1, <1>13, OtherKind
<1>. QED BY <1>4, <1>5, <1>6, <1>7, <1>8, <1>9, <1>10, <1>11, <1>12, <1>13
         DEF Next, Step, EvictMain

-----------------------------------------------------------------------------
(* The operation under way.                                                *)

LEMMA OpsNext ==
  ASSUME Sound, Ops, Walk, [Next]_vars
  PROVE  Ops'
<1>0. Lists
  BY DEF Sound
<1>1. ASSUME NEW e \in Entry, Set(e) PROVE Ops'
  <2>1. Listed' = Listed
    BY <1>1, OtherKind, StaySound
  <2>. QED BY <1>1, <2>1 DEF Set, Begin, Ops, Early
<1>2. ASSUME NEW e \in Entry, Access(e) PROVE Ops'
  BY <1>2 DEF Access, Begin, Ops, Early
<1>3. CASE SetAdd
  BY <1>3 DEF SetAdd, Ops, Early
<1>4. CASE AccessMove \/ EvictDone
  BY <1>4 DEF AccessMove, EvictDone, Finish, Ops, Early
<1>5. ASSUME NEW e \in Entry, RemoveListed(e) PROVE Ops'
  BY <1>5 DEF RemoveListed, Ops, Early
<1>6. ASSUME NEW e \in Entry, NEW w \in Cost, UpdateCost(e, w) PROVE Ops'
  <2>1. Listed' = Listed
    BY <1>6, UpdateCostKind, WeighSound
  <2>. QED BY <1>6, <2>1 DEF UpdateCost, Ops, Early
<1>7. CASE Updated \/ Fit
  BY <1>7 DEF Updated, Fit, Finish, Ops, Early
<1>8. CASE Climb
  <2>1. Listed' = Listed
    BY <1>8, OtherKind, StaySound
  <2>. QED BY <1>8, <2>1 DEF Climb, Ops, Early
<1>9. CASE Demote
  <2>1. Listed' = Listed
    BY <1>0, <1>9, DemoteKind, StaySound, MoveSound
  <2>. QED BY <1>9, <2>1 DEF Demote, AfterDemote, Ops, Early
<1>10. CASE Resize
  <2>1. Listed' = Listed
    BY <1>0, <1>10, ResizeKind, MoveSound
  <2>. QED BY <1>10, <2>1 DEF Resize, Ops, Early
<1>11. CASE ResizeDone
  <2>1. Listed' = Listed
    BY <1>11, OtherKind, StaySound
  <2>. QED BY <1>11, <2>1 DEF ResizeDone, Ops, Early
<1>12. CASE EvictWindow \/ EvictWindowDone \/ NextVictims
  BY <1>12 DEF EvictWindow, EvictWindowDone, NextVictims, Over, Ops, Early
<1>13. CASE EvictCandidateOnly \/ EvictVictimOnly \/ EvictSame \/ EvictCandidate \/ EvictVictim
  <2>1. PICK e : Evicts(e)
    BY <1>0, <1>13, EvictKind
  <2>. QED BY <2>1 DEF Evicts, Over, Ops, Early
<1>14. CASE UNCHANGED vars
  BY <1>14 DEF vars, lists, Ops, Listed
<1>. QED BY <1>1, <1>2, <1>3, <1>4, <1>5, <1>6, <1>7, <1>8, <1>9, <1>10, <1>11, <1>12, <1>13,
            <1>14 DEF Next, Step, EvictMain

-----------------------------------------------------------------------------
(* The climber.                                                            *)

LEMMA ClampIs ==
  ASSUME Segments, NEW a \in Int
  PROVE  /\ Clamp(a) \in Int
         /\ Clamp(a) <= capacity.protected
         /\ -Clamp(a) <= capacity.window - 1
  BY DEF Segments, Clamp

LEMMA SegmentsNext ==
  ASSUME Sound, Ops, Segments, Walk, [Next]_vars
  PROVE  Segments'
<1>0. Lists /\ Lens
  BY DEF Sound
<1>1. CASE Climb
  <2>1. PICK a \in Amount :
          /\ amount' = Clamp(a)
          /\ capacity' = [window    |-> capacity.window + Clamp(a),
                          protected |-> capacity.protected - Clamp(a)]
    BY <1>1 DEF Climb
  <2>2. /\ Clamp(a) \in Int /\ Clamp(a) <= capacity.protected /\ -Clamp(a) <= capacity.window - 1
    BY <2>1, AmountAssumption, ClampIs
  <2>3. capacity.window \in Int /\ capacity.protected \in Int
        /\ capacity.window >= 1 /\ capacity.protected >= 0
    BY DEF Segments
  <2>4. /\ capacity'.window = capacity.window + amount'
        /\ capacity'.protected = capacity.protected - amount' /\ amount' \in Int
        /\ amount' <= capacity.protected /\ -amount' <= capacity.window - 1
    BY <2>1, <2>2
  <2>5. capacity' \in [window : Int, protected : Int]
    BY <2>1, <2>2, <2>3
  <2>6. /\ capacity'.window >= 1 /\ capacity'.protected >= 0
        /\ amount' <= capacity'.window - 1 /\ -amount' <= capacity'.protected
    BY <2>3, <2>4
  <2>. QED BY <1>1, <2>4, <2>5, <2>6 DEF Climb, Segments
<1>2. CASE Demote
  <2>1. UNCHANGED <<capacity, amount>>
    BY <1>2 DEF Demote
  <2>2. CASE UNCHANGED pc
    BY <2>1, <2>2 DEF Segments
  <2>3. CASE pc' = AfterDemote
    <3>1. CASE pc = "demote"
      BY <2>1, <2>3, <3>1 DEF AfterDemote, Segments
    <3>2. CASE pc = "demoteFirst"
      <4>1. op \in {"Set", "Access"}
        BY <3>2 DEF Ops, Early
      <4>. QED BY <2>1, <2>3, <3>2, <4>1 DEF AfterDemote, Segments
    <3>. QED BY <1>2, <3>1, <3>2 DEF Demote
  <2>. QED BY <1>2, <2>2, <2>3 DEF Demote
<1>3. CASE Resize
  <2>1. Moving \in Entry
    BY <1>0, <1>3, ResizeKind, ListTypes
  <2>2. policyWeight[Moving] \in Nat
    BY <1>0, <2>1 DEF Lens
  <2>3. policyWeight[Moving] <= Distance /\ UNCHANGED <<capacity, pc>>
    BY <1>3 DEF Resize, CanMove
  <2>. DEFINE x == policyWeight[Moving]
  <2>4. CASE pc = "grow"
    <3>1. x \in Nat /\ x <= amount /\ amount' = amount - x
      BY <1>3, <2>2, <2>3, <2>4 DEF Resize, Distance
    <3>. HIDE DEF x
    <3>. QED BY <2>3, <2>4, <3>1 DEF Segments
  <2>5. CASE pc = "shrink"
    <3>1. x \in Nat /\ x <= -amount /\ amount' = amount + x
      BY <1>3, <2>2, <2>3, <2>5 DEF Resize, Distance
    <3>. HIDE DEF x
    <3>. QED BY <2>3, <2>5, <3>1 DEF Segments
  <2>. QED BY <1>3, <2>4, <2>5 DEF Resize
<1>4. CASE ResizeDone
  <2>1. /\ capacity' = [window    |-> capacity.window - amount,
                        protected |-> capacity.protected + amount]
        /\ amount' = 0 /\ pc' = op /\ pc \in {"grow", "shrink"}
    BY <1>4 DEF ResizeDone
  <2>2. op \in {"Set", "Access"}
    BY <2>1 DEF Ops, Early
  <2>3. /\ capacity.window \in Int /\ capacity.protected \in Int /\ amount \in Int
        /\ amount <= capacity.window - 1 /\ -amount <= capacity.protected
    BY <2>1 DEF Segments
  <2>4. /\ capacity' \in [window : Int, protected : Int]
        /\ capacity'.window = capacity.window - amount
        /\ capacity'.protected = capacity.protected + amount
    BY <2>1, <2>3
  <2>5. capacity'.window >= 1 /\ capacity'.protected >= 0
    BY <2>3, <2>4
  <2>. QED BY <2>1, <2>2, <2>4, <2>5 DEF Segments
<1>5. CASE UNCHANGED <<capacity, amount>> /\ pc' \notin {"demoteFirst", "grow", "shrink"}
  BY <1>5 DEF Segments
<1>6. ASSUME NEW e \in Entry, Set(e) \/ Access(e) PROVE Segments'
  BY <1>5, <1>6 DEF Set, Access, Begin
<1>7. CASE SetAdd \/ AccessMove \/ Updated \/ Fit
  BY <1>5, <1>7 DEF SetAdd, AccessMove, Updated, Fit, Finish
<1>8. ASSUME NEW e \in Entry, RemoveListed(e) \/ \E w \in Cost : UpdateCost(e, w) PROVE Segments'
  BY <1>5, <1>8 DEF RemoveListed, UpdateCost
<1>9. CASE EvictWindow \/ EvictWindowDone \/ NextVictims \/ EvictDone
  BY <1>5, <1>9 DEF EvictWindow, EvictWindowDone, NextVictims, EvictDone, Over, Finish
<1>10. CASE EvictCandidateOnly \/ EvictVictimOnly \/ EvictSame \/ EvictCandidate \/ EvictVictim
  <2>1. PICK e : Evicts(e)
    BY <1>0, <1>10, EvictKind
  <2>. QED BY <1>5, <2>1 DEF Evicts, Over
<1>11. CASE UNCHANGED vars
  BY <1>11 DEF vars, Segments
<1>. QED BY <1>1, <1>2, <1>3, <1>4, <1>6, <1>7, <1>8, <1>9, <1>10, <1>11
         DEF Next, Step, EvictMain

-----------------------------------------------------------------------------
(* The pointers.                                                           *)

\* After a drop the back of each list is what it was, or the neighbour of what
\* was dropped.
LEMMA DropBack ==
  ASSUME Lists, NEW e, Drops(e), NEW q \in Queue
  PROVE  /\ Back(q) # e => Back(q)' = Back(q)
         /\ Back(q) = e => Back(q)' = PrevPolicy(e)
<1>. DEFINE from == QueueOf(e)
<1>1. e \in Listed /\ list' = [list EXCEPT ![from] = Unlink(@, e)]
  BY DEF Drops, Drop
<1>2. from \in Queue /\ e \in ToSet(list[from]) /\ list[from] \in Seq(Entry)
      /\ IsInjective(list[from])
  BY <1>1, QueueOfListed DEF Lists
<1>3. list'[from] = Unlink(list[from], e) /\ \A r \in Queue : r # from => list'[r] = list[r]
  BY <1>1, <1>2 DEF Lists
<1>4. e # Nil
  BY <1>1, ListTypes, EntryAssumption
<1>5. CASE q # from
  <2>1. Back(q) # e
    BY <1>2, <1>4, <1>5, BackIs DEF Lists
  <2>. QED BY <1>3, <1>5, <2>1 DEF Back
<1>6. CASE q = from
  <2>0. list[q] # << >> /\ Back(q) = Last(list[q])
    BY <1>2, <1>6, SetOfIs, BackIs
  <2>. DEFINE s == list[q]
              t == Unlink(s, e)
  <2>1. /\ Last(s) # e => t # << >> /\ Last(t) = Last(s)
        /\ Last(s) = e /\ t # << >> => Place(s, e) # 1 /\ Last(t) = s[Place(s, e) - 1]
        /\ Last(s) = e /\ t = << >> => Place(s, e) = 1
    BY <1>2, <1>6, UnlinkIs
  <2>2. list'[q] = t
    BY <1>3, <1>6
  <2>3. Back(q)' = IF t = << >> THEN Nil ELSE Last(t)
    BY <2>2 DEF Back
  <2>4. PrevPolicy(e) = IF Place(s, e) = 1 THEN Nil ELSE s[Place(s, e) - 1]
    BY <1>6 DEF PrevPolicy
  <2>. HIDE DEF s, t
  <2>. QED BY <2>0, <2>1, <2>3, <2>4 DEF s
<1>. QED BY <1>5, <1>6

LEMMA EmptyStays ==
  ASSUME Lists, NEW e, Drops(e), NEW q \in Queue, list[q] = << >>
  PROVE  list'[q] = << >>
<1>1. Lists' /\ ToSet(list'[q]) = ToSet(list[q]) \ {e}
  BY DropLists DEF Drops, Drop
<1>2. list'[q] \in Seq(Entry) /\ list[q] \in Seq(Entry)
  BY <1>1 DEF Lists
<1>3. ToSet(list[q]) = {}
  BY <1>2, SetOfIs
<1>. QED BY <1>1, <1>2, <1>3, SetOfIs

LEMMA WalkNext ==
  ASSUME Sound, Ops, Walk, [Next]_vars
  PROVE  Walk'
<1>0. Lists
  BY DEF Sound
\* Outside of the eviction nothing is pointed at.
<1>1. ASSUME pc' \notin {"evictWindow", "evictMain"}, candidate' = Nil, victim' = Nil,
             victimQueue' = "probation"
      PROVE  Walk'
  BY <1>1, QueueNames DEF Walk
<1>2. CASE pc \notin {"evictWindow", "evictMain"} /\ UNCHANGED walk
           /\ pc' \notin {"evictWindow", "evictMain"}
  BY <1>1, <1>2 DEF Walk, walk
<1>3. CASE Finish
  BY <1>1, <1>3 DEF Finish
<1>4. CASE pc \notin {"evictWindow", "evictMain"} /\ UNCHANGED walk /\ pc' = "evictWindow"
  BY <1>4, QueueNames DEF Walk, walk
<1>5. ASSUME NEW e \in Entry, Set(e) \/ Access(e) PROVE Walk'
  BY <1>2, <1>5 DEF Set, Access, Begin, walk
<1>6. CASE SetAdd \/ Updated \/ Climb \/ Resize
  BY <1>2, <1>6 DEF SetAdd, Updated, Climb, Resize, walk
<1>7. CASE AccessMove \/ EvictDone
  BY <1>3, <1>7 DEF AccessMove, EvictDone
<1>8. ASSUME NEW e \in Entry, RemoveListed(e) \/ \E w \in Cost : UpdateCost(e, w) PROVE Walk'
  BY <1>2, <1>8 DEF RemoveListed, UpdateCost, walk
<1>9. CASE Fit
  BY <1>3, <1>4, <1>9 DEF Fit, walk
<1>10. CASE Demote
  <2>1. /\ UNCHANGED walk /\ pc \in {"demoteFirst", "demote"}
        /\ pc' \in {"demoteFirst", "demote", "evictWindow", "grow", "shrink", op}
    BY <1>10 DEF Demote, AfterDemote, walk
  <2>2. pc' # "evictMain" /\ (pc' = op => pc' # "evictWindow" \/ pc = "demote")
    <3>1. pc = "demoteFirst" => op \in {"Set", "Access"}
      BY DEF Ops, Early
    <3>. QED BY <1>10, <3>1 DEF Demote, AfterDemote
  <2>. QED BY <1>2, <1>4, <2>1, <2>2
<1>11. CASE ResizeDone
  <2>1. op \in {"Set", "Access"}
    BY <1>11 DEF ResizeDone, Ops, Early
  <2>. QED BY <1>2, <1>11, <2>1 DEF ResizeDone, walk
<1>12. CASE EvictWindow
  <2>1. Listed' = Listed /\ Back("window") \in Listed
    BY <1>0, <1>12, EvictWindowKind, MoveSound
  <2>2. candidate' \in {candidate, Back("window")} /\ UNCHANGED <<pc, victim, victimQueue>>
        /\ pc = "evictWindow"
    BY <1>12 DEF EvictWindow
  <2>. QED BY <2>1, <2>2 DEF Walk
<1>13. CASE EvictWindowDone
  <2>1. /\ UNCHANGED <<list, candidate, victimQueue>> /\ pc = "evictWindow" /\ pc' = "evictMain"
        /\ victim' = Back("probation") /\ victimQueue = "probation"
    BY <1>13 DEF EvictWindowDone, Walk, lists
  <2>2. Back(victimQueue)' = Back("probation")
    BY <2>1 DEF Back
  <2>3. Listed' = Listed
    BY <2>1 DEF Listed
  <2>. QED BY <2>1, <2>2, <2>3 DEF Walk
<1>14. CASE NextVictims
  <2>1. /\ UNCHANGED <<list, pc>> /\ pc = "evictMain" /\ victim = Nil /\ candidate' = Nil
        /\ victim' = Back(victimQueue') /\ victimQueue # "window"
        /\ victimQueue' = IF victimQueue = "probation" THEN "protected" ELSE "window"
    BY <1>14 DEF NextVictims, Over, lists
  <2>2. list[victimQueue] = << >>
    BY <1>0, <2>1, VictimIs
  <2>3. victimQueue \in {"probation", "protected"}
    BY <2>1 DEF Walk, Queue
  <2>4. Back(victimQueue)' = Back(victimQueue')
    BY <2>1 DEF Back
  <2>5. CASE victimQueue = "probation"
    BY <2>1, <2>2, <2>4, <2>5, QueueNames DEF Walk
  <2>6. CASE victimQueue = "protected"
    BY <2>1, <2>2, <2>4, <2>6, QueueNames DEF Walk
  <2>. QED BY <2>3, <2>5, <2>6
<1>15. CASE EvictCandidateOnly \/ EvictVictimOnly \/ EvictSame \/ EvictCandidate \/ EvictVictim
  <2>1. PICK e : Evicts(e)
    BY <1>0, <1>15, EvictKind
  <2>2. /\ pc = "evictMain" /\ UNCHANGED <<pc, victimQueue>> /\ victimQueue \in Queue
        /\ Drops(e) /\ victim = Back(victimQueue)
    BY <2>1 DEF Evicts, Over, Walk
  <2>3. \A q \in Queue : /\ Back(q) # e => Back(q)' = Back(q)
                         /\ Back(q) = e => Back(q)' = PrevPolicy(e)
                         /\ list[q] = << >> => list'[q] = << >>
    BY <1>0, <2>2, DropBack, EmptyStays
  <2>4. \A q \in Queue : q = victimQueue => victim' = Back(q)'
    <3>1. e # Nil
      BY <1>0, <2>2, ListTypes, EntryAssumption DEF Drops
    <3>. QED BY <2>1, <2>2, <2>3, <3>1 DEF Evicts
  <2>5. victim' = Back(victimQueue)'
    <3>1. PICK q \in Queue : q = victimQueue
      BY <2>2
    <3>2. victim' = Back(q)' /\ victimQueue' = q
      BY <2>2, <2>4, <3>1
    <3>. QED BY <3>2 DEF Back
  <2>6. candidate' # Nil => candidate' \in Listed'
    BY <2>1, <2>2, DropSound DEF Evicts
  <2>. QED BY <2>2, <2>3, <2>5, <2>6, QueueNames DEF Walk
<1>16. CASE UNCHANGED vars
  <2>1. UNCHANGED <<list, pc, candidate, victim, victimQueue>>
    BY <1>16 DEF vars, lists, walk
  <2>. QED BY <2>1 DEF Walk, Back, Listed
<1>. QED BY <1>5, <1>6, <1>7, <1>8, <1>9, <1>10, <1>11, <1>12, <1>13, <1>14, <1>15, <1>16
         DEF Next, Step, EvictMain

-----------------------------------------------------------------------------
(* The theorems.                                                           *)

Inv == Sound /\ Ops /\ Segments /\ Walk

LEMMA InvInit == Init => Inv
<1>. SUFFICES ASSUME Init PROVE Inv
  OBVIOUS
<1>1. list = [q \in Queue |-> << >>] /\ list \in [Queue -> Seq(Entry)]
  BY DEF Init
<1>2. \A q \in Queue : list[q] = << >> /\ ToSet(list[q]) = {}
  BY <1>1, SetOfIs
<1>3. Listed = {}
  BY <1>2, ListedIs
<1>4. \A q \in Queue : IsInjective(list[q])
  <2>1. IsInjective(<< >>)
    BY DEF IsInjective
  <2>. QED BY <1>2, <2>1
<1>5. Lists
  BY <1>1, <1>2, <1>4 DEF Lists
<1>6. Lens
  <2>1. policyWeight \in [Entry -> Nat] /\ len \in [Queue -> Int] /\ \A q \in Queue : len[q] = 0
    BY DEF Init
  <2>2. SumOver(policyWeight, {}) = 0
    BY SumEmpty
  <2>. QED BY <1>2, <2>1, <2>2 DEF Lens
<1>7. Sized
  <2>1. 0 % Wrap = 0
    BY CapAssumption
  <2>. QED BY <1>3, <2>1, SumEmpty DEF Init, Sized
<1>8. Ops
  BY DEF Init, Ops, Early
<1>9. Segments
  <2>1. WindowSize \in Nat /\ WindowSize >= 1 /\ WindowSize <= Cap
    BY CapAssumption DEF WindowSize
  <2>. DEFINE p == ((Cap - WindowSize) * 8) \div 10
  <2>2. p \in Int /\ p >= 0
    <3>1. (Cap - WindowSize) * 8 \in Nat
      BY <2>1, CapAssumption
    <3>. QED BY <3>1
  <2>3. capacity = [window |-> WindowSize, protected |-> p] /\ amount = 0 /\ pc = "idle"
    BY DEF Init
  <2>. HIDE DEF p
  <2>. QED BY <2>1, <2>2, <2>3 DEF Segments
<1>10. Walk
  BY <1>2, QueueNames DEF Init, Walk
<1>. QED BY <1>5, <1>6, <1>7, <1>8, <1>9, <1>10 DEF Inv, Sound

LEMMA InvHolds == Spec => []Inv
<1>1. Inv /\ [Next]_vars => Inv'
  BY SoundNext, OpsNext, SegmentsNext, WalkNext DEF Inv
<1>. QED BY <1>1, InvInit, PTL DEF Spec

\* Whatever the climber, the accesses and the evictions move, an entry is in
\* one list, once, and the lens are the weights of what the lists hold.
THEOREM LensExact == Spec => []ListsInSync
<1>1. Inv => ListsInSync
  <2>. SUFFICES ASSUME Inv PROVE ListsInSync
    OBVIOUS
  <2>1. \A S : Total(S) = SumOver(policyWeight, S)
    BY DEF Total, MapThenSumSet, MapThenFoldSet, SumOver, IsSum, Pick
  <2>. QED BY <2>1 DEF Inv, Sound, Lists, Lens, ListsInSync
<1>. QED BY <1>1, InvHolds, PTL

\* The eviction never follows a pointer to an entry that has left the lists.
THEOREM WalkStaysListed == Spec => []WalkOnLists
<1>1. Inv => WalkOnLists
  <2>. SUFFICES ASSUME Inv, pc = "evictMain"
                PROVE  /\ candidate # Nil => candidate \in Listed
                       /\ victim # Nil => victim \in Listed
    BY DEF WalkOnLists
  <2>. QED BY VictimIs DEF Inv, Sound, Walk
<1>. QED BY <1>1, InvHolds, PTL

\* The climber leaves the window room for an entry and the protected list at
\* least nothing, and no loop pops from an empty list.
THEOREM ClimberKeepsSegments == Spec => []SegmentsPositive
<1>1. Inv => SegmentsPositive
  <2>. SUFFICES ASSUME Inv PROVE SegmentsPositive
    OBVIOUS
  <2>1. \A q \in Queue : list[q] = << >> => len[q] = 0
    <3>1. \A q \in Queue : list[q] = << >> => ToSet(list[q]) = {}
      BY SetOfIs DEF Inv, Sound, Lists
    <3>. QED BY <3>1, SumEmpty DEF Inv, Sound, Lens
  <2>2. /\ capacity.window \in Int /\ capacity.protected \in Int
        /\ capacity.window >= 1 /\ capacity.protected >= 0
    BY DEF Inv, Segments
  <2>. QED BY <2>1, <2>2, QueueNames DEF SegmentsPositive
<1>. QED BY <1>1, InvHolds, PTL

-----------------------------------------------------------------------------
(* The policy the store relies on.                                         *)

\* The weights together are below what weightedSize can hold.
NoWrap == SumOver(policyWeight, Listed) < Wrap

\* An operation starts from entries that fit.
Fits == pc \in Early \cup {"idle"} => SumOver(policyWeight, Listed) <= Cap

LEMMA ModSmall ==
  ASSUME NEW a \in Nat
  PROVE  a % Wrap <= a /\ (a < Wrap => a % Wrap = a)
<1>1. Wrap \in Nat /\ Wrap > 0
  BY CapAssumption
<1>2. a < Wrap => a % Wrap = a
  <2>. SUFFICES ASSUME a < Wrap PROVE a % Wrap = a
    OBVIOUS
  <2>1. a \in 0..(Wrap - 1)
    BY <1>1
  <2>2. (Wrap * 0 + a) % Wrap = a
    BY <1>1, <2>1, ModUnique
  <2>. QED BY <1>1, <2>2
<1>3. a % Wrap \in 0..(Wrap - 1)
  BY <1>1
<1>. QED BY <1>1, <1>2, <1>3

\* The size the policy keeps is the weight of its entries, unless that wraps.
LEMMA SizeIs ==
  ASSUME Sound
  PROVE  /\ SumOver(policyWeight, Listed) \in Nat /\ weightedSize \in Int
         /\ weightedSize <= SumOver(policyWeight, Listed)
         /\ NoWrap => weightedSize = SumOver(policyWeight, Listed)
<1>1. SumOver(policyWeight, Listed) \in Nat
  BY ListTypes, SumsAreInt DEF Sound
<1>2. weightedSize = SumOver(policyWeight, Listed) % Wrap
  BY DEF Sound, Sized
<1>3. weightedSize \in Int
  BY <1>1, <1>2, CapAssumption
<1>. QED BY <1>1, <1>2, <1>3, ModSmall DEF NoWrap

LEMMA SizeSame ==
  ASSUME Sound, UNCHANGED lists \/ Moves
  PROVE  SumOver(policyWeight, Listed)' = SumOver(policyWeight, Listed)
         /\ UNCHANGED <<Listed, policyWeight>>
<1>1. Listed' = Listed /\ UNCHANGED policyWeight
  BY StaySound, MoveSound DEF Moves, lists
<1>. QED BY <1>1

LEMMA SizeDrops ==
  ASSUME Sound, NEW e, Drops(e)
  PROVE  SumOver(policyWeight, Listed)' <= SumOver(policyWeight, Listed)
<1>1. /\ UNCHANGED policyWeight /\ Sound'
      /\ SumOver(policyWeight, Listed) = policyWeight[e] + SumOver(policyWeight, Listed')
  BY DropSound
<1>2. e \in Entry /\ Listed' \subseteq Entry /\ Lists /\ Lens
  <2>1. Listed' = Listed \ {e} /\ Listed \subseteq Entry /\ e \in Listed
    BY DropSound, ListTypes DEF Sound, Drops
  <2>. QED BY <2>1 DEF Sound
<1>3. policyWeight[e] \in Nat /\ SumOver(policyWeight, Listed') \in Nat
  BY <1>2, SumsAreInt
<1>. QED BY <1>1, <1>3

\* The walk ends only where there is nothing left to evict.
LEMMA EvictDoneFits ==
  ASSUME Sound, Walk, NoWrap, EvictDone
  PROVE  SumOver(policyWeight, Listed) <= Cap
<1>1. weightedSize = SumOver(policyWeight, Listed)
  BY SizeIs
<1>2. CASE weightedSize <= Cap
  BY <1>1, <1>2
<1>3. CASE pc = "evictMain" /\ victim = Nil /\ victimQueue = "window"
  <2>1. list["window"] = << >> /\ list["probation"] = << >> /\ list["protected"] = << >>
    BY <1>3, VictimIs DEF Walk, Sound
  <2>2. \A q \in Queue : ToSet(list[q]) = {}
    <3>1. \A q \in Queue : list[q] = << >> /\ list[q] \in Seq(Entry)
      BY <2>1 DEF Queue, Sound, Lists
    <3>. QED BY <3>1, SetOfIs
  <2>3. Listed = {}
    BY <2>2, ListedIs
  <2>. QED BY <2>3, SumEmpty, CapAssumption
<1>. QED BY <1>2, <1>3 DEF EvictDone, Over

LEMMA FitsNext ==
  ASSUME Inv, NoWrap, Fits, [Next]_vars
  PROVE  Fits'
<1>0. Sound /\ Lists /\ Ops /\ Walk
  BY DEF Inv, Sound
<1>1. CASE pc' \notin Early \cup {"idle"}
  BY <1>1 DEF Fits
<1>2. CASE pc \in Early \cup {"idle"} /\ (UNCHANGED lists \/ Moves)
  BY <1>0, <1>2, SizeSame DEF Fits
<1>3. ASSUME NEW e \in Entry, RemoveListed(e) PROVE Fits'
  <2>1. Drops(e) /\ pc \in Early \cup {"idle"}
    BY <1>3, RemoveKind DEF RemoveListed
  <2>2. SumOver(policyWeight, Listed)' <= SumOver(policyWeight, Listed)
    BY <1>0, <2>1, SizeDrops
  <2>3. SumOver(policyWeight, Listed) <= Cap /\ SumOver(policyWeight, Listed) \in Nat
    BY <1>0, <2>1, SizeIs DEF Fits
  <2>4. SumOver(policyWeight, Listed)' \in Nat
    <3>1. Sound' /\ Listed' = Listed \ {e} /\ UNCHANGED policyWeight
      BY <1>0, <2>1, DropSound
    <3>2. Listed' \subseteq Entry
      BY <1>0, <3>1, ListTypes
    <3>. QED BY <1>0, <3>1, <3>2, SumsAreInt DEF Sound
  <2>. QED BY <2>2, <2>3, <2>4, CapAssumption DEF Fits
<1>4. ASSUME NEW e \in Entry, Set(e) \/ Access(e) PROVE Fits'
  BY <1>2, <1>4, OtherKind DEF Set, Access, Begin
<1>5. ASSUME NEW e \in Entry, NEW w \in Cost, UpdateCost(e, w) PROVE Fits'
  BY <1>1, <1>5 DEF UpdateCost, Early
<1>6. CASE SetAdd \/ Updated
  BY <1>1, <1>6 DEF SetAdd, Updated, Early
<1>7. CASE AccessMove
  BY <1>2, <1>7, AccessMoveKind DEF AccessMove, Early
<1>8. CASE Fit
  <2>1. CASE weightedSize > Cap
    BY <1>1, <1>8, <2>1 DEF Fit, Early
  <2>2. CASE ~(weightedSize > Cap)
    <3>1. SumOver(policyWeight, Listed) <= Cap
      BY <1>0, <2>2, SizeIs, CapAssumption
    <3>2. SumOver(policyWeight, Listed)' = SumOver(policyWeight, Listed)
      BY <1>0, <1>8, OtherKind, SizeSame
    <3>. QED BY <3>1, <3>2 DEF Fits
  <2>. QED BY <2>1, <2>2
<1>9. CASE Climb \/ ResizeDone
  BY <1>2, <1>9, OtherKind DEF Climb, ResizeDone, Early
<1>10. CASE Demote
  <2>1. CASE pc = "demoteFirst"
    BY <1>0, <1>2, <1>10, <2>1, DemoteKind DEF Early
  <2>2. CASE pc = "demote"
    BY <1>1, <1>10, <2>2 DEF Demote, AfterDemote, Early
  <2>. QED BY <1>10, <2>1, <2>2 DEF Demote
<1>11. CASE Resize
  BY <1>0, <1>2, <1>11, ResizeKind DEF Resize, Early
<1>12. CASE EvictWindow \/ EvictWindowDone \/ NextVictims
  BY <1>1, <1>12 DEF EvictWindow, EvictWindowDone, NextVictims, Over, Early
<1>13. CASE EvictCandidateOnly \/ EvictVictimOnly \/ EvictSame \/ EvictCandidate \/ EvictVictim
  <2>1. PICK e : Evicts(e)
    BY <1>0, <1>13, EvictKind
  <2>. QED BY <1>1, <2>1 DEF Evicts, Over, Early
<1>14. CASE EvictDone
  <2>1. SumOver(policyWeight, Listed) <= Cap
    BY <1>0, <1>14, EvictDoneFits
  <2>2. SumOver(policyWeight, Listed)' = SumOver(policyWeight, Listed)
    BY <1>0, <1>14, OtherKind, SizeSame
  <2>. QED BY <2>1, <2>2 DEF Fits
<1>15. CASE UNCHANGED vars
  <2>1. SumOver(policyWeight, Listed)' = SumOver(policyWeight, Listed)
    BY <1>0, <1>15, OtherKind, SizeSame
  <2>. QED BY <1>15, <2>1 DEF Fits, vars
<1>. QED BY <1>3, <1>4, <1>5, <1>6, <1>7, <1>8, <1>9, <1>10, <1>11, <1>12, <1>13, <1>14, <1>15
         DEF Next, Step, EvictMain

LEMMA FitsInit == Init => Fits
<1>. SUFFICES ASSUME Init PROVE Fits
  OBVIOUS
<1>1. \A q \in Queue : list[q] = << >> /\ list[q] \in Seq(Entry)
  BY DEF Init
<1>2. Listed = {}
  BY <1>1, SetOfIs, ListedIs
<1>. QED BY <1>2, SumEmpty, CapAssumption DEF Fits

\* No entry is so heavy that it and a full cache together wrap weightedSize.
Roomy == \A w \in Cost : Cap + w < Wrap

\* A weight is taken in, or changed, only where the entries fit: what they
\* weigh together never grows past the capacity and that one weight.
LEMMA SumAdds ==
  ASSUME Sound, SumOver(policyWeight, Listed) <= Cap, NEW e, NEW w, Adds(e, w)
  PROVE  SumOver(policyWeight, Listed)' <= Cap + w
<1>1. /\ e \in Entry /\ e \notin Listed /\ w \in Nat
      /\ Sound' /\ Listed' = Listed \cup {e}
  BY AddSound DEF Adds
<1>2. policyWeight' = [policyWeight EXCEPT ![e] = w] /\ policyWeight \in [Entry -> Nat]
  BY DEF Adds, Sound, Lens
<1>3. Listed \subseteq Entry /\ IsFiniteSet(Listed)
  BY ListTypes, EntryAssumption, FS_Subset DEF Sound
<1>4. policyWeight'[e] = w /\ \A x \in Listed : policyWeight'[x] = policyWeight[x]
  BY <1>1, <1>2, <1>3
<1>5. \A x \in Listed \cup {e} : policyWeight'[x] \in Int
  BY <1>1, <1>2, <1>3, <1>4
<1>6. SumOver(policyWeight', Listed \cup {e}) = policyWeight'[e] + SumOver(policyWeight', Listed)
  BY <1>1, <1>3, <1>5, SumAdd
<1>7. SumOver(policyWeight', Listed) = SumOver(policyWeight, Listed)
  BY <1>3, <1>4, SumEqual
<1>8. SumOver(policyWeight, Listed) \in Nat
  BY SizeIs
<1>9. SumOver(policyWeight, Listed)' = w + SumOver(policyWeight, Listed)
  BY <1>1, <1>4, <1>6, <1>7
<1>. QED BY <1>1, <1>8, <1>9, CapAssumption

LEMMA SumWeighs ==
  ASSUME Sound, SumOver(policyWeight, Listed) <= Cap, NEW e, NEW w, Weighs(e, w)
  PROVE  SumOver(policyWeight, Listed)' <= Cap + w
<1>. DEFINE Rest == Listed \ {e}
<1>1. /\ e \in Listed /\ w \in Nat /\ Listed' = Listed
      /\ policyWeight' = [policyWeight EXCEPT ![e] = w] /\ policyWeight \in [Entry -> Nat]
  BY WeighSound DEF Weighs, Sound, Lens
<1>2. /\ Listed \subseteq Entry /\ IsFiniteSet(Listed) /\ IsFiniteSet(Rest)
      /\ Rest \subseteq Entry
  BY ListTypes, EntryAssumption, FS_Subset DEF Sound
<1>3. /\ policyWeight'[e] = w /\ policyWeight[e] \in Nat
      /\ \A x \in Rest : policyWeight'[x] = policyWeight[x]
      /\ \A x \in Listed : policyWeight'[x] \in Int /\ policyWeight[x] \in Int
  BY <1>1, <1>2
<1>4. SumOver(policyWeight, Rest) \in Nat /\ SumOver(policyWeight, Listed) \in Nat
  BY <1>2, SumsAreInt DEF Sound
<1>. HIDE DEF Rest
<1>5. SumOver(policyWeight, Listed) = policyWeight[e] + SumOver(policyWeight, Rest)
  BY <1>1, <1>2, <1>3, SumWithout DEF Rest
<1>6. SumOver(policyWeight', Listed) = policyWeight'[e] + SumOver(policyWeight', Rest)
  BY <1>1, <1>2, <1>3, SumWithout DEF Rest
<1>7. SumOver(policyWeight', Rest) = SumOver(policyWeight, Rest)
  BY <1>2, <1>3, SumEqual
<1>8. SumOver(policyWeight, Listed)' = w + SumOver(policyWeight, Rest)
  BY <1>1, <1>3, <1>6, <1>7
<1>. QED BY <1>1, <1>3, <1>4, <1>5, <1>8, CapAssumption

LEMMA SumIsNat == Sound => SumOver(policyWeight, Listed) \in Nat
  BY SizeIs

LEMMA NoWrapNext ==
  ASSUME Roomy, Inv, NoWrap, Fits, [Next]_vars
  PROVE  NoWrap'
<1>0. Sound /\ Lists /\ Ops /\ Walk
  BY DEF Inv, Sound
<1>1. CASE UNCHANGED lists \/ Moves
  BY <1>0, <1>1, SizeSame DEF NoWrap
<1>2. ASSUME NEW e, Drops(e) PROVE NoWrap'
  <2>1. SumOver(policyWeight, Listed)' <= SumOver(policyWeight, Listed)
    BY <1>0, <1>2, SizeDrops
  <2>2. SumOver(policyWeight, Listed)' \in Nat
    <3>1. Sound' /\ Listed' = Listed \ {e} /\ UNCHANGED policyWeight
      BY <1>0, <1>2, DropSound
    <3>2. Listed' \subseteq Entry
      BY <1>0, <3>1, ListTypes
    <3>. QED BY <1>0, <3>1, <3>2, SumsAreInt DEF Sound
  <2>3. SumOver(policyWeight, Listed) \in Nat
    BY <1>0, SizeIs
  <2>. QED BY <2>1, <2>2, <2>3, CapAssumption DEF NoWrap
<1>3. ASSUME NEW w \in Cost, SumOver(policyWeight, Listed)' <= Cap + w, Sound'
      PROVE  NoWrap'
  <2>1. Cap + w < Wrap /\ w \in Nat
    BY CapAssumption DEF Roomy
  <2>2. (SumOver(policyWeight, Listed) \in Nat)'
    BY <1>3, SumIsNat, PTL
  <2>. QED BY <1>3, <2>1, <2>2, CapAssumption DEF NoWrap
<1>4. CASE SetAdd
  <2>1. PICK w \in Cost : Adds(arg, w)
    <3>1. arg \in Entry /\ arg \notin Listed
      BY <1>0, <1>4 DEF SetAdd, Ops, Early
    <3>. QED BY <1>4, <3>1, CapAssumption DEF SetAdd, Adds
  <2>2. SumOver(policyWeight, Listed) <= Cap
    BY <1>4 DEF SetAdd, Fits, Early
  <2>3. SumOver(policyWeight, Listed)' <= Cap + w
    BY <1>0, <2>1, <2>2, SumAdds
  <2>4. Sound'
    BY <1>0, <2>1, AddSound
  <2>. QED BY <1>3, <2>3, <2>4
<1>5. ASSUME NEW e \in Entry, NEW w \in Cost, UpdateCost(e, w) PROVE NoWrap'
  <2>1. Weighs(e, w)
    BY <1>5, UpdateCostKind
  <2>2. SumOver(policyWeight, Listed) <= Cap
    BY <1>5 DEF UpdateCost, Fits
  <2>3. SumOver(policyWeight, Listed)' <= Cap + w
    BY <1>0, <2>1, <2>2, SumWeighs
  <2>4. Sound'
    BY <1>0, <2>1, WeighSound
  <2>. QED BY <1>3, <2>3, <2>4
<1>6. ASSUME NEW e \in Entry, Set(e) \/ Access(e) \/ RemoveListed(e) PROVE NoWrap'
  <2>1. CASE RemoveListed(e)
    BY <1>2, <2>1, RemoveKind
  <2>2. CASE Set(e) \/ Access(e)
    BY <1>1, <2>2, OtherKind
  <2>. QED BY <1>6, <2>1, <2>2
<1>7. CASE AccessMove
  BY <1>1, <1>7, AccessMoveKind
<1>8. CASE Updated
  BY <1>0, <1>1, <1>2, <1>8, UpdatedKind
<1>9. CASE Fit \/ Climb \/ ResizeDone \/ EvictWindowDone \/ NextVictims \/ EvictDone \/ UNCHANGED vars
  BY <1>1, <1>9, OtherKind
<1>10. CASE Demote
  BY <1>0, <1>1, <1>10, DemoteKind
<1>11. CASE Resize \/ EvictWindow
  BY <1>0, <1>1, <1>11, ResizeKind, EvictWindowKind
<1>12. CASE EvictCandidateOnly \/ EvictVictimOnly \/ EvictSame \/ EvictCandidate \/ EvictVictim
  <2>1. PICK e : Evicts(e)
    BY <1>0, <1>12, EvictKind
  <2>. QED BY <1>2, <2>1 DEF Evicts
<1>. QED BY <1>4, <1>5, <1>6, <1>7, <1>8, <1>9, <1>10, <1>11, <1>12 DEF Next, Step, EvictMain

LEMMA NoWrapInit == Init => NoWrap
<1>. SUFFICES ASSUME Init PROVE NoWrap
  OBVIOUS
<1>1. \A q \in Queue : list[q] = << >> /\ list[q] \in Seq(Entry)
  BY DEF Init
<1>2. Listed = {}
  BY <1>1, SetOfIs, ListedIs
<1>. QED BY <1>2, SumEmpty, CapAssumption DEF NoWrap

LEMMA AbstractSize == Abstract!Size = SumOver(policyWeight, Listed)
  BY DEF Abstract!Size, Abstract!MapThenSumSet, Abstract!MapThenFoldSet, SumOver, IsSum, Pick

Abst == <<Listed, policyWeight, pc # "idle">>

LEMMA PolicyStep ==
  ASSUME Inv, NoWrap, Fits, [Next]_vars
  PROVE  [Abstract!Next]_Abst
<1>0. Sound /\ Lists /\ Ops /\ Walk
  BY DEF Inv, Sound
\* Steps the policy does not see.
<1>1. CASE (UNCHANGED lists \/ Moves) /\ (pc = "idle" <=> pc' = "idle")
  BY <1>0, <1>1, SizeSame DEF Abst
<1>2. ASSUME NEW e, Drops(e), pc # "idle", pc' # "idle",
             SumOver(policyWeight, Listed) > Cap \/ policyWeight[e] > Cap
      PROVE  Abstract!Next
  <2>1. e \in Listed /\ e \in Entry /\ Listed' = Listed \ {e} /\ UNCHANGED policyWeight
    BY <1>0, <1>2, DropSound, ListTypes DEF Drops
  <2>2. Abstract!Evict(e)
    BY <1>2, <2>1, AbstractSize DEF Abstract!Evict
  <2>. QED BY <2>1, <2>2 DEF Abstract!Next
<1>3. ASSUME pc # "idle", pc' = "idle", SumOver(policyWeight, Listed) <= Cap,
             UNCHANGED lists \/ Moves
      PROVE  Abstract!Next
  <2>1. UNCHANGED <<Listed, policyWeight>>
    BY <1>0, <1>3, SizeSame
  <2>2. Abstract!End
    BY <1>3, <2>1, AbstractSize DEF Abstract!End
  <2>. QED BY <2>2 DEF Abstract!Next
<1>4. ASSUME NEW e \in Entry, Set(e) \/ Access(e) PROVE Abstract!Next
  <2>1. UNCHANGED <<Listed, policyWeight>>
    BY <1>0, <1>4, OtherKind, SizeSame
  <2>2. pc = "idle" /\ pc' # "idle"
    BY <1>4 DEF Set, Access, Begin
  <2>3. Abstract!Begin
    BY <2>1, <2>2 DEF Abstract!Begin
  <2>. QED BY <2>3 DEF Abstract!Next
<1>5. CASE SetAdd
  <2>1. PICK w : Adds(arg, w)
    BY <1>0, <1>5, SetAddKind
  <2>2. /\ arg \in Entry /\ arg \notin Listed /\ Listed' = Listed \cup {arg}
        /\ policyWeight' = [policyWeight EXCEPT ![arg] = w]
        /\ pc # "idle" /\ pc' # "idle"
    BY <1>0, <1>5, <2>1, AddSound DEF Adds, SetAdd
  <2>3. policyWeight'[arg] = w
    BY <1>0, <2>2 DEF Sound, Lens
  <2>4. Abstract!Weigh(arg)
    BY <2>2, <2>3 DEF Abstract!Weigh
  <2>5. Abstract!Add(arg)
    BY <2>2, <2>4 DEF Abstract!Add
  <2>. QED BY <2>2, <2>5 DEF Abstract!Next
<1>6. ASSUME NEW e \in Entry, NEW w \in Cost, UpdateCost(e, w) PROVE Abstract!Next
  <2>1. Weighs(e, w) /\ Listed' = Listed /\ pc = "idle" /\ pc' # "idle"
    BY <1>0, <1>6, UpdateCostKind, WeighSound DEF UpdateCost
  <2>2. e \in Listed /\ policyWeight' = [policyWeight EXCEPT ![e] = w]
    BY <2>1 DEF Weighs
  <2>3. policyWeight'[e] = w
    BY <1>0, <2>2 DEF Sound, Lens
  <2>4. Abstract!Weigh(e)
    BY <2>2, <2>3 DEF Abstract!Weigh
  <2>5. Abstract!Reweigh(e)
    BY <2>1, <2>2, <2>4 DEF Abstract!Reweigh
  <2>. QED BY <2>5 DEF Abstract!Next
<1>7. ASSUME NEW e \in Entry, RemoveListed(e) PROVE Abstract!Next
  <2>1. Drops(e) /\ pc = "idle" /\ pc' = "idle"
    BY <1>7, RemoveKind DEF RemoveListed
  <2>2. e \in Listed /\ Listed' = Listed \ {e} /\ UNCHANGED policyWeight
    BY <1>0, <2>1, DropSound DEF Drops
  <2>3. Abstract!Remove(e)
    BY <2>1, <2>2 DEF Abstract!Remove
  <2>. QED BY <2>3 DEF Abstract!Next
<1>8. CASE AccessMove
  <2>1. pc # "idle" /\ pc' = "idle" /\ SumOver(policyWeight, Listed) <= Cap
    BY <1>8 DEF AccessMove, Finish, Fits, Early
  <2>. QED BY <1>3, <1>8, <2>1, AccessMoveKind
<1>9. CASE Updated
  <2>1. pc # "idle" /\ pc' # "idle"
    BY <1>9 DEF Updated
  <2>. QED BY <1>0, <1>1, <1>2, <1>9, <2>1, UpdatedKind
<1>10. CASE Fit
  <2>1. CASE weightedSize > Cap
    BY <1>1, <1>10, <2>1, OtherKind DEF Fit
  <2>2. CASE ~(weightedSize > Cap)
    <3>1. SumOver(policyWeight, Listed) <= Cap
      BY <1>0, <2>2, SizeIs, CapAssumption
    <3>2. pc # "idle" /\ pc' = "idle"
      BY <1>10, <2>2 DEF Fit, Finish
    <3>. QED BY <1>3, <1>10, <3>1, <3>2, OtherKind
  <2>. QED BY <2>1, <2>2
<1>11. CASE Climb \/ EvictWindowDone \/ NextVictims
  BY <1>1, <1>11, OtherKind DEF Climb, EvictWindowDone, NextVictims, Over
<1>12. CASE Demote
  <2>1. pc = "demoteFirst" => op \in {"Set", "Access"}
    BY <1>0 DEF Ops, Early
  <2>2. pc # "idle" /\ pc' # "idle"
    BY <1>12, <2>1 DEF Demote, AfterDemote
  <2>. QED BY <1>0, <1>1, <1>12, <2>2, DemoteKind
<1>13. CASE Resize
  BY <1>0, <1>1, <1>13, ResizeKind DEF Resize
<1>14. CASE ResizeDone
  <2>1. op \in {"Set", "Access"}
    BY <1>0, <1>14 DEF Ops, Early, ResizeDone
  <2>. QED BY <1>1, <1>14, <2>1, OtherKind DEF ResizeDone
<1>15. CASE EvictWindow
  BY <1>0, <1>1, <1>15, EvictWindowKind DEF EvictWindow
<1>16. CASE EvictCandidateOnly \/ EvictVictimOnly \/ EvictSame \/ EvictCandidate \/ EvictVictim
  <2>1. PICK e : Evicts(e)
    BY <1>0, <1>16, EvictKind
  <2>2. Drops(e) /\ pc # "idle" /\ pc' # "idle" /\ weightedSize > Cap
    BY <2>1 DEF Evicts, Over
  <2>3. SumOver(policyWeight, Listed) > Cap
    BY <1>0, <2>2, SizeIs, CapAssumption
  <2>. QED BY <1>2, <2>2, <2>3
<1>17. CASE EvictDone
  <2>1. pc # "idle" /\ pc' = "idle"
    BY <1>17 DEF EvictDone, Finish
  <2>. QED BY <1>0, <1>3, <1>17, <2>1, EvictDoneFits, OtherKind
<1>18. CASE UNCHANGED vars
  BY <1>1, <1>18, OtherKind DEF vars
<1>. QED BY <1>4, <1>5, <1>6, <1>7, <1>8, <1>9, <1>10, <1>11, <1>12, <1>13, <1>14, <1>15, <1>16,
            <1>17, <1>18 DEF Next, Step, EvictMain

\* With costs such that one of them and the capacity together stay below 2^64,
\* which int64 costs and an int64 MaxSize do: the policy evicts for room only,
\* or what alone exceeds the capacity, and every operation ends with entries
\* that fit, so that the walk over the lists finds enough of them to evict.
THEOREM EvictsForRoom ==
  (\A w \in Cost : Cap + w < Wrap) => (Spec => ImplementsPolicy)
<1>. SUFFICES ASSUME Roomy PROVE Spec => ImplementsPolicy
  BY DEF Roomy
<1>1. Init => Abstract!Init
  <2>. SUFFICES ASSUME Init PROVE Abstract!Init
    OBVIOUS
  <2>1. \A q \in Queue : list[q] = << >> /\ list[q] \in Seq(Entry)
    BY DEF Init
  <2>2. Listed = {}
    BY <2>1, SetOfIs, ListedIs
  <2>. QED BY <2>2 DEF Init, Abstract!Init
<1>2. Inv /\ NoWrap /\ Fits /\ [Next]_vars => Fits'
  BY FitsNext
<1>3. Inv /\ NoWrap /\ Fits /\ [Next]_vars => NoWrap'
  BY NoWrapNext
<1>4. Inv /\ NoWrap /\ Fits /\ [Next]_vars => [Abstract!Next]_<<Listed, policyWeight, pc # "idle">>
  BY PolicyStep DEF Abst
<1>. QED BY <1>1, <1>2, <1>3, <1>4, FitsInit, NoWrapInit, InvHolds, PTL
         DEF Spec, ImplementsPolicy, Abstract!Spec
=============================================================================
