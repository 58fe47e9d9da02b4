------------------------------ MODULE MapProofs ------------------------------
(***************************************************************************)
(* Proofs about SimpleMap as a part of core, for every set of keys and     *)
(* values, every hash, every list of primes with the room the assumptions  *)
(* ask for, and every minimal batch: in every phase of a resize the map is *)
(* a dictionary.                                                           *)
(***************************************************************************)
EXTENDS MCCore, FiniteSetTheorems, SequenceTheorems, WellFoundedInduction, TLAPS

-----------------------------------------------------------------------------
(* Loops. *)

LEMMA LeastNatural ==
  ASSUME NEW S, S \subseteq Nat, S # {}
  PROVE  \E x \in S : \A y \in S : x <= y
<1>1. PICK R : R = OpToRel(<, Nat)
  OBVIOUS
<1>2. IsWellFoundedOn(R, Nat)
  BY <1>1, NatLessThanWellFounded
<1>3. \A x, y \in Nat : x < y => <<x, y>> \in R
  BY <1>1 DEF OpToRel
<1>4. PICK x \in S : \A y \in S : ~(<<y, x>> \in R)
  BY <1>2, WFMin
<1>5. \A y \in S : ~(y < x)
  BY <1>3, <1>4
<1>6. \A y \in S : y \in Nat /\ x \in Nat
  OBVIOUS
<1>7. \A y \in S : x <= y
  BY <1>5, <1>6
<1>8. QED
  BY <1>7

Stays(F, n, D) == \A k \in 1 .. n, t \in D : F[<<k, t>>] \in D
Iterates(f, F, a, n, D) ==
  f \in [0 .. n -> D] /\ f[0] = a /\ \A k \in 1 .. n : f[k] = F[<<k, f[k - 1]>>]

LEMMA Iteration ==
  ASSUME NEW D, NEW a \in D, NEW n \in Nat, NEW F, Stays(F, n, D)
  PROVE  \E f : Iterates(f, F, a, n, D)
<1> DEFINE Goes(f, m) == f[0] = a /\ \A k \in 1 .. m : f[k] = F[<<k, f[k - 1]>>]
           Good(m) == \E f \in [0 .. m -> D] : Goes(f, m)
<1>1. SUFFICES ASSUME ~Good(n) PROVE FALSE
  BY DEF Iterates
<1>2. PICK S : S = {m \in 0 .. n : ~Good(m)}
  OBVIOUS
<1>3. S \subseteq Nat /\ S # {}
  <2>1. n \in 0 .. n
    OBVIOUS
  <2>2. n \in S /\ S \subseteq 0 .. n
    BY <1>1, <1>2, <2>1, Zenon
  <2>3. QED
    BY <2>2
<1>4. PICK m \in S : \A y \in S : m <= y
  BY <1>3, LeastNatural
<1>5. m \in 0 .. n /\ ~Good(m)
  BY <1>2, <1>4
<1>6. Good(0)
  <2>1. PICK f : f = [k \in 0 .. 0 |-> a]
    OBVIOUS
  <2>2. f \in [0 .. 0 -> D] /\ f[0] = a
    BY <2>1
  <2>3. Goes(f, 0)
    BY <2>2
  <2>4. QED
    BY <2>2, <2>3
<1>7. m # 0
  BY <1>5, <1>6
<1>8. PICK p : p = m - 1
  OBVIOUS
<1>9. p \in 0 .. n /\ p \notin S /\ m \in 1 .. n /\ p = m - 1 /\ p \in Nat
  BY <1>4, <1>5, <1>7, <1>8
<1>10. PICK f \in [0 .. p -> D] : Goes(f, p)
  BY <1>2, <1>9
<1>11. f[0] = a /\ \A k \in 1 .. p : f[k] = F[<<k, f[k - 1]>>]
  BY <1>10
<1>12. PICK g : g = [k \in 0 .. m |-> IF k = m THEN F[<<m, f[p]>>] ELSE f[k]]
  OBVIOUS
<1>13. F[<<m, f[p]>>] \in D
  BY <1>9, <1>10 DEF Stays
<1>14. g \in [0 .. m -> D]
  BY <1>9, <1>10, <1>12, <1>13
<1>15. g[0] = a
  BY <1>9, <1>11, <1>12
<1>16. \A k \in 1 .. m : g[k] = F[<<k, g[k - 1]>>]
  <2>1. SUFFICES ASSUME NEW k \in 1 .. m PROVE g[k] = F[<<k, g[k - 1]>>]
    OBVIOUS
  <2>2. k \in 0 .. m /\ k - 1 \in 0 .. m /\ k - 1 # m
    BY <1>9
  <2>3. g[k - 1] = f[k - 1]
    BY <1>12, <2>2
  <2>4. CASE k = m
    BY <1>9, <1>12, <2>2, <2>3, <2>4
  <2>5. CASE k # m
    <3>1. k \in 1 .. p
      BY <1>9, <2>5
    <3>2. g[k] = f[k]
      BY <1>12, <2>2, <2>5
    <3>3. QED
      BY <1>11, <2>3, <3>1, <3>2
  <2>6. QED
    BY <2>4, <2>5
<1>17. Goes(g, m)
  BY <1>15, <1>16
<1>18. QED
  BY <1>5, <1>14, <1>17

-----------------------------------------------------------------------------
(* The tables of the map. *)

Primes == {PrimeList[i] : i \in DOMAIN PrimeList}
Pair == Key \X Value

\* A table of n slots, whatever is in them.
TableType(n) ==
  [n : {n}, slots : [0 .. n - 1 -> [node : Pair \cup {Free}, dirty : BOOLEAN]], size : Nat, n_dirty : Nat]

Used(t) == {i \in 0 .. t.n - 1 : exist(t, i)}
Marked(t) == {i \in 0 .. t.n - 1 : exist(t, i) \/ t.slots[i].dirty}
KeyAt(t, i) == t.slots[i].node[1]
KeysOf(t) == {KeyAt(t, i) : i \in Used(t)}

\* The search for k meets slot i.
DirtyTo(t, k, j) == \A l \in 0 .. j - 1 : t.slots[Chain(t, k, l)].dirty
Meets(t, k, i) == \E j \in 0 .. t.n - 1 : i = Chain(t, k, j) /\ DirtyTo(t, k, j)

\* A table in which every key is found once and the counters are right.
Sound(t) ==
  /\ t.n \in Primes /\ t \in TableType(t.n)
  /\ \A i \in Used(t) : Meets(t, KeyAt(t, i), i)
  /\ \A i \in Used(t), j \in Used(t) : KeyAt(t, i) = KeyAt(t, j) => i = j
  /\ t.size = Cardinality(Used(t))
  /\ t.n_dirty >= Cardinality(Marked(t))

Has(t, k, v) == \E i \in Used(t) : t.slots[i].node = <<k, v>>
Exact(t) == t.n_dirty = Cardinality(Marked(t))

\* How full a table may get between two resizes.
Limit(n) == (n * 7) \div 10
Fill(n) == IF n <= MinBatch THEN Limit(n) ELSE Limit(n) + 1

\* What the shadow of a resize at slot p has of table t.
Trails(t, s, p) ==
  /\ \A a \in Key, b \in Value : Has(s, a, b) => Has(t, a, b)
  /\ \A j \in Used(t) : j < p => KeyAt(t, j) \in KeysOf(s)

\* The slots that the rest of the resize will fill in the shadow.
Coming(t, s, p) == {j \in Used(t) : j >= p /\ KeyAt(t, j) \notin KeysOf(s)}
Load(t, s, p) == Cardinality(Marked(s)) + Cardinality(Coming(t, s, p))
\* A shadow of n slots while the slots before p of h are in it.
Good(h, s, n, p, f) ==
  Sound(s) /\ s.n = n /\ Exact(s) /\ Trails(h, s, p) /\ Load(h, s, p) <= f

\* A map as such: all but the room left in its tables.
IsMap(m) ==
  /\ m = [h |-> m.h, shadow |-> m.shadow, position |-> m.position, batch |-> m.batch,
          prime |-> m.prime, failed |-> FALSE]
  /\ m.prime \in DOMAIN PrimeList /\ m.position \in Nat /\ Sound(m.h)

\* A resize after r batches: x more keys may be stored before the next one,
\* and one with every batch to come.
Batches(m) == (m.h.n - 1) \div m.batch
Running(m, r, x) ==
  /\ m.batch \in Nat /\ m.batch >= MinBatch /\ r \in Nat
  /\ m.position = r * m.batch /\ m.position < m.h.n
  /\ m.shadow.n >= m.h.n
  /\ Good(m.h, m.shadow, m.shadow.n, m.position, Limit(m.shadow.n) + r - Batches(m) - x)
  /\ Cardinality(Marked(m.h)) + x <= Limit(m.h.n) + 1 + r
Moving(m, x) == \E r \in Nat : Running(m, r, x)

\* A map, between two calls (x = 0) or before the store of a put (x = 1).
MapFits(m, x) ==
  /\ IsMap(m)
  /\ m.position = 0 => Cardinality(Marked(m.h)) + x <= Fill(m.h.n)
  /\ m.position # 0 => Moving(m, x)

\* Two tables are the same dictionary; a table is the dictionary c.
SameBook(t, u) == \A a \in Key, b \in Value : Has(t, a, b) <=> Has(u, a, b)
Mirrors(t, c) ==
  /\ c \in [Key -> Value \cup {None}]
  /\ \A a \in Key, b \in Value : Has(t, a, b) <=> c[a] = b

\* A size whose table holds one of n slots, full, and what is put while it is
\* moved.
Enough(n, s) ==
  /\ s \in Primes /\ s >= n
  /\ s # n => Limit(n) + Insertions(n) <= Limit(s)
  /\ s = n => Cardinality(Key) + Insertions(n) <= Limit(s)

-----------------------------------------------------------------------------
(* Chains: the slots a search passes are all slots of the table. *)

Prime(n) == n \in Nat /\ n > 2 /\ \A a, b \in 1 .. n - 1 : (a * b) % n # 0

LEMMA Remainder ==
  ASSUME NEW a \in Nat, NEW n \in Nat \ {0}
  PROVE  /\ a % n \in 0 .. n - 1 /\ a \div n \in Nat
         /\ a = n * (a \div n) + (a % n)
  OBVIOUS

LEMMA MultipleOf ==
  ASSUME NEW q \in Nat, NEW n \in Nat \ {0}
  PROVE  (n * q) % n = 0
  OBVIOUS

LEMMA SameRemainder ==
  ASSUME NEW a \in Nat, NEW b \in Nat, NEW n \in Nat \ {0}, a <= b, a % n = b % n
  PROVE  (b - a) % n = 0
<1>1. PICK p, q, r : p = a \div n /\ q = b \div n /\ r = a % n
  BY Zenon
<1>2. p \in Nat /\ q \in Nat /\ r \in 0 .. n - 1 /\ a = n * p + r /\ b = n * q + r
  <2>1. a \div n \in Nat /\ a % n \in 0 .. n - 1 /\ a = n * (a \div n) + (a % n)
    BY Remainder
  <2>2. b \div n \in Nat /\ b = n * (b \div n) + (b % n)
    BY Remainder
  <2>3. QED
    BY <1>1, <2>1, <2>2
<1>3. n * p <= n * q /\ b - a = n * q - n * p
  BY <1>2
<1>4. p <= q
  BY <1>2, <1>3
<1>5. PICK d : d = q - p
  BY Zenon
<1>6. d \in Nat /\ n * d = n * q - n * p
  BY <1>2, <1>4, <1>5
<1>7. QED
  BY <1>3, <1>6, MultipleOf

LEMMA HashType ==
  ASSUME NEW k \in Key
  PROVE  Hash[k] \in Nat
<1>1. Hash \in [Key -> Nat]
  BY MapAssumption
<1>2. QED
  BY <1>1

LEMMA ChainIn ==
  ASSUME NEW t, t.n \in Nat, t.n > 2, NEW k \in Key, NEW j \in Nat
  PROVE  Chain(t, k, j) \in 0 .. t.n - 1
<1>1. PICK n, h, d, a : n = t.n /\ h = Hash[k] % n /\ d = 1 + (Hash[k] % (n - 1)) /\ a = h + (j * d)
  BY Zenon
<1>2. n \in Nat \ {0} /\ n - 1 \in Nat \ {0} /\ Hash[k] \in Nat
  BY <1>1, HashType
<1>3. h \in Nat /\ d \in Nat
  <2>1. Hash[k] % n \in 0 .. n - 1
    BY <1>2, Remainder
  <2>2. PICK u : u = n - 1
    BY Zenon
  <2>3. Hash[k] % u \in 0 .. u - 1
    BY <1>2, <2>2, Remainder
  <2>4. QED
    BY <1>1, <1>2, <2>1, <2>2, <2>3
<1>4. j * d \in Nat
  BY <1>3
<1>5. a \in Nat
  BY <1>1, <1>3, <1>4
<1>6. a % n \in 0 .. n - 1
  BY <1>2, <1>5, Remainder
<1>7. QED
  BY <1>1, <1>6 DEF Chain

LEMMA ChainDiffers ==
  ASSUME NEW t, Prime(t.n), NEW k \in Key, NEW i \in 0 .. t.n - 1, NEW j \in 0 .. t.n - 1, i < j
  PROVE  Chain(t, k, i) # Chain(t, k, j)
<1>1. PICK n, h, d, a, b, e :
        n = t.n /\ h = Hash[k] % n /\ d = 1 + (Hash[k] % (n - 1)) /\ a = h + (i * d) /\ b = h + (j * d)
        /\ e = j - i
  BY Zenon
<1>2. n \in Nat \ {0} /\ n - 1 \in Nat \ {0} /\ Hash[k] \in Nat /\ n > 2
  BY <1>1, HashType DEF Prime
<1>3. h \in Nat /\ d \in 1 .. n - 1
  <2>1. Hash[k] % n \in 0 .. n - 1
    BY <1>2, Remainder
  <2>2. PICK u : u = n - 1
    BY Zenon
  <2>3. Hash[k] % u \in 0 .. u - 1
    BY <1>2, <2>2, Remainder
  <2>4. QED
    BY <1>1, <1>2, <2>1, <2>2, <2>3
<1>4. e \in 1 .. n - 1 /\ i \in Nat /\ j \in Nat
  BY <1>1, <1>2
<1>5. i * d \in Nat /\ j * d \in Nat /\ e * d = j * d - i * d /\ e * d \in Nat
  BY <1>1, <1>3, <1>4
<1>6. a \in Nat /\ b \in Nat /\ b - a = e * d /\ a <= b
  BY <1>1, <1>3, <1>5
<1>7. (e * d) % n # 0
  BY <1>1, <1>3, <1>4 DEF Prime
<1>8. a % n # b % n
  <2>1. SUFFICES ASSUME a % n = b % n PROVE FALSE
    OBVIOUS
  <2>2. (b - a) % n = 0
    BY <1>2, <1>6, <2>1, SameRemainder
  <2>3. QED
    BY <1>6, <1>7, <2>2
<1>9. QED
  BY <1>1, <1>8 DEF Chain

\* Every slot is on every chain.
LEMMA ChainMeets ==
  ASSUME NEW t, Prime(t.n), NEW k \in Key, NEW x \in 0 .. t.n - 1
  PROVE  \E j \in 0 .. t.n - 1 : Chain(t, k, j) = x
<1>1. PICK S, f : S = 0 .. t.n - 1 /\ f = [j \in S |-> Chain(t, k, j)]
  BY Zenon
<1>2. f \in [S -> S]
  BY <1>1, ChainIn DEF Prime
<1>3. \A i, j \in S : f[i] = f[j] => i = j
  <2>1. SUFFICES ASSUME NEW i \in S, NEW j \in S, f[i] = f[j], i # j PROVE FALSE
    OBVIOUS
  <2>2. i \in 0 .. t.n - 1 /\ j \in 0 .. t.n - 1 /\ Chain(t, k, i) = Chain(t, k, j)
    BY <1>1, <2>1
  <2>3. i < j \/ j < i
    BY <2>1, <2>2 DEF Prime
  <2>4. QED
    BY <2>2, <2>3, ChainDiffers
<1>4. f \in Injection(S, S)
  BY <1>2, <1>3 DEF Injection, IsInjective
<1>5. IsFiniteSet(S)
  BY <1>1, FS_Interval DEF Prime
<1>6. f \in Surjection(S, S)
  BY <1>4, <1>5, FS_Injection
<1>7. \E j \in S : f[j] = x
  BY <1>1, <1>6 DEF Surjection
<1>8. QED
  BY <1>1, <1>7

LEMMA SizesFit ==
  ASSUME NEW n \in Primes
  PROVE  Prime(n) /\ n \in Nat /\ n > 2 /\ n \in Nat \ {0}
<1>1. PICK i \in DOMAIN PrimeList : n = PrimeList[i]
  BY DEF Primes
<1>2. n \in Nat /\ n > 2
  <2>1. PrimeList \in Seq(Nat) /\ \A l \in DOMAIN PrimeList : PrimeList[l] > 2
    BY MapAssumption
  <2>2. QED
    BY <1>1, <2>1
<1>3. \A a, b \in 1 .. n - 1 : (a * b) % n # 0
  BY <1>1, PrimesAssumption
<1>4. QED
  BY <1>2, <1>3 DEF Prime

LEMMA FirstIs ==
  ASSUME NEW S, S \subseteq Nat, NEW x \in S
  PROVE  First(S) \in S /\ \A y \in S : First(S) <= y
<1>1. \E j \in S : \A i \in S : j <= i
  BY LeastNatural
<1>2. QED
  BY <1>1 DEF First

\* What a table is made of.
LEMMA TableParts ==
  ASSUME NEW t, t.n \in Nat, t \in TableType(t.n)
  PROVE  /\ \A i \in 0 .. t.n - 1 : /\ t.slots[i].dirty \in BOOLEAN
                                    /\ t.slots[i].node \in Pair \cup {Free}
                                    /\ exist(t, i) => t.slots[i].node \in Pair /\ KeyAt(t, i) \in Key
         /\ DOMAIN t.slots = 0 .. t.n - 1
         /\ t.size \in Nat /\ t.n_dirty \in Nat
         /\ IsFiniteSet(0 .. t.n - 1) /\ Cardinality(0 .. t.n - 1) = t.n
         /\ IsFiniteSet(Used(t)) /\ IsFiniteSet(Marked(t))
         /\ Cardinality(Used(t)) \in Nat /\ Cardinality(Marked(t)) \in Nat
         /\ Used(t) \subseteq Marked(t) /\ Marked(t) \subseteq 0 .. t.n - 1
         /\ Cardinality(Used(t)) <= Cardinality(Marked(t))
<1>1. /\ t.slots \in [0 .. t.n - 1 -> [node : Pair \cup {Free}, dirty : BOOLEAN]]
      /\ t.size \in Nat /\ t.n_dirty \in Nat
  BY DEF TableType
<1>2. \A i \in 0 .. t.n - 1 : t.slots[i].dirty \in BOOLEAN /\ t.slots[i].node \in Pair \cup {Free}
  BY <1>1
<1>3. \A i \in 0 .. t.n - 1 : exist(t, i) => t.slots[i].node \in Pair /\ KeyAt(t, i) \in Key
  BY <1>2 DEF exist, KeyAt, Pair
<1>4. IsFiniteSet(0 .. t.n - 1) /\ Cardinality(0 .. t.n - 1) = t.n
  <2>1. PICK a, b : a = 0 /\ b = t.n - 1
    BY Zenon
  <2>2. a \in Int /\ b \in Int /\ (IF a > b THEN 0 ELSE b - a + 1) = t.n
    BY <2>1
  <2>3. IsFiniteSet(a .. b) /\ Cardinality(a .. b) = IF a > b THEN 0 ELSE b - a + 1
    BY <2>2, FS_Interval
  <2>4. QED
    BY <2>1, <2>2, <2>3
<1>5. Used(t) \subseteq Marked(t) /\ Marked(t) \subseteq 0 .. t.n - 1
  BY DEF Used, Marked
<1>6. IsFiniteSet(Marked(t))
  BY <1>4, <1>5, FS_Subset
<1>7. IsFiniteSet(Used(t)) /\ Cardinality(Used(t)) <= Cardinality(Marked(t))
  BY <1>5, <1>6, FS_Subset
<1>8. Cardinality(Used(t)) \in Nat /\ Cardinality(Marked(t)) \in Nat
  BY <1>6, <1>7, FS_CardinalityType
<1>9. QED
  BY <1>1, <1>2, <1>3, <1>4, <1>5, <1>6, <1>7, <1>8

LEMMA SameKey ==
  ASSUME NEW t, NEW i \in 0 .. t.n - 1, NEW k
  PROVE  Same(t, i, k) <=> i \in Used(t) /\ KeyAt(t, i) = k
  BY DEF Same, Used, KeyAt

LEMMA KeyTaken ==
  ASSUME NEW t, NEW k
  PROVE  k \in KeysOf(t) <=> \E i \in Used(t) : KeyAt(t, i) = k
  BY DEF KeysOf

\* find returns the slot of a key, or the end.
LEMMA FindIs ==
  ASSUME NEW t, Sound(t), NEW k \in Key
  PROVE  /\ k \in KeysOf(t) => find(t, k) \in Used(t) /\ KeyAt(t, find(t, k)) = k
         /\ k \notin KeysOf(t) => find(t, k) = t.n
<1>1. Prime(t.n) /\ t.n \in Nat /\ t.n > 2
  BY SizesFit DEF Sound
<1>2. \A j \in 0 .. t.n - 1 : Chain(t, k, j) \in 0 .. t.n - 1
  BY <1>1, ChainIn
<1>3. PICK St, s, i : St = Stops(t, k) /\ s = First(St) /\ i = Chain(t, k, s)
  BY Zenon
<1>4. St = {j \in 0 .. t.n - 1 : Same(t, Chain(t, k, j), k) \/ ~t.slots[Chain(t, k, j)].dirty}
  BY <1>3 DEF Stops
<1>5. find(t, k) = IF St = {} THEN t.n ELSE IF Same(t, i, k) THEN i ELSE t.n
  BY <1>3 DEF find
<1>6. ASSUME NEW x \in St PROVE s \in St /\ \A y \in St : s <= y
  <2>1. St \subseteq Nat
    BY <1>1, <1>4
  <2>2. QED
    BY <1>3, <2>1, FirstIs
<1>7. CASE k \notin KeysOf(t)
  <2>1. ~Same(t, i, k) \/ St = {}
    <3>1. SUFFICES ASSUME NEW x \in St, Same(t, i, k) PROVE FALSE
      OBVIOUS
    <3>2. i \in 0 .. t.n - 1
      BY <1>2, <1>3, <1>4, <1>6, <3>1
    <3>3. QED
      BY <1>7, <3>1, <3>2, SameKey, KeyTaken
  <2>2. QED
    BY <1>5, <1>7, <2>1
<1>8. CASE k \in KeysOf(t)
  <2>1. PICK x \in Used(t) : KeyAt(t, x) = k
    BY <1>8, KeyTaken
  <2>2. PICK j \in 0 .. t.n - 1 : x = Chain(t, k, j) /\ DirtyTo(t, k, j)
    BY <2>1 DEF Sound, Meets
  <2>3. x \in 0 .. t.n - 1 /\ Same(t, x, k)
    BY <1>2, <2>1, <2>2, SameKey
  <2>4. j \in St
    BY <1>4, <2>2, <2>3
  <2>5. s \in St /\ s <= j
    BY <1>6, <2>4
  <2>6. s \in 0 .. t.n - 1 /\ (Same(t, i, k) \/ ~t.slots[i].dirty)
    BY <1>3, <1>4, <2>5
  <2>7. Same(t, i, k)
    <3>1. CASE s = j
      BY <1>3, <2>2, <2>3, <3>1
    <3>2. CASE s # j
      <4>1. s \in 0 .. j - 1
        BY <1>1, <2>5, <2>6, <3>2
      <4>2. t.slots[i].dirty
        BY <1>3, <2>2, <4>1 DEF DirtyTo
      <4>3. QED
        BY <2>6, <4>2
    <3>3. QED
      BY <3>1, <3>2
  <2>8. find(t, k) = i /\ i \in 0 .. t.n - 1
    BY <1>2, <1>3, <1>5, <2>4, <2>6, <2>7
  <2>9. QED
    BY <1>8, <2>7, <2>8, SameKey
<1>9. QED
  BY <1>7, <1>8

\* What a table u has after k was put into t: slot x holds it, the others what
\* they held, and all that counts grows by x at most.
Kept(t, u, x) ==
  /\ u.n = t.n /\ x \in 0 .. t.n - 1
  /\ \A i \in 0 .. t.n - 1 : i # x => u.slots[i].node = t.slots[i].node

StoredAt(t, u, k, v, x) ==
  /\ Kept(t, u, x) /\ u.slots[x].node = <<k, v>>
  /\ k \in KeysOf(t) => x \in Used(t) /\ KeyAt(t, x) = k
  /\ k \notin KeysOf(t) => x \notin Used(t)
  /\ Used(u) = Used(t) \cup {x} /\ Marked(u) = Marked(t) \cup {x}
  /\ \A i \in 0 .. t.n - 1 : t.slots[i].dirty => u.slots[i].dirty
  /\ Meets(u, k, x)
  /\ u.size = IF x \in Used(t) THEN t.size ELSE t.size + 1
  /\ u.n_dirty = IF x \in Marked(t) THEN t.n_dirty ELSE t.n_dirty + 1

LEMMA StoreAt ==
  ASSUME NEW t, Sound(t), Cardinality(Marked(t)) < t.n, NEW k \in Key, NEW v \in Value
  PROVE  Store(t, k, v) \in TableType(t.n) /\ \E x : StoredAt(t, Store(t, k, v), k, v, x)
<1> DEFINE At(j) == Chain(t, k, j)
<1>1. Prime(t.n) /\ t.n \in Nat /\ t.n > 2 /\ t \in TableType(t.n)
  BY SizesFit DEF Sound
<1>2. \A j \in 0 .. t.n - 1 : At(j) \in 0 .. t.n - 1
  BY <1>1, ChainIn
<1> HIDE DEF At
<1>3. PICK A, save, D, last, twins, found, x, fresh, passed :
        /\ A = {j \in 0 .. t.n - 1 : ~exist(t, At(j)) \/ Same(t, At(j), k)} /\ save = First(A)
        /\ D = {j \in save .. t.n - 1 : ~t.slots[At(j)].dirty} /\ last = First(D)
        /\ twins = {j \in save + 1 .. last : Same(t, At(j), k)}
        /\ found = Same(t, At(save), k)
        /\ x = IF found \/ twins = {} THEN At(save) ELSE At(First(twins))
        /\ fresh = (~found /\ twins = {})
        /\ passed = {At(j) : j \in 0 .. save - 1}
  BY Zenon
<1>31. D = {j \in save .. t.n - 1 : ~t.slots[At(j)].dirty} /\ last = First(D)
  BY <1>3, Zenon
<1>32. twins = {j \in save + 1 .. last : Same(t, At(j), k)}
  BY <1>3, Zenon
<1>33. passed = {At(j) : j \in 0 .. save - 1}
  BY <1>3, Zenon
<1>34. x = IF found \/ twins = {} THEN At(save) ELSE At(First(twins))
  BY <1>3, Zenon
<1>4. PICK u : u = [n |-> t.n,
        slots |-> [i \in 0 .. t.n - 1 |->
                     [node |-> IF i = x THEN <<k, v>> ELSE t.slots[i].node,
                      dirty |-> t.slots[i].dirty \/ i \in passed]],
        size |-> IF fresh THEN t.size + 1 ELSE t.size,
        n_dirty |-> IF fresh /\ ~t.slots[At(save)].dirty THEN t.n_dirty + 1 ELSE t.n_dirty]
  BY Zenon
<1>5. Store(t, k, v) = u
  BY <1>3, <1>4, Zenon DEF Store, At
<1>6. /\ \A i \in 0 .. t.n - 1 : t.slots[i].dirty \in BOOLEAN /\ t.slots[i].node \in Pair \cup {Free}
      /\ t.size \in Nat /\ t.n_dirty \in Nat
      /\ Marked(t) \subseteq 0 .. t.n - 1 /\ Cardinality(0 .. t.n - 1) = t.n
  BY <1>1, TableParts
<1>7. PICK w \in 0 .. t.n - 1 : ~exist(t, At(w)) /\ ~t.slots[At(w)].dirty
  <2>1. Marked(t) # 0 .. t.n - 1
    BY <1>1, <1>6
  <2>2. PICK y \in 0 .. t.n - 1 : y \notin Marked(t)
    BY <1>6, <2>1
  <2>3. PICK j \in 0 .. t.n - 1 : Chain(t, k, j) = y
    BY <1>1, ChainMeets
  <2>4. QED
    BY <2>2, <2>3 DEF Marked, At
<1>8. save \in 0 .. t.n - 1 /\ save \in A /\ save <= w /\ \A j \in A : save <= j
  <2>1. w \in A /\ A \subseteq Nat
    BY <1>1, <1>3, <1>7
  <2>2. save \in A /\ \A y \in A : save <= y
    BY <1>3, <2>1, FirstIs
  <2>3. QED
    BY <1>3, <2>1, <2>2
<1>9. last \in save .. t.n - 1 /\ ~t.slots[At(last)].dirty /\ \A j \in D : last <= j
  <2>1. w \in D /\ D \subseteq Nat
    <3>1. w \in save .. t.n - 1 /\ save \in Nat
      BY <1>1, <1>7, <1>8
    <3>2. D \subseteq save .. t.n - 1 /\ w \in D
      BY <1>7, <1>31, <3>1, Zenon
    <3>3. QED
      BY <3>1, <3>2
  <2>2. last \in D /\ \A y \in D : last <= y
    BY <1>31, <2>1, FirstIs
  <2>3. QED
    BY <1>31, <2>1, <2>2
<1>10. \A j \in 0 .. t.n - 1 : j < save => exist(t, At(j)) /\ ~Same(t, At(j), k)
  <2>1. SUFFICES ASSUME NEW j \in 0 .. t.n - 1, j < save PROVE j \notin A
    BY <1>3
  <2>2. QED
    BY <1>8, <2>1
<1>11. \A j \in 0 .. t.n - 1 : save <= j /\ j < last => t.slots[At(j)].dirty
  <2>1. SUFFICES ASSUME NEW j \in 0 .. t.n - 1, save <= j, j < last PROVE j \notin D
    <3>1. \A j \in 0 .. t.n - 1 : save <= j => j \in save .. t.n - 1
      BY <1>1, <1>8
    <3>2. QED
      BY <1>3, <3>1
  <2>2. QED
    BY <1>8, <1>9, <2>1
<1>12. ~found => ~exist(t, At(save))
  BY <1>3, <1>8
<1>13. PICK first : first = First(twins)
  BY Zenon
<1>14. twins # {} => /\ first \in twins /\ first \in 0 .. t.n - 1 /\ save < first /\ first <= last
                     /\ Same(t, At(first), k)
  <2>1. SUFFICES ASSUME NEW y \in twins
                 PROVE  /\ first \in twins /\ first \in 0 .. t.n - 1 /\ save < first /\ first <= last
                        /\ Same(t, At(first), k)
    OBVIOUS
  <2>2. twins \subseteq Nat
    <3>1. twins \subseteq save + 1 .. last /\ save \in Nat
      BY <1>1, <1>8, <1>32
    <3>2. QED
      BY <3>1
  <2>3. first \in twins
    BY <1>13, <2>1, <2>2, FirstIs
  <2>4. first \in save + 1 .. last /\ Same(t, At(first), k)
    BY <1>32, <2>3
  <2>5. QED
    BY <1>1, <1>8, <1>9, <2>3, <2>4
<1>15. fresh <=> k \notin KeysOf(t)
  <2>1. ASSUME k \in KeysOf(t) PROVE found \/ twins # {}
    <3>1. PICK i \in Used(t) : KeyAt(t, i) = k
      BY <2>1, KeyTaken
    <3>2. PICK j \in 0 .. t.n - 1 : i = Chain(t, k, j) /\ DirtyTo(t, k, j)
      BY <3>1 DEF Sound, Meets
    <3>3. i = At(j) /\ i \in 0 .. t.n - 1 /\ Same(t, At(j), k)
      BY <1>2, <3>1, <3>2, SameKey DEF At
    <3>4. save <= j
      BY <1>3, <1>8, <3>3
    <3>5. CASE save = j
      BY <1>3, <3>3, <3>5
    <3>6. CASE save # j
      <4>1. \A l \in 0 .. j - 1 : t.slots[At(l)].dirty
        BY <3>2 DEF DirtyTo, At
      <4>2. ~(last \in 0 .. j - 1)
        BY <1>9, <4>1
      <4>3. j \in save + 1 .. last
        BY <1>1, <1>8, <1>9, <3>4, <3>6, <4>2
      <4>4. QED
        BY <1>3, <3>3, <4>3
    <3>7. QED
      BY <3>5, <3>6
  <2>2. ASSUME found \/ twins # {} PROVE k \in KeysOf(t)
    <3>1. CASE found
      <4>1. At(save) \in 0 .. t.n - 1 /\ Same(t, At(save), k)
        BY <1>2, <1>3, <1>8, <3>1
      <4>2. QED
        BY <4>1, SameKey, KeyTaken
    <3>2. CASE twins # {}
      <4>1. At(first) \in 0 .. t.n - 1 /\ Same(t, At(first), k)
        BY <1>2, <1>14, <3>2
      <4>2. QED
        BY <4>1, SameKey, KeyTaken
    <3>3. QED
      BY <2>2, <3>1, <3>2
  <2>3. QED
    BY <1>3, <2>1, <2>2
<1>16. x \in 0 .. t.n - 1 /\ (fresh => ~exist(t, x) /\ x = At(save)) /\ (~fresh => Same(t, x, k))
  <2>1. CASE fresh
    BY <1>2, <1>3, <1>8, <1>12, <2>1
  <2>2. CASE found
    BY <1>2, <1>3, <1>8, <2>2
  <2>3. CASE ~found /\ twins # {}
    BY <1>2, <1>3, <1>13, <1>14, <2>3
  <2>4. QED
    BY <1>3, <2>1, <2>2, <2>3
<1>17. /\ k \in KeysOf(t) => x \in Used(t) /\ KeyAt(t, x) = k
       /\ k \notin KeysOf(t) => x \notin Used(t)
  BY <1>15, <1>16, SameKey DEF Used
<1>18. /\ u.n = t.n /\ DOMAIN u.slots = 0 .. t.n - 1
       /\ \A i \in 0 .. t.n - 1 : /\ u.slots[i].node = IF i = x THEN <<k, v>> ELSE t.slots[i].node
                                  /\ u.slots[i].dirty = (t.slots[i].dirty \/ i \in passed)
       /\ u.size = IF fresh THEN t.size + 1 ELSE t.size
       /\ u.n_dirty = IF fresh /\ ~t.slots[At(save)].dirty THEN t.n_dirty + 1 ELSE t.n_dirty
  BY <1>4
<1>19. <<k, v>> \in Pair /\ <<k, v>> # Free
  BY MapAssumption DEF Pair
<1>20. u \in TableType(t.n)
  BY <1>4, <1>6, <1>19 DEF TableType
<1>21. \A i \in passed : i \in Used(t)
  <2>1. SUFFICES ASSUME NEW j \in 0 .. save - 1 PROVE At(j) \in Used(t)
    BY <1>33
  <2>2. j \in 0 .. t.n - 1 /\ j < save
    BY <1>1, <1>8
  <2>3. QED
    BY <1>2, <1>10, <2>2 DEF Used
<1>22. /\ Used(u) = Used(t) \cup {x} /\ Marked(u) = Marked(t) \cup {x}
       /\ \A i \in 0 .. t.n - 1 : t.slots[i].dirty => u.slots[i].dirty
  <2>1. \A i \in 0 .. t.n - 1 : exist(u, i) <=> exist(t, i) \/ i = x
    BY <1>18, <1>19 DEF exist
  <2>2. \A i \in 0 .. t.n - 1 : u.slots[i].dirty <=> t.slots[i].dirty \/ i \in passed
    BY <1>18
  <2>3. \A i \in passed : exist(t, i)
    BY <1>21 DEF Used
  <2>4. QED
    BY <1>16, <1>18, <2>1, <2>2, <2>3 DEF Used, Marked
<1>23. Meets(u, k, x)
  <2>1. PICK j \in 0 .. t.n - 1 : x = At(j) /\ save <= j /\ j <= last
    <3>1. save <= save /\ save <= last /\ save \in 0 .. t.n - 1
      BY <1>1, <1>8, <1>9
    <3>2. CASE found \/ twins = {}
      BY <1>34, <3>1, <3>2
    <3>3. CASE ~(found \/ twins = {})
      <4>1. x = At(first) /\ first \in 0 .. t.n - 1 /\ save < first /\ first <= last
        BY <1>13, <1>14, <1>34, <3>3
      <4>2. save <= first
        BY <1>1, <1>8, <4>1
      <4>3. QED
        BY <4>1, <4>2
    <3>4. QED
      BY <3>2, <3>3
  <2>2. \A l \in 0 .. j - 1 : u.slots[At(l)].dirty
    <3>1. SUFFICES ASSUME NEW l \in 0 .. j - 1 PROVE u.slots[At(l)].dirty
      OBVIOUS
    <3>2. l \in 0 .. t.n - 1 /\ At(l) \in 0 .. t.n - 1
      BY <1>1, <1>2, <2>1, <3>1
    <3>3. CASE l < save
      <4>1. At(l) \in passed
        BY <1>1, <1>8, <1>33, <3>2, <3>3
      <4>2. QED
        BY <1>18, <3>2, <4>1
    <3>4. CASE save <= l
      <4>1. l < last
        BY <1>1, <1>8, <1>9, <2>1, <3>1
      <4>2. t.slots[At(l)].dirty
        BY <1>11, <3>2, <3>4, <4>1
      <4>3. QED
        BY <1>18, <3>2, <4>2
    <3>5. QED
      BY <1>8, <3>2, <3>3, <3>4
  <2>3. \A l : Chain(u, k, l) = At(l)
    BY <1>18 DEF Chain, At
  <2>4. QED
    BY <1>18, <2>1, <2>2, <2>3 DEF Meets, DirtyTo
<1>24. /\ u.size = IF x \in Used(t) THEN t.size ELSE t.size + 1
       /\ u.n_dirty = IF x \in Marked(t) THEN t.n_dirty ELSE t.n_dirty + 1
  <2>1. fresh <=> x \notin Used(t)
    BY <1>15, <1>17
  <2>2. fresh /\ ~t.slots[At(save)].dirty <=> x \notin Marked(t)
    BY <1>6, <1>16, <2>1 DEF Marked, Used
  <2>3. QED
    BY <1>18, <2>1, <2>2
<1>25. Kept(t, u, x) /\ u.slots[x].node = <<k, v>>
  BY <1>16, <1>18 DEF Kept
<1>26. StoredAt(t, u, k, v, x)
  BY <1>17, <1>22, <1>23, <1>24, <1>25 DEF StoredAt
<1>27. QED
  BY <1>5, <1>20, <1>26

\* What a store does to the dictionary of a table.
Stored(t, u, k, v) ==
  /\ Sound(u) /\ u.n = t.n
  /\ KeysOf(u) = KeysOf(t) \cup {k}
  /\ \A a \in Key, b \in Value : Has(u, a, b) <=> IF a = k THEN b = v ELSE Has(t, a, b)
  /\ Cardinality(Marked(u)) <= Cardinality(Marked(t)) + 1
  /\ k \in KeysOf(t) => Marked(u) = Marked(t)
  /\ Exact(t) => Exact(u)

LEMMA PairIsKey ==
  ASSUME NEW t, t.n \in Nat, t \in TableType(t.n), NEW i \in Used(t)
  PROVE  \E v \in Value : t.slots[i].node = <<KeyAt(t, i), v>>
<1>1. t.slots[i].node \in Pair
  BY TableParts DEF Used
<1>2. QED
  BY <1>1 DEF Pair, KeyAt

LEMMA StoreIs ==
  ASSUME NEW t, Sound(t), Cardinality(Marked(t)) < t.n, NEW k \in Key, NEW v \in Value,
         NEW u, u = Store(t, k, v)
  PROVE  Stored(t, u, k, v) /\ \E x : StoredAt(t, u, k, v, x)
<1>1. PICK x : StoredAt(t, u, k, v, x)
  BY StoreAt
<1>2. u \in TableType(t.n)
  BY StoreAt
<1>3. /\ u.n = t.n /\ x \in 0 .. t.n - 1 /\ u.slots[x].node = <<k, v>>
      /\ \A i \in 0 .. t.n - 1 : i # x => u.slots[i].node = t.slots[i].node
      /\ Used(u) = Used(t) \cup {x} /\ Marked(u) = Marked(t) \cup {x}
      /\ \A i \in 0 .. t.n - 1 : t.slots[i].dirty => u.slots[i].dirty
      /\ u.size = IF x \in Used(t) THEN t.size ELSE t.size + 1
      /\ u.n_dirty = IF x \in Marked(t) THEN t.n_dirty ELSE t.n_dirty + 1
      /\ Meets(u, k, x)
  BY <1>1 DEF StoredAt, Kept
<1>4. /\ k \in KeysOf(t) => x \in Used(t) /\ KeyAt(t, x) = k
      /\ k \notin KeysOf(t) => x \notin Used(t)
  BY <1>1 DEF StoredAt
<1>5. Prime(t.n) /\ t.n \in Nat /\ t.n > 2 /\ t \in TableType(t.n) /\ t.n \in Primes
  BY SizesFit DEF Sound
<1>6. /\ t.size = Cardinality(Used(t)) /\ t.n_dirty >= Cardinality(Marked(t))
      /\ IsFiniteSet(Used(t)) /\ IsFiniteSet(Marked(t)) /\ Used(t) \subseteq Marked(t)
      /\ Cardinality(Used(t)) \in Nat /\ Cardinality(Marked(t)) \in Nat /\ t.n_dirty \in Nat
      /\ Used(t) \subseteq 0 .. t.n - 1
  BY <1>5, TableParts DEF Sound
<1>7. /\ Cardinality(Used(t) \cup {x}) = IF x \in Used(t) THEN Cardinality(Used(t)) ELSE Cardinality(Used(t)) + 1
      /\ Cardinality(Marked(t) \cup {x}) = IF x \in Marked(t) THEN Cardinality(Marked(t)) ELSE Cardinality(Marked(t)) + 1
  BY <1>6, FS_AddElement
<1>8. /\ u.size = Cardinality(Used(u)) /\ u.n_dirty >= Cardinality(Marked(u))
      /\ Cardinality(Marked(u)) <= Cardinality(Marked(t)) + 1 /\ (Exact(t) => Exact(u))
  BY <1>3, <1>6, <1>7 DEF Exact
<1>9. k \in KeysOf(t) => Marked(u) = Marked(t)
  BY <1>3, <1>4, <1>6
<1>10. KeyAt(u, x) = k /\ \A i \in Used(t) : i # x => i \in 0 .. t.n - 1 /\ KeyAt(u, i) = KeyAt(t, i)
  BY <1>3, <1>6 DEF KeyAt
<1>11. \A i \in Used(t) : i # x => KeyAt(t, i) # k
  <2>1. SUFFICES ASSUME NEW i \in Used(t), i # x, KeyAt(t, i) = k PROVE FALSE
    OBVIOUS
  <2>2. k \in KeysOf(t)
    BY <2>1, KeyTaken
  <2>3. QED
    BY <1>4, <2>1, <2>2 DEF Sound
<1>12. \A i \in Used(u) : i = x \/ (i # x /\ i \in Used(t) /\ i \in 0 .. t.n - 1)
  BY <1>3, <1>6
<1>13. \A i \in Used(u) : Meets(u, KeyAt(u, i), i)
  <2>1. SUFFICES ASSUME NEW i \in Used(t), i # x PROVE Meets(u, KeyAt(u, i), i)
    BY <1>3, <1>10, <1>12
  <2>2. PICK a : a = KeyAt(t, i)
    BY Zenon
  <2>3. a \in Key /\ KeyAt(u, i) = a
    BY <1>5, <1>6, <1>10, <2>1, <2>2, TableParts DEF Used
  <2>4. PICK j \in 0 .. t.n - 1 : i = Chain(t, a, j) /\ DirtyTo(t, a, j)
    BY <2>1, <2>2 DEF Sound, Meets
  <2>5. \A l : Chain(u, a, l) = Chain(t, a, l)
    BY <1>3 DEF Chain
  <2>6. DirtyTo(u, a, j)
    <3>1. \A l \in 0 .. j - 1 : Chain(t, a, l) \in 0 .. t.n - 1
      <4>1. \A l \in 0 .. j - 1 : l \in Nat
        BY <1>5
      <4>2. QED
        BY <1>5, <2>3, <4>1, ChainIn
    <3>2. QED
      BY <1>3, <2>4, <2>5, <3>1 DEF DirtyTo
  <2>7. QED
    BY <1>3, <2>3, <2>4, <2>5, <2>6 DEF Meets
<1>14. \A i \in Used(u), j \in Used(u) : KeyAt(u, i) = KeyAt(u, j) => i = j
  <2>1. SUFFICES ASSUME NEW i \in Used(u), NEW j \in Used(u), KeyAt(u, i) = KeyAt(u, j), i # j PROVE FALSE
    OBVIOUS
  <2>2. CASE i = x
    BY <1>10, <1>11, <1>12, <2>1, <2>2
  <2>3. CASE j = x
    BY <1>10, <1>11, <1>12, <2>1, <2>3
  <2>4. CASE i # x /\ j # x
    BY <1>10, <1>12, <2>1, <2>4 DEF Sound
  <2>5. QED
    BY <2>2, <2>3, <2>4
<1>15. Sound(u)
  BY <1>2, <1>3, <1>5, <1>8, <1>13, <1>14 DEF Sound
<1>16. KeysOf(u) = KeysOf(t) \cup {k}
  <2>1. ASSUME NEW a \in KeysOf(u) PROVE a \in KeysOf(t) \/ a = k
    <3>1. PICK i \in Used(u) : KeyAt(u, i) = a
      BY <2>1, KeyTaken
    <3>2. QED
      BY <1>10, <1>12, <3>1, KeyTaken
  <2>2. k \in KeysOf(u)
    BY <1>3, <1>10, KeyTaken
  <2>3. ASSUME NEW a \in KeysOf(t) PROVE a \in KeysOf(u)
    <3>1. PICK i \in Used(t) : KeyAt(t, i) = a
      BY <2>3, KeyTaken
    <3>2. CASE i = x
      BY <1>4, <2>2, <3>1, <3>2, KeyTaken
    <3>3. CASE i # x
      BY <1>3, <1>10, <3>1, <3>3, KeyTaken
    <3>4. QED
      BY <3>2, <3>3
  <2>4. QED
    BY <2>1, <2>2, <2>3
<1>17. \A a \in Key, b \in Value : Has(u, a, b) <=> IF a = k THEN b = v ELSE Has(t, a, b)
  <2>1. SUFFICES ASSUME NEW a \in Key, NEW b \in Value
                 PROVE  Has(u, a, b) <=> IF a = k THEN b = v ELSE Has(t, a, b)
    OBVIOUS
  <2>2. CASE a = k
    <3>1. ASSUME NEW i \in Used(u), u.slots[i].node = <<a, b>> PROVE b = v
      <4>1. KeyAt(u, i) = k
        BY <2>2, <3>1 DEF KeyAt
      <4>2. i = x
        BY <1>10, <1>11, <1>12, <3>1, <4>1
      <4>3. QED
        BY <1>3, <3>1, <4>2
    <3>2. x \in Used(u)
      BY <1>3
    <3>3. QED
      BY <1>3, <2>2, <3>1, <3>2 DEF Has
  <2>3. CASE a # k
    <3>1. ASSUME NEW i \in Used(u), u.slots[i].node = <<a, b>> PROVE Has(t, a, b)
      <4>1. i # x
        BY <1>3, <2>3, <3>1
      <4>2. QED
        BY <1>3, <1>12, <3>1, <4>1 DEF Has
    <3>2. ASSUME NEW i \in Used(t), t.slots[i].node = <<a, b>> PROVE Has(u, a, b)
      <4>1. KeyAt(t, i) = a
        BY <3>2 DEF KeyAt
      <4>2. i # x
        <5>1. SUFFICES ASSUME i = x PROVE FALSE
          OBVIOUS
        <5>2. k \in KeysOf(t)
          BY <1>4, <3>2, <5>1
        <5>3. QED
          BY <1>4, <2>3, <4>1, <5>1, <5>2
      <4>3. QED
        BY <1>3, <1>6, <3>2, <4>2 DEF Has
    <3>3. QED
      BY <2>3, <3>1, <3>2 DEF Has
  <2>4. QED
    BY <2>2, <2>3
<1>18. Stored(t, u, k, v)
  BY <1>3, <1>8, <1>9, <1>15, <1>16, <1>17 DEF Stored
<1>19. QED
  BY <1>1, <1>18

\* What a deletion does to the table.
Removed(t, u, x) ==
  /\ Sound(u) /\ u.n = t.n
  /\ KeysOf(u) = KeysOf(t) \ {KeyAt(t, x)}
  /\ \A a \in Key, b \in Value : Has(u, a, b) <=> a # KeyAt(t, x) /\ Has(t, a, b)
  /\ Used(u) = Used(t) \ {x} /\ Marked(u) \subseteq Marked(t)
  /\ \A i \in 0 .. t.n - 1 : i # x => u.slots[i].node = t.slots[i].node
  /\ Exact(t) => Exact(u)

LEMMA DropIs ==
  ASSUME NEW t, Sound(t), NEW x \in Used(t), NEW u, u = Drop(t, x)
  PROVE  Removed(t, u, x)
<1>1. Prime(t.n) /\ t.n \in Nat /\ t.n > 2 /\ t \in TableType(t.n) /\ t.n \in Primes
  BY SizesFit DEF Sound
<1>2. /\ t.size = Cardinality(Used(t)) /\ t.n_dirty >= Cardinality(Marked(t))
      /\ IsFiniteSet(Used(t)) /\ IsFiniteSet(Marked(t)) /\ Used(t) \subseteq Marked(t)
      /\ Cardinality(Used(t)) \in Nat /\ Cardinality(Marked(t)) \in Nat /\ t.n_dirty \in Nat
      /\ t.size \in Nat /\ Used(t) \subseteq 0 .. t.n - 1
      /\ \A i \in 0 .. t.n - 1 : t.slots[i].dirty \in BOOLEAN /\ t.slots[i].node \in Pair \cup {Free}
  BY <1>1, TableParts DEF Sound
<1>3. t = [n |-> t.n, slots |-> t.slots, size |-> t.size, n_dirty |-> t.n_dirty]
      /\ t.slots \in [0 .. t.n - 1 -> [node : Pair \cup {Free}, dirty : BOOLEAN]]
  BY <1>1 DEF TableType
<1>4. x \in 0 .. t.n - 1 /\ x \in Marked(t)
  BY <1>2
<1>5. u = [t EXCEPT !.slots[x].node = Free, !.size = t.size - 1,
                    !.n_dirty = IF t.slots[x].dirty THEN t.n_dirty ELSE t.n_dirty - 1]
  BY DEF Drop
<1>51. PICK w : w = [t.slots EXCEPT ![x].node = Free]
  BY Zenon
<1>52. u = [n |-> t.n, slots |-> w, size |-> t.size - 1,
            n_dirty |-> IF t.slots[x].dirty THEN t.n_dirty ELSE t.n_dirty - 1]
  BY <1>3, <1>5, <1>51
<1>53. w = [i \in 0 .. t.n - 1 |-> [node |-> IF i = x THEN Free ELSE t.slots[i].node, dirty |-> t.slots[i].dirty]]
  <2>1. t.slots[x] \in [node : Pair \cup {Free}, dirty : BOOLEAN]
    BY <1>3, <1>4
  <2>2. \A i \in 0 .. t.n - 1 : w[i] = [node |-> IF i = x THEN Free ELSE t.slots[i].node, dirty |-> t.slots[i].dirty]
    BY <1>3, <1>4, <1>51, <2>1
  <2>3. w = [i \in 0 .. t.n - 1 |-> w[i]]
    BY <1>3, <1>51
  <2>4. QED
    BY <2>2, <2>3
<1>6. /\ u.n = t.n /\ DOMAIN u.slots = 0 .. t.n - 1 /\ u.slots[x].node = Free
      /\ u.size = t.size - 1 /\ u.n_dirty = (IF t.slots[x].dirty THEN t.n_dirty ELSE t.n_dirty - 1)
      /\ \A i \in 0 .. t.n - 1 : i # x => u.slots[i].node = t.slots[i].node
      /\ \A i \in 0 .. t.n - 1 : u.slots[i].dirty = t.slots[i].dirty
  BY <1>4, <1>52, <1>53
<1>7. Used(u) = Used(t) \ {x} /\ Marked(u) = IF t.slots[x].dirty THEN Marked(t) ELSE Marked(t) \ {x}
  <2>1. \A i \in 0 .. t.n - 1 : exist(u, i) <=> exist(t, i) /\ i # x
    BY <1>6 DEF exist
  <2>2. QED
    BY <1>4, <1>6, <2>1 DEF Used, Marked
<1>8. /\ Cardinality(Used(t) \ {x}) = Cardinality(Used(t)) - 1
      /\ Cardinality(Marked(t) \ {x}) = Cardinality(Marked(t)) - 1
  BY <1>2, <1>4, FS_RemoveElement
<1>9. /\ u.size = Cardinality(Used(u)) /\ u.n_dirty >= Cardinality(Marked(u))
      /\ (Exact(t) => Exact(u)) /\ Marked(u) \subseteq Marked(t)
  BY <1>2, <1>6, <1>7, <1>8 DEF Exact
<1>10. IsFiniteSet(Used(u)) /\ IsFiniteSet(Marked(u)) /\ Cardinality(Used(u)) \in Nat /\ Cardinality(Marked(u)) \in Nat
  <2>1. IsFiniteSet(Used(t) \ {x}) /\ IsFiniteSet(Marked(t) \ {x})
    BY <1>2, FS_RemoveElement
  <2>2. IsFiniteSet(Used(u)) /\ IsFiniteSet(Marked(u))
    BY <1>2, <1>7, <2>1
  <2>3. QED
    BY <2>2, FS_CardinalityType
<1>11. u \in TableType(t.n)
  <2>1. u.slots = [i \in 0 .. t.n - 1 |-> [node |-> IF i = x THEN Free ELSE t.slots[i].node, dirty |-> t.slots[i].dirty]]
    BY <1>52, <1>53
  <2>2. u = [n |-> t.n, slots |-> u.slots, size |-> u.size, n_dirty |-> u.n_dirty]
    BY <1>52
  <2>3. u.slots \in [0 .. t.n - 1 -> [node : Pair \cup {Free}, dirty : BOOLEAN]]
    BY <1>2, <2>1
  <2>4. u.size \in Nat /\ u.n_dirty \in Nat
    <3>1. u.n_dirty \in Int
      BY <1>2, <1>6
    <3>2. QED
      BY <1>9, <1>10, <3>1
  <2>5. QED
    <3>1. t.n \in {t.n}
      OBVIOUS
    <3>2. QED
      BY <2>2, <2>3, <2>4, <3>1 DEF TableType
<1>12. \A i \in Used(u) : i \in Used(t) /\ i # x /\ i \in 0 .. t.n - 1 /\ KeyAt(u, i) = KeyAt(t, i)
  BY <1>2, <1>6, <1>7 DEF KeyAt
<1>13. \A i \in Used(u) : Meets(u, KeyAt(u, i), i)
  <2>1. SUFFICES ASSUME NEW i \in Used(u) PROVE Meets(u, KeyAt(u, i), i)
    OBVIOUS
  <2>2. PICK a : a = KeyAt(t, i)
    BY Zenon
  <2>3. a \in Key /\ KeyAt(u, i) = a
    BY <1>1, <1>12, <2>1, <2>2, TableParts DEF Used
  <2>4. PICK j \in 0 .. t.n - 1 : i = Chain(t, a, j) /\ DirtyTo(t, a, j)
    BY <1>12, <2>1, <2>2 DEF Sound, Meets
  <2>5. \A l : Chain(u, a, l) = Chain(t, a, l)
    BY <1>6 DEF Chain
  <2>6. DirtyTo(u, a, j)
    <3>1. \A l \in 0 .. j - 1 : Chain(t, a, l) \in 0 .. t.n - 1
      <4>1. \A l \in 0 .. j - 1 : l \in Nat
        BY <1>1
      <4>2. QED
        BY <1>1, <2>3, <4>1, ChainIn
    <3>2. QED
      BY <1>6, <2>4, <2>5, <3>1 DEF DirtyTo
  <2>7. QED
    BY <1>6, <2>3, <2>4, <2>5, <2>6 DEF Meets
<1>14. \A i \in Used(u), j \in Used(u) : KeyAt(u, i) = KeyAt(u, j) => i = j
  BY <1>12 DEF Sound
<1>15. Sound(u)
  BY <1>1, <1>6, <1>9, <1>11, <1>13, <1>14 DEF Sound
<1>16. \A i \in Used(t) : KeyAt(t, i) = KeyAt(t, x) <=> i = x
  BY DEF Sound
<1>17. KeysOf(u) = KeysOf(t) \ {KeyAt(t, x)}
  <2>1. ASSUME NEW a \in KeysOf(u) PROVE a \in KeysOf(t) /\ a # KeyAt(t, x)
    <3>1. PICK i \in Used(u) : KeyAt(u, i) = a
      BY <2>1, KeyTaken
    <3>2. QED
      BY <1>12, <1>16, <3>1, KeyTaken
  <2>2. ASSUME NEW a \in KeysOf(t), a # KeyAt(t, x) PROVE a \in KeysOf(u)
    <3>1. PICK i \in Used(t) : KeyAt(t, i) = a
      BY <2>2, KeyTaken
    <3>2. i \in Used(u)
      BY <1>7, <2>2, <3>1
    <3>3. QED
      BY <1>12, <3>1, <3>2, KeyTaken
  <2>3. QED
    BY <2>1, <2>2
<1>18. \A a \in Key, b \in Value : Has(u, a, b) <=> a # KeyAt(t, x) /\ Has(t, a, b)
  <2>1. SUFFICES ASSUME NEW a \in Key, NEW b \in Value
                 PROVE  Has(u, a, b) <=> a # KeyAt(t, x) /\ Has(t, a, b)
    OBVIOUS
  <2>2. \A i \in Used(t) : t.slots[i].node = <<a, b>> => KeyAt(t, i) = a
    BY DEF KeyAt
  <2>3. \A i \in Used(u) : u.slots[i].node = t.slots[i].node
    BY <1>6, <1>12
  <2>4. QED
    BY <1>7, <1>12, <1>16, <2>2, <2>3 DEF Has
<1>19. QED
  BY <1>6, <1>7, <1>9, <1>15, <1>17, <1>18 DEF Removed

-----------------------------------------------------------------------------
(* The loop of resize. *)

LEMMA ComingIs ==
  ASSUME NEW h, Sound(h), NEW s, NEW p
  PROVE  IsFiniteSet(Coming(h, s, p)) /\ Cardinality(Coming(h, s, p)) \in Nat
<1>1. IsFiniteSet(Used(h)) /\ Coming(h, s, p) \subseteq Used(h)
  BY SizesFit, TableParts DEF Sound, Coming
<1>2. QED
  BY <1>1, FS_Subset, FS_CardinalityType

\* A key has one value.
LEMMA HasOne ==
  ASSUME NEW t, Sound(t), NEW k \in Key
  PROVE  /\ k \in KeysOf(t) <=> \E v \in Value : Has(t, k, v)
         /\ \A v \in Value, w \in Value : Has(t, k, v) /\ Has(t, k, w) => v = w
<1>1. t.n \in Nat /\ t \in TableType(t.n)
  BY SizesFit DEF Sound
<1>2. \A i \in Used(t) : \E v \in Value : t.slots[i].node = <<KeyAt(t, i), v>>
  BY <1>1, PairIsKey
<1>3. ASSUME k \in KeysOf(t) PROVE \E v \in Value : Has(t, k, v)
  <2>1. PICK i \in Used(t) : KeyAt(t, i) = k
    BY <1>3, KeyTaken
  <2>2. QED
    BY <1>2, <2>1 DEF Has
<1>4. ASSUME NEW v \in Value, Has(t, k, v) PROVE \E i \in Used(t) : KeyAt(t, i) = k /\ t.slots[i].node = <<k, v>>
  <2>1. PICK i \in Used(t) : t.slots[i].node = <<k, v>>
    BY <1>4 DEF Has
  <2>2. KeyAt(t, i) = k
    BY <2>1 DEF KeyAt
  <2>3. QED
    BY <2>1, <2>2
<1>5. ASSUME NEW v \in Value, NEW w \in Value, Has(t, k, v), Has(t, k, w) PROVE v = w
  <2>1. PICK i \in Used(t) : KeyAt(t, i) = k /\ t.slots[i].node = <<k, v>>
    BY <1>4, <1>5
  <2>2. PICK j \in Used(t) : KeyAt(t, j) = k /\ t.slots[j].node = <<k, w>>
    BY <1>4, <1>5
  <2>3. i = j
    BY <2>1, <2>2 DEF Sound
  <2>4. QED
    BY <2>1, <2>2, <2>3
<1>6. QED
  BY <1>3, <1>4, <1>5, KeyTaken

LEMMA CopyGood ==
  ASSUME NEW h, Sound(h), NEW s, NEW n, NEW p \in 0 .. h.n - 1, NEW f \in Nat, f < n,
         Good(h, s, n, p, f), NEW u, u = Copy(h, p, s), NEW q, q = p + 1
  PROVE  Good(h, u, n, q, f)
<1>1. Sound(s) /\ s.n = n /\ Exact(s) /\ Trails(h, s, p) /\ Load(h, s, p) <= f
  BY DEF Good
<1>2. h.n \in Nat /\ h \in TableType(h.n) /\ s.n \in Nat /\ s \in TableType(s.n) /\ p \in Nat
  BY <1>1, SizesFit DEF Sound
<1>3. /\ Cardinality(Marked(s)) \in Nat /\ IsFiniteSet(Coming(h, s, p))
      /\ Cardinality(Coming(h, s, p)) \in Nat
  BY <1>1, <1>2, TableParts, ComingIs
<1>4. \A j \in Used(h) : j \in Nat
  BY <1>2 DEF Used
<1>5. CASE p \notin Used(h)
  <2>1. u = s
    BY <1>5 DEF Copy, Used
  <2>2. \A j \in Used(h) : (j >= p <=> j >= q) /\ (j < p <=> j < q)
    BY <1>2, <1>4, <1>5
  <2>3. Coming(h, s, q) = Coming(h, s, p) /\ Trails(h, s, q)
    BY <1>1, <2>2 DEF Coming, Trails
  <2>4. QED
    BY <1>1, <2>1, <2>3 DEF Good, Load
<1>6. CASE p \in Used(h)
  <2>1. PICK k, v : k \in Key /\ v \in Value /\ h.slots[p].node = <<k, v>> /\ KeyAt(h, p) = k
    <3>1. PICK v \in Value : h.slots[p].node = <<KeyAt(h, p), v>>
      BY <1>2, <1>6, PairIsKey
    <3>2. KeyAt(h, p) \in Key
      BY <1>2, <1>6, TableParts DEF Used
    <3>3. QED
      BY <3>1, <3>2
  <2>2. u = Store(s, k, v)
    BY <1>6, <2>1 DEF Copy, Used
  <2>3. Cardinality(Marked(s)) < s.n
    BY <1>1, <1>2, <1>3 DEF Load
  <2>4. Stored(s, u, k, v)
    BY <1>1, <2>1, <2>2, <2>3, StoreIs
  <2>5. /\ Sound(u) /\ u.n = n /\ Exact(u) /\ KeysOf(u) = KeysOf(s) \cup {k}
        /\ \A a \in Key, b \in Value : Has(u, a, b) <=> IF a = k THEN b = v ELSE Has(s, a, b)
        /\ Cardinality(Marked(u)) <= Cardinality(Marked(s)) + 1
        /\ k \in KeysOf(s) => Marked(u) = Marked(s)
    BY <1>1, <2>4 DEF Stored
  <2>6. Cardinality(Marked(u)) \in Nat /\ Cardinality(Coming(h, u, q)) \in Nat
    <3>1. u.n \in Nat /\ u \in TableType(u.n)
      BY <2>5, SizesFit DEF Sound
    <3>2. QED
      BY <3>1, TableParts, ComingIs
  <2>7. \A j \in Used(h) : (j >= q <=> j >= p /\ j # p) /\ (j < q <=> j < p \/ j = p)
    BY <1>2, <1>4, <1>6
  <2>8. \A j \in Used(h) : KeyAt(h, j) = k => j = p
    BY <1>6, <2>1 DEF Sound
  <2>9. Trails(h, u, q)
    <3>1. Has(h, k, v)
      BY <1>6, <2>1 DEF Has
    <3>2. \A a \in Key, b \in Value : Has(u, a, b) => Has(h, a, b)
      BY <1>1, <2>5, <3>1 DEF Trails
    <3>3. \A j \in Used(h) : j < q => KeyAt(h, j) \in KeysOf(u)
      BY <1>1, <2>1, <2>5, <2>7 DEF Trails
    <3>4. QED
      BY <3>2, <3>3 DEF Trails
  <2>10. Coming(h, u, q) = Coming(h, s, p) \ {p}
    BY <2>1, <2>5, <2>7, <2>8 DEF Coming
  <2>11. Load(h, u, q) <= f
    <3>1. CASE k \in KeysOf(s)
      <4>1. p \notin Coming(h, s, p)
        BY <2>1, <3>1 DEF Coming
      <4>2. Coming(h, u, q) = Coming(h, s, p) /\ Marked(u) = Marked(s)
        BY <2>5, <2>10, <3>1, <4>1
      <4>3. QED
        BY <1>1, <4>2 DEF Load
    <3>2. CASE k \notin KeysOf(s)
      <4>1. p \in Coming(h, s, p)
        BY <1>2, <1>6, <2>1, <3>2 DEF Coming
      <4>2. Cardinality(Coming(h, u, q)) = Cardinality(Coming(h, s, p)) - 1
        BY <1>3, <2>10, <4>1, FS_RemoveElement
      <4>3. QED
        BY <1>1, <1>3, <2>5, <2>6, <4>2 DEF Load
    <3>3. QED
      BY <3>1, <3>2
  <2>12. QED
    BY <2>5, <2>9, <2>11 DEF Good
<1>7. QED
  BY <1>5, <1>6

\* As long as each step that can be made is made, the shadow stays good.
CopiesTo(h, f, n, p, e) ==
  \A i \in p + 1 .. e : Copy(h, i - 1, f[i - 1]) \in TableType(n) => f[i] = Copy(h, i - 1, f[i - 1])
GoodTo(h, f, n, p, e, b) == \A i \in p .. e : Good(h, f[i], n, i, b)

LEMMA CopyRuns ==
  ASSUME NEW h, Sound(h), NEW n, NEW p \in Nat, NEW e \in p .. h.n, NEW b \in Nat, b < n,
         NEW f, Good(h, f[p], n, p, b), CopiesTo(h, f, n, p, e)
  PROVE  GoodTo(h, f, n, p, e, b)
<1>0. h.n \in Nat /\ e \in Nat
  BY SizesFit DEF Sound
<1>1. SUFFICES ASSUME NEW i \in p .. e, ~Good(h, f[i], n, i, b) PROVE FALSE
  BY DEF GoodTo
<1>2. PICK S : S = {j \in p .. e : ~Good(h, f[j], n, j, b)}
  OBVIOUS
<1>3. S \subseteq Nat /\ S # {}
  <2>1. i \in S /\ S \subseteq p .. e
    BY <1>1, <1>2, Zenon
  <2>2. QED
    BY <1>0, <2>1
<1>4. PICK m \in S : \A y \in S : m <= y
  BY <1>3, LeastNatural
<1>5. m \in p .. e /\ ~Good(h, f[m], n, m, b)
  BY <1>2, <1>4
<1>6. PICK l : l = m - 1
  BY Zenon
<1>7. m # p
  BY <1>5
<1>8. l \in p .. e /\ m \in p + 1 .. e /\ l \notin S /\ l \in 0 .. h.n - 1 /\ m = l + 1
  BY <1>0, <1>4, <1>5, <1>6, <1>7
<1>9. Good(h, f[l], n, l, b)
  BY <1>2, <1>8
<1>10. PICK u : u = Copy(h, l, f[l])
  BY Zenon
<1>11. Good(h, u, n, m, b)
  BY <1>8, <1>9, <1>10, CopyGood
<1>12. u \in TableType(n)
  BY <1>11 DEF Good, Sound
<1>13. f[m] = u
  BY <1>6, <1>8, <1>10, <1>12 DEF CopiesTo
<1>14. QED
  BY <1>5, <1>11, <1>13

\* What resize leaves in the shadow when it stops at slot e.
LEMMA MovedGood ==
  ASSUME NEW m, NEW h, NEW s, NEW p \in Nat, m.h = h, m.shadow = s, m.position = p,
         Sound(h), NEW n, NEW e \in p .. h.n, NEW b \in Nat, b < n, Good(h, s, n, p, b)
  PROVE  Good(h, Moved(m, e), n, e, b)
<1> DEFINE Loop(f) == f = [i \in p .. e |-> IF i = p THEN s ELSE Copy(h, i - 1, f[i - 1])]
<1>0. h.n \in Nat /\ e \in Nat
  BY SizesFit DEF Sound
<1>1. PICK d, D : d = e - p /\ D = TableType(n)
  BY Zenon
<1>2. d \in Nat
  BY <1>0, <1>1
<1>3. s \in D
  BY <1>1 DEF Good, Sound
<1>4. PICK F : F = [x \in (1 .. d) \X D |->
                      IF Copy(h, p + x[1] - 1, x[2]) \in D THEN Copy(h, p + x[1] - 1, x[2]) ELSE s]
  BY Zenon
<1>5. \A k \in 1 .. d, t \in D :
        F[<<k, t>>] = IF Copy(h, p + k - 1, t) \in D THEN Copy(h, p + k - 1, t) ELSE s
  BY <1>4
<1>6. Stays(F, d, D)
  BY <1>3, <1>5 DEF Stays
<1>7. PICK g : Iterates(g, F, s, d, D)
  BY <1>2, <1>3, <1>6, Iteration
<1>8. g \in [0 .. d -> D] /\ g[0] = s /\ \A k \in 1 .. d : g[k] = F[<<k, g[k - 1]>>]
  BY <1>7 DEF Iterates
<1>9. PICK f : f = [i \in p .. e |-> g[i - p]]
  BY Zenon
<1>10. f[p] = s
  BY <1>0, <1>8, <1>9
<1>11. \A i \in p + 1 .. e : f[i] = IF Copy(h, i - 1, f[i - 1]) \in D THEN Copy(h, i - 1, f[i - 1]) ELSE s
  <2>1. SUFFICES ASSUME NEW i \in p + 1 .. e
                 PROVE  f[i] = IF Copy(h, i - 1, f[i - 1]) \in D THEN Copy(h, i - 1, f[i - 1]) ELSE s
    OBVIOUS
  <2>2. PICK k, j, l : k = i - p /\ j = k - 1 /\ l = i - 1
    BY Zenon
  <2>3. /\ k \in 1 .. d /\ j \in 0 .. d /\ i \in p .. e /\ l \in p .. e /\ l - p = j /\ p + k - 1 = l
    BY <1>0, <1>1, <2>1, <2>2
  <2>4. f[i] = g[k] /\ f[l] = g[j] /\ g[j] \in D
    BY <1>8, <1>9, <2>2, <2>3
  <2>5. g[k] = F[<<k, g[j]>>]
    BY <1>8, <2>2, <2>3
  <2>6. F[<<k, g[j]>>] = IF Copy(h, l, g[j]) \in D THEN Copy(h, l, g[j]) ELSE s
    BY <1>5, <2>3, <2>4
  <2>7. QED
    BY <2>2, <2>4, <2>5, <2>6
<1>12. CopiesTo(h, f, n, p, e)
  BY <1>1, <1>11 DEF CopiesTo
<1>13. GoodTo(h, f, n, p, e, b)
  BY <1>10, <1>12, CopyRuns
<1>14. \A i \in p + 1 .. e : f[i] = Copy(h, i - 1, f[i - 1])
  <2>1. SUFFICES ASSUME NEW i \in p + 1 .. e PROVE f[i] = Copy(h, i - 1, f[i - 1])
    OBVIOUS
  <2>2. PICK l : l = i - 1
    BY Zenon
  <2>3. l \in p .. e /\ i = l + 1 /\ l \in 0 .. h.n - 1
    BY <1>0, <2>1, <2>2
  <2>4. PICK u : u = Copy(h, l, f[l])
    BY Zenon
  <2>5. Good(h, f[l], n, l, b)
    BY <1>13, <2>3 DEF GoodTo
  <2>6. Good(h, u, n, i, b)
    BY <2>3, <2>4, <2>5, CopyGood
  <2>7. u \in D
    BY <1>1, <2>6 DEF Good, Sound
  <2>8. QED
    BY <1>11, <2>2, <2>4, <2>7
<1>15. Loop(f)
  <2>1. f = [i \in p .. e |-> f[i]]
    BY <1>9
  <2>2. \A i \in p .. e : f[i] = IF i = p THEN s ELSE Copy(h, i - 1, f[i - 1])
    <3>1. \A i \in p .. e : i = p \/ i \in p + 1 .. e
      BY <1>0
    <3>2. QED
      BY <1>10, <1>14, <3>1
  <2>3. QED
    BY <2>1, <2>2
<1>16. PICK c : c = CHOOSE x : Loop(x)
  BY Zenon
<1>17. Loop(c)
  BY <1>15, <1>16
<1>18. c[p] = s /\ CopiesTo(h, c, n, p, e)
  <2>1. \A i \in p .. e : c[i] = IF i = p THEN s ELSE Copy(h, i - 1, c[i - 1])
    BY <1>17
  <2>2. p \in p .. e /\ \A i \in p + 1 .. e : i \in p .. e /\ i # p
    BY <1>0
  <2>3. QED
    BY <2>1, <2>2 DEF CopiesTo
<1>19. GoodTo(h, c, n, p, e, b)
  BY <1>18, CopyRuns
<1>20. Good(h, c[e], n, e, b)
  <2>1. e \in p .. e
    BY <1>0
  <2>2. QED
    BY <1>19, <2>1 DEF GoodTo
<1>21. Moved(m, e) = c[e]
  BY <1>16, Zenon DEF Moved
<1>22. QED
  BY <1>20, <1>21

-----------------------------------------------------------------------------
(* Sizes and counts. *)

LEMMA Larger ==
  ASSUME NEW a \in Nat, NEW b \in Nat \ {0}, NEW c \in Nat \ {0}, c <= b
  PROVE  a \div b <= a \div c
<1>1. PICK p, q : p = a \div c /\ q = a \div b
  BY Zenon
<1>2. p \in Nat /\ q \in Nat /\ a = c * p + (a % c) /\ a % c \in 0 .. c - 1 /\ a = b * q + (a % b)
      /\ a % b \in 0 .. b - 1
  BY <1>1, Remainder
<1>3. a < c * p + c /\ b * q <= a
  BY <1>2
<1>4. c * q <= b * q
  BY <1>2
<1>5. c * q < c * (p + 1)
  BY <1>2, <1>3, <1>4
<1>6. q < p + 1
  BY <1>2, <1>5
<1>7. QED
  BY <1>1, <1>2, <1>6

\* r batches fit in a table of n slots when the last of them begins in it.
LEMMA FewBatches ==
  ASSUME NEW n \in Nat \ {0}, NEW b \in Nat \ {0}, NEW r \in Nat, r * b < n
  PROVE  r <= (n - 1) \div b
<1>1. PICK a, q : a = n - 1 /\ q = a \div b
  BY Zenon
<1>2. a \in Nat /\ q \in Nat /\ a < b * q + b /\ r * b <= a
  <2>1. a \in Nat
    BY <1>1
  <2>2. q \in Nat /\ a = b * q + (a % b) /\ a % b \in 0 .. b - 1
    BY <1>1, <2>1, Remainder
  <2>3. QED
    BY <1>1, <2>1, <2>2
<1>3. r * b < b * (q + 1)
  BY <1>2
<1>4. r < q + 1
  BY <1>2, <1>3
<1>5. QED
  BY <1>1, <1>2, <1>4

LEMMA LimitIs ==
  ASSUME NEW n \in Nat
  PROVE  Limit(n) \in Nat /\ (n > 0 => Limit(n) < n) /\ \A s \in Nat : s <= n => Limit(s) <= Limit(n)
<1>1. Limit(n) \in Nat /\ (n > 0 => Limit(n) < n)
  BY DEF Limit
<1>2. ASSUME NEW s \in Nat, s <= n PROVE Limit(s) <= Limit(n)
  BY <1>2 DEF Limit
<1>3. QED
  BY <1>1, <1>2

LEMMA InsertionsAre ==
  ASSUME NEW n \in Primes
  PROVE  /\ Insertions(n) \in Nat /\ Insertions(n) >= 1
         /\ Insertions(n) = 1 + ((n - 1) \div MinBatch)
         /\ n > MinBatch => Insertions(n) >= 2
         /\ n <= MinBatch => (n - 1) \div MinBatch = 0
<1>1. MinBatch \in Nat \ {0}
  BY MapAssumption
<1>2. PICK a, q : a = n - 1 /\ q = a \div MinBatch
  BY Zenon
<1>3. n \in Nat /\ n > 2
  BY SizesFit
<1>4. a \in Nat /\ q \in Nat /\ a = MinBatch * q + (a % MinBatch) /\ a % MinBatch \in 0 .. MinBatch - 1
  <2>1. a \in Nat
    BY <1>2, <1>3
  <2>2. QED
    BY <1>1, <1>2, <2>1, Remainder
<1>5. Insertions(n) = 1 + q
  BY <1>2 DEF Insertions
<1>6. ASSUME n > MinBatch PROVE q >= 1
  <2>1. SUFFICES ASSUME q = 0 PROVE FALSE
    BY <1>4
  <2>2. MinBatch * q = 0
    BY <1>1, <2>1
  <2>3. QED
    BY <1>1, <1>2, <1>3, <1>4, <1>6, <2>2
<1>7. ASSUME n <= MinBatch PROVE q = 0
  <2>1. SUFFICES ASSUME q >= 1 PROVE FALSE
    BY <1>4
  <2>2. MinBatch * q >= MinBatch
    BY <1>1, <1>4, <2>1
  <2>3. QED
    BY <1>1, <1>2, <1>3, <1>4, <1>7, <2>2
<1>8. QED
  BY <1>2, <1>4, <1>5, <1>6, <1>7

\* A table never fills up: some slot stays unmarked.
LEMMA Spare ==
  ASSUME NEW n \in Primes
  PROVE  /\ Fill(n) \in Nat /\ Fill(n) < n /\ Fill(n) <= Limit(n) + 1
         /\ n > MinBatch => Fill(n) = Limit(n) + 1
         /\ n > MinBatch => Limit(n) + 1 + ((n - 1) \div MinBatch) < n
<1>1. n \in Nat /\ n > 2 /\ MinBatch \in Nat \ {0}
  BY SizesFit, MapAssumption
<1>2. Limit(n) \in Nat /\ Limit(n) < n
  BY <1>1, LimitIs
<1>3. ASSUME n > MinBatch PROVE Limit(n) + 1 + ((n - 1) \div MinBatch) < n
  <2>1. PICK i \in DOMAIN PrimeList : n = PrimeList[i]
    BY DEF Primes
  <2>2. n <= MinBatch \/ n - ((n * 7) \div 10) > 1 + ((n - 1) \div MinBatch)
    BY <2>1, BatchAssumption
  <2>3. PICK q : q = (n - 1) \div MinBatch
    BY Zenon
  <2>4. q \in Nat /\ n - Limit(n) > 1 + q
    <3>1. Insertions(n) \in Nat /\ Insertions(n) >= 1 /\ Insertions(n) = 1 + q
      BY <2>3, InsertionsAre
    <3>2. n - Limit(n) > 1 + q
      BY <1>1, <1>3, <2>2, <2>3 DEF Limit
    <3>3. q \in Int
      BY <1>1, <2>3
    <3>4. QED
      BY <3>1, <3>2, <3>3
  <2>5. QED
    BY <1>1, <1>2, <2>3, <2>4
<1>4. ASSUME n > MinBatch PROVE Limit(n) + 1 < n
  <2>1. PICK q : q = (n - 1) \div MinBatch
    BY Zenon
  <2>2. q \in Int /\ Insertions(n) >= 1 /\ Insertions(n) = 1 + q
    BY <1>1, <2>1, InsertionsAre
  <2>3. QED
    BY <1>1, <1>2, <1>3, <1>4, <2>1, <2>2
<1>5. QED
  BY <1>1, <1>2, <1>3, <1>4 DEF Fill

\* Every larger size has room for what is moved into it.
LEMMA Grows ==
  ASSUME NEW n \in Primes, NEW s \in Primes, n < s
  PROVE  Limit(n) + Insertions(n) <= Limit(s)
<1>1. PICK i \in DOMAIN PrimeList : n = PrimeList[i]
  BY DEF Primes
<1>2. PICK j \in DOMAIN PrimeList : s = PrimeList[j]
  BY DEF Primes
<1>3. n \in Nat /\ s \in Nat
  BY SizesFit
<1>4. DOMAIN PrimeList \subseteq Nat
  <2>1. PrimeList \in Seq(Nat)
    BY MapAssumption
  <2>2. QED
    BY <2>1
<1>5. \A x, y \in DOMAIN PrimeList :
        x < y => Limit(PrimeList[x]) + Insertions(PrimeList[x]) <= Limit(PrimeList[y])
  BY GrowthAssumption DEF Limit
<1>6. ~(j < i)
  <2>1. SUFFICES ASSUME j < i PROVE FALSE
    OBVIOUS
  <2>2. Limit(s) + Insertions(s) <= Limit(n)
    BY <1>1, <1>2, <1>5, <2>1
  <2>3. Limit(n) <= Limit(s) /\ Limit(n) \in Nat /\ Limit(s) \in Nat
    BY <1>3, LimitIs
  <2>4. Insertions(s) \in Nat /\ Insertions(s) >= 1
    BY InsertionsAre
  <2>5. QED
    BY <2>2, <2>3, <2>4
<1>7. i < j
  BY <1>1, <1>2, <1>3, <1>4, <1>6
<1>8. QED
  BY <1>1, <1>2, <1>5, <1>7

\* The size start_resize picks for more buckets than there are.
LEMMA SizePicked ==
  ASSUME NEW n \in Primes, NEW k \in Nat, k > n, NEW a \in DOMAIN PrimeList,
         NEW fit, fit = {i \in a .. Len(PrimeList) : PrimeList[i] >= k},
         NEW i, i = IF fit = {} THEN Len(PrimeList) ELSE First(fit)
  PROVE  i \in DOMAIN PrimeList /\ Enough(n, PrimeList[i])
<1>1. PrimeList \in Seq(Nat) /\ Len(PrimeList) > 0 /\ DOMAIN PrimeList = 1 .. Len(PrimeList)
      /\ Len(PrimeList) \in Nat /\ a \in Nat /\ a >= 1
  <2>1. PrimeList \in Seq(Nat) /\ Len(PrimeList) > 0
    BY MapAssumption
  <2>2. QED
    BY <2>1
<1>2. \A j \in DOMAIN PrimeList : PrimeList[j] \in Primes
  BY DEF Primes
<1>3. n \in Nat
  BY SizesFit
<1>4. CASE fit # {}
  <2>1. fit \subseteq Nat
    BY <1>1
  <2>2. PICK x : x \in fit
    BY <1>4
  <2>3. i \in fit
    BY <1>4, <2>1, <2>2, FirstIs
  <2>4. i \in DOMAIN PrimeList /\ PrimeList[i] >= k
    <3>1. i \in a .. Len(PrimeList) /\ PrimeList[i] >= k
      BY <2>3
    <3>2. \A q, l \in Nat : \A y \in q .. l : q >= 1 => y \in 1 .. l
      OBVIOUS
    <3>3. i \in 1 .. Len(PrimeList)
      BY <1>1, <3>1, <3>2
    <3>4. QED
      BY <1>1, <3>1, <3>3
  <2>5. PrimeList[i] \in Primes /\ PrimeList[i] \in Nat
    BY <1>2, <2>4, SizesFit
  <2>6. n < PrimeList[i]
    BY <1>3, <2>4, <2>5
  <2>7. QED
    BY <1>3, <2>4, <2>5, <2>6, Grows DEF Enough
<1>5. CASE fit = {}
  <2>1. PICK l, s : l = Len(PrimeList) /\ s = PrimeList[l]
    BY Zenon
  <2>2. i = l /\ l \in DOMAIN PrimeList /\ s \in Primes /\ s \in Nat
    BY <1>1, <1>2, <1>5, <2>1, SizesFit
  <2>3. PICK j \in DOMAIN PrimeList : n = PrimeList[j]
    BY DEF Primes
  <2>4. CASE j = l
    <3>1. Cardinality(Key) + Insertions(s) <= (s * 7) \div 10
      BY <2>1, RoomAssumption
    <3>2. n = s
      BY <2>1, <2>3, <2>4
    <3>3. QED
      BY <1>3, <2>1, <2>2, <3>1, <3>2 DEF Enough, Limit
  <2>5. CASE j # l
    <3>1. j < l
      BY <1>1, <2>1, <2>5
    <3>2. Limit(n) + Insertions(n) <= Limit(s)
      BY <2>1, <2>2, <2>3, <3>1, GrowthAssumption DEF Limit
    <3>3. ~(s <= n)
      <4>1. SUFFICES ASSUME s <= n PROVE FALSE
        OBVIOUS
      <4>2. Limit(s) <= Limit(n) /\ Limit(n) \in Nat /\ Limit(s) \in Nat
        BY <1>3, <2>2, <4>1, LimitIs
      <4>3. Insertions(n) \in Nat /\ Insertions(n) >= 1
        BY InsertionsAre
      <4>4. QED
        BY <3>2, <4>2, <4>3
    <3>4. QED
      BY <1>3, <2>1, <2>2, <3>2, <3>3 DEF Enough
  <2>6. QED
    BY <2>4, <2>5
<1>6. QED
  BY <1>4, <1>5

-----------------------------------------------------------------------------
(* A batch of a resize. *)

\* A table holds as many keys as slots are taken.
LEMMA KeyCount ==
  ASSUME NEW t, Sound(t)
  PROVE  /\ IsFiniteSet(KeysOf(t)) /\ Cardinality(KeysOf(t)) = Cardinality(Used(t))
         /\ KeysOf(t) \subseteq Key /\ Cardinality(Used(t)) <= Cardinality(Key)
         /\ Cardinality(Used(t)) \in Nat /\ Cardinality(Key) \in Nat
<1>1. t.n \in Nat /\ t \in TableType(t.n)
  BY SizesFit DEF Sound
<1>2. IsFiniteSet(Used(t)) /\ Cardinality(Used(t)) \in Nat
  BY <1>1, TableParts
<1>3. \A i \in Used(t) : KeyAt(t, i) \in Key
  BY <1>1, TableParts DEF Used
<1>4. PICK f : f = [i \in Used(t) |-> KeyAt(t, i)]
  BY Zenon
<1>5. f \in Surjection(Used(t), KeysOf(t))
  BY <1>4 DEF Surjection, KeysOf
<1>6. \A i, j \in Used(t) : f[i] = f[j] => i = j
  <2>1. SUFFICES ASSUME NEW i \in Used(t), NEW j \in Used(t), f[i] = f[j] PROVE i = j
    OBVIOUS
  <2>2. KeyAt(t, i) = KeyAt(t, j)
    BY <1>4, <2>1
  <2>3. QED
    BY <2>2 DEF Sound
<1>7. f \in Injection(Used(t), KeysOf(t))
  BY <1>5, <1>6 DEF Surjection, Injection, IsInjective
<1>8. IsFiniteSet(KeysOf(t)) /\ Cardinality(KeysOf(t)) = Cardinality(Used(t))
  BY <1>2, <1>5, <1>7, FS_Surjection
<1>9. KeysOf(t) \subseteq Key
  BY <1>3 DEF KeysOf
<1>10. IsFiniteSet(Key)
  BY RoomAssumption
<1>11. Cardinality(KeysOf(t)) <= Cardinality(Key) /\ Cardinality(Key) \in Nat
  BY <1>9, <1>10, FS_Subset, FS_CardinalityType
<1>12. QED
  BY <1>2, <1>8, <1>9, <1>11

\* A table of n free slots.
LEMMA EmptyTable ==
  ASSUME NEW n \in Primes, NEW t, t = Empty(n)
  PROVE  /\ Sound(t) /\ Exact(t) /\ t.n = n /\ Used(t) = {} /\ Marked(t) = {} /\ KeysOf(t) = {}
         /\ Cardinality(Marked(t)) = 0 /\ \A a \in Key, b \in Value : ~Has(t, a, b)
<1>1. n \in Nat /\ n > 2
  BY SizesFit
<1>2. /\ t.n = n /\ t.slots = [i \in 0 .. n - 1 |-> [node |-> Free, dirty |-> FALSE]]
      /\ t.size = 0 /\ t.n_dirty = 0
      /\ t = [n |-> t.n, slots |-> t.slots, size |-> t.size, n_dirty |-> t.n_dirty]
  BY DEF Empty
<1>3. \A i \in 0 .. n - 1 : t.slots[i].node = Free /\ t.slots[i].dirty = FALSE
  BY <1>2
<1>4. Used(t) = {} /\ Marked(t) = {}
  BY <1>2, <1>3 DEF Used, Marked, exist
<1>5. t \in TableType(n)
  <2>1. t.slots \in [0 .. n - 1 -> [node : Pair \cup {Free}, dirty : BOOLEAN]]
    BY <1>2
  <2>2. PICK w, c, d : w = t.slots /\ c = t.size /\ d = t.n_dirty
    BY Zenon
  <2>3. t = [n |-> n, slots |-> w, size |-> c, n_dirty |-> d] /\ c \in Nat /\ d \in Nat
    BY <1>2, <2>2
  <2>4. QED
    BY <2>1, <2>2, <2>3 DEF TableType
<1>6. Cardinality({}) = 0
  BY FS_EmptySet
<1>7. Sound(t) /\ Exact(t)
  BY <1>2, <1>4, <1>5, <1>6 DEF Sound, Exact
<1>8. KeysOf(t) = {} /\ \A a \in Key, b \in Value : ~Has(t, a, b)
  BY <1>4 DEF KeysOf, Has
<1>9. QED
  BY <1>2, <1>4, <1>6, <1>7, <1>8

\* When the last slot has been copied, the shadow is the same dictionary.
LEMMA AllMoved ==
  ASSUME NEW h, Sound(h), NEW s, Sound(s), Trails(h, s, h.n)
  PROVE  SameBook(s, h) /\ s.size = h.size /\ Coming(h, s, h.n) = {}
<1>1. h.n \in Nat /\ s.n \in Nat
  BY SizesFit DEF Sound
<1>2. \A j \in Used(h) : j \in Nat /\ j < h.n
  BY <1>1 DEF Used
<1>3. \A a \in KeysOf(h) : a \in KeysOf(s)
  BY <1>2, KeyTaken DEF Trails
<1>4. \A a \in Key, b \in Value : Has(s, a, b) => Has(h, a, b)
  BY DEF Trails
<1>5. KeysOf(h) \subseteq Key /\ KeysOf(s) \subseteq Key
  BY KeyCount
<1>6. ASSUME NEW a \in Key, NEW b \in Value, Has(h, a, b) PROVE Has(s, a, b)
  <2>1. a \in KeysOf(h)
    BY <1>6, HasOne
  <2>2. PICK c \in Value : Has(s, a, c)
    BY <1>3, <2>1, HasOne
  <2>3. Has(h, a, c)
    BY <1>4, <2>2
  <2>4. b = c
    BY <1>6, <2>3, HasOne
  <2>5. QED
    BY <2>2, <2>4
<1>7. \A a \in KeysOf(s) : a \in KeysOf(h)
  <2>1. SUFFICES ASSUME NEW a \in KeysOf(s) PROVE a \in KeysOf(h)
    OBVIOUS
  <2>2. a \in Key
    BY <1>5
  <2>3. PICK c \in Value : Has(s, a, c)
    BY <2>2, HasOne
  <2>4. QED
    BY <1>4, <2>2, <2>3, HasOne
<1>8. KeysOf(s) = KeysOf(h)
  BY <1>3, <1>7
<1>9. Cardinality(Used(s)) = Cardinality(Used(h))
  BY <1>8, KeyCount
<1>10. s.size = h.size
  BY <1>9 DEF Sound
<1>11. Coming(h, s, h.n) = {}
  BY <1>1, <1>2 DEF Coming
<1>12. QED
  BY <1>4, <1>6, <1>10, <1>11 DEF SameBook

\* What resize leaves: the batch is in the shadow, or the shadow the table.
Advanced(m, u, r) == u.position # 0 /\ u.h = m.h /\ Running(u, r + 1, 1)
Finished(m, u, r) ==
  /\ u.position = 0 /\ u.h.n = m.shadow.n
  /\ Cardinality(Marked(u.h)) <= Load(m.h, m.shadow, m.position)

LEMMA ResizeIs ==
  ASSUME NEW m, IsMap(m), NEW r, Running(m, r, 0), NEW u, u = Resize(m)
  PROVE  /\ IsMap(u) /\ SameBook(u.h, m.h) /\ u.h.n >= m.h.n
         /\ Advanced(m, u, r) \/ Finished(m, u, r)
<1>0. /\ m = [h |-> m.h, shadow |-> m.shadow, position |-> m.position, batch |-> m.batch,
              prime |-> m.prime, failed |-> FALSE]
      /\ m.prime \in DOMAIN PrimeList /\ m.position \in Nat /\ Sound(m.h)
  BY DEF IsMap
<1>1. PICK h, s, p, b, q, n, R : h = m.h /\ s = m.shadow /\ p = m.position /\ b = m.batch /\ q = m.prime
                                 /\ n = s.n /\ R = Batches(m)
  BY Zenon
<1>2. /\ b \in Nat /\ b >= MinBatch /\ r \in Nat /\ p = r * b /\ p < h.n /\ n >= h.n
      /\ Good(h, s, n, p, Limit(n) + r - R - 0)
      /\ Cardinality(Marked(h)) + 0 <= Limit(h.n) + 1 + r
  BY <1>1 DEF Running
<1>3. m = [h |-> h, shadow |-> s, position |-> p, batch |-> b, prime |-> q, failed |-> FALSE]
  BY <1>0, <1>1, Zenon
<1>4. Sound(h) /\ Sound(s) /\ p \in Nat
  BY <1>0, <1>1, <1>2 DEF Good
<1>5. h.n \in Nat /\ h.n > 2 /\ n \in Nat /\ n > 2 /\ MinBatch \in Nat \ {0}
  BY <1>1, <1>4, SizesFit, MapAssumption DEF Sound
<1>6. Limit(n) \in Nat /\ Limit(n) < n /\ R \in Nat /\ r <= R /\ Limit(h.n) \in Nat
  <2>1. b \in Nat \ {0} /\ h.n \in Nat \ {0} /\ r * b < h.n
    BY <1>2, <1>5
  <2>2. r <= (h.n - 1) \div b
    BY <1>2, <2>1, FewBatches
  <2>3. R = (h.n - 1) \div b
    BY <1>1 DEF Batches
  <2>4. R \in Nat
    <3>1. PICK x : x = h.n - 1
      BY Zenon
    <3>2. x \in Nat
      BY <1>5, <3>1
    <3>3. x \div b \in Nat
      BY <2>1, <3>2, Remainder
    <3>4. QED
      BY <2>3, <3>1, <3>3
  <2>5. QED
    BY <1>5, <2>2, <2>3, <2>4, LimitIs
<1>7. PICK f : f = Load(h, s, p)
  BY Zenon
<1>8. f \in Nat /\ f <= Limit(n) + r - R /\ f < n
  <2>1. Cardinality(Marked(s)) \in Nat /\ Cardinality(Coming(h, s, p)) \in Nat
    BY <1>1, <1>4, <1>5, TableParts, ComingIs DEF Sound
  <2>2. f \in Nat
    BY <1>7, <2>1 DEF Load
  <2>3. f <= Limit(n) + r - R - 0
    BY <1>2, <1>7 DEF Good
  <2>4. QED
    BY <1>2, <1>5, <1>6, <2>2, <2>3
<1>9. Good(h, s, n, p, f)
  BY <1>2, <1>7, <1>8 DEF Good
<1>10. PICK e : e = IF p + b < h.n THEN p + b ELSE h.n
  BY Zenon
<1>11. e \in p .. h.n
  BY <1>2, <1>4, <1>5, <1>10
<1>12. PICK w : w = Moved(m, e)
  BY Zenon
<1>13. Good(h, w, n, e, f)
  BY <1>1, <1>4, <1>8, <1>9, <1>11, <1>12, MovedGood
<1>14. CASE e < h.n
  <2>1. e = p + b
    BY <1>10, <1>14
  <2>2. u = [m EXCEPT !.shadow = w, !.position = e]
    BY <1>1, <1>10, <1>12, <1>14 DEF Resize
  <2>3. u = [h |-> h, shadow |-> w, position |-> e, batch |-> b, prime |-> q, failed |-> FALSE]
    BY <1>3, <2>2
  <2>4. u.h = h /\ u.shadow = w /\ u.position = e /\ u.batch = b /\ u.prime = q /\ u.failed = FALSE
    BY <2>3
  <2>5. e # 0 /\ e \in Nat /\ e = (r + 1) * b /\ r + 1 \in Nat
    BY <1>2, <1>4, <1>5, <2>1
  <2>6. IsMap(u)
    BY <1>0, <1>1, <2>3, <2>4, <2>5 DEF IsMap
  <2>7. w.n = n /\ Batches(u) = R
    BY <1>1, <1>13, <2>4 DEF Good, Batches
  <2>8. Good(h, w, n, e, Limit(n) + (r + 1) - R - 1)
    <3>1. Limit(n) + (r + 1) - R - 1 = Limit(n) + r - R
      BY <1>2, <1>6
    <3>2. Load(h, w, e) <= f
      BY <1>13 DEF Good
    <3>3. Load(h, w, e) \in Nat
      <4>1. Sound(w)
        BY <1>13 DEF Good
      <4>2. Cardinality(Marked(w)) \in Nat /\ Cardinality(Coming(h, w, e)) \in Nat
        BY <1>4, <1>5, <2>7, <4>1, TableParts, ComingIs DEF Sound
      <4>3. QED
        BY <4>2 DEF Load
    <3>4. Load(h, w, e) <= Limit(n) + r - R
      BY <1>2, <1>6, <1>8, <3>2, <3>3
    <3>5. QED
      BY <1>13, <3>1, <3>4 DEF Good
  <2>9. Cardinality(Marked(h)) + 1 <= Limit(h.n) + 1 + (r + 1)
    <3>1. Cardinality(Marked(h)) \in Nat
      BY <1>4, <1>5, TableParts DEF Sound
    <3>2. QED
      BY <1>2, <1>6, <3>1
  <2>10. Running(u, r + 1, 1)
    BY <1>2, <1>14, <2>4, <2>5, <2>7, <2>8, <2>9 DEF Running
  <2>11. SameBook(u.h, m.h) /\ u.h.n >= m.h.n
    BY <1>1, <1>5, <2>4 DEF SameBook
  <2>12. QED
    BY <1>1, <2>4, <2>5, <2>6, <2>10, <2>11 DEF Advanced
<1>15. CASE ~(e < h.n)
  <2>1. e = h.n
    BY <1>5, <1>11, <1>15
  <2>2. u = [m EXCEPT !.h = w, !.shadow = NoTable, !.position = 0, !.failed = FALSE \/ w.size # h.size]
    BY <1>1, <1>3, <1>10, <1>12, <1>15 DEF Resize
  <2>3. Sound(w) /\ w.n = n /\ Trails(h, w, h.n) /\ Load(h, w, h.n) <= f
    BY <1>13, <2>1 DEF Good
  <2>4. SameBook(w, h) /\ w.size = h.size /\ Coming(h, w, h.n) = {}
    BY <1>4, <2>3, AllMoved
  <2>5. u = [h |-> w, shadow |-> NoTable, position |-> 0, batch |-> b, prime |-> q, failed |-> FALSE]
    BY <1>3, <2>2, <2>4
  <2>6. u.h = w /\ u.shadow = NoTable /\ u.position = 0 /\ u.batch = b /\ u.prime = q /\ u.failed = FALSE
    BY <2>5
  <2>7. IsMap(u)
    BY <1>0, <1>1, <2>3, <2>5, <2>6 DEF IsMap
  <2>8. Cardinality(Marked(w)) <= f
    <3>1. Cardinality(Marked(w)) \in Nat
      BY <1>5, <2>3, TableParts DEF Sound
    <3>2. Cardinality(Coming(h, w, h.n)) = 0
      BY <2>4, FS_EmptySet
    <3>3. QED
      BY <2>3, <3>1, <3>2 DEF Load
  <2>9. QED
    BY <1>1, <1>2, <1>7, <2>3, <2>4, <2>6, <2>7, <2>8 DEF Finished
<1>16. QED
  BY <1>14, <1>15

-----------------------------------------------------------------------------
(* The room in the tables. *)

\* What Running says of the tables, in numbers.
LEMMA RunningIs ==
  ASSUME NEW m, IsMap(m), NEW r, NEW x \in {0, 1}, Running(m, r, x),
         NEW h, NEW s, h = m.h, s = m.shadow
  PROVE  /\ Sound(h) /\ Sound(s) /\ Exact(s) /\ r \in Nat /\ Batches(m) \in Nat /\ r <= Batches(m)
         /\ h.n \in Nat /\ s.n \in Nat /\ s.n >= h.n /\ Limit(s.n) \in Nat /\ Limit(h.n) \in Nat
         /\ Batches(m) <= (h.n - 1) \div MinBatch
         /\ Cardinality(Marked(s)) \in Nat /\ Cardinality(Marked(h)) \in Nat
         /\ Load(h, s, m.position) \in Nat /\ Cardinality(Marked(s)) <= Load(h, s, m.position)
         /\ Load(h, s, m.position) + Batches(m) + x <= Limit(s.n) + r
         /\ Cardinality(Marked(h)) + x <= Limit(h.n) + 1 + r
<1>1. PICK b, p, R, c : b = m.batch /\ p = m.position /\ R = Batches(m) /\ c = h.n - 1
  BY Zenon
<1>2. /\ b \in Nat /\ b >= MinBatch /\ r \in Nat /\ p = r * b /\ p < h.n /\ s.n >= h.n
      /\ Good(h, s, s.n, p, Limit(s.n) + r - R - x)
      /\ Cardinality(Marked(h)) + x <= Limit(h.n) + 1 + r
  BY <1>1 DEF Running
<1>3. Sound(h) /\ Sound(s) /\ Exact(s) /\ Load(h, s, p) <= Limit(s.n) + r - R - x
  BY <1>2 DEF Good, IsMap
<1>4. h.n \in Nat /\ s.n \in Nat /\ h.n > 2 /\ MinBatch \in Nat \ {0}
  BY <1>3, SizesFit, MapAssumption DEF Sound
<1>5. b \in Nat \ {0} /\ c \in Nat /\ h.n \in Nat \ {0} /\ r * b < h.n
  BY <1>1, <1>2, <1>4
<1>6. R = c \div b
  BY <1>1 DEF Batches
<1>7. R \in Nat /\ R <= c \div MinBatch /\ r <= R
  <2>1. r <= (h.n - 1) \div b
    BY <1>2, <1>5, FewBatches
  <2>2. R \in Nat
    BY <1>5, <1>6, Remainder
  <2>3. R <= c \div MinBatch
    BY <1>2, <1>4, <1>5, <1>6, Larger
  <2>4. QED
    BY <1>1, <1>6, <2>1, <2>2, <2>3
<1>8. Cardinality(Marked(s)) \in Nat /\ Cardinality(Marked(h)) \in Nat /\ Cardinality(Coming(h, s, p)) \in Nat
  BY <1>3, <1>4, TableParts, ComingIs DEF Sound
<1>9. Load(h, s, p) \in Nat /\ Cardinality(Marked(s)) <= Load(h, s, p)
  BY <1>8 DEF Load
<1>10. Limit(s.n) \in Nat /\ Limit(h.n) \in Nat
  BY <1>4, LimitIs
<1>11. Load(h, s, p) + R + x <= Limit(s.n) + r
  BY <1>2, <1>3, <1>7, <1>9, <1>10
<1>12. QED
  BY <1>1, <1>2, <1>3, <1>4, <1>7, <1>8, <1>9, <1>10, <1>11

\* Some slot of the table, and of the shadow, is not marked.
LEMMA SlotLeft ==
  ASSUME NEW m, NEW x \in {0, 1}, MapFits(m, x)
  PROVE  /\ Cardinality(Marked(m.h)) < m.h.n /\ Sound(m.h) /\ m.h.n \in Nat
         /\ m.position # 0 => /\ Cardinality(Marked(m.shadow)) < m.shadow.n /\ Sound(m.shadow)
                              /\ m.h.n > MinBatch /\ m.shadow.n \in Nat
<1>1. IsMap(m) /\ Sound(m.h) /\ m.position \in Nat
  BY DEF MapFits, IsMap
<1>2. PICK n, c : n = m.h.n /\ c = Cardinality(Marked(m.h))
  BY Zenon
<1>3. n \in Primes /\ n \in Nat /\ n > 2 /\ c \in Nat /\ MinBatch \in Nat \ {0}
  BY <1>1, <1>2, SizesFit, TableParts, MapAssumption DEF Sound
<1>4. /\ Fill(n) \in Nat /\ Fill(n) < n
      /\ n > MinBatch => Limit(n) + 1 + ((n - 1) \div MinBatch) < n
  BY <1>3, Spare
<1>5. CASE m.position = 0
  <2>1. c + x <= Fill(n)
    BY <1>2, <1>5 DEF MapFits
  <2>2. QED
    BY <1>1, <1>2, <1>3, <1>4, <1>5, <2>1
<1>6. CASE m.position # 0
  <2>1. PICK r \in Nat : Running(m, r, x)
    BY <1>6 DEF MapFits, Moving
  <2>2. PICK s, q, R, f : s = m.shadow /\ q = (n - 1) \div MinBatch /\ R = Batches(m)
                          /\ f = Load(m.h, s, m.position)
    BY Zenon
  <2>3. /\ Sound(s) /\ R \in Nat /\ r <= R /\ s.n \in Nat /\ R <= q
        /\ Cardinality(Marked(s)) \in Nat /\ f \in Nat /\ Cardinality(Marked(s)) <= f
        /\ f + R + x <= Limit(s.n) + r /\ Limit(s.n) \in Nat /\ Limit(n) \in Nat
        /\ c + x <= Limit(n) + 1 + r
    BY <1>1, <1>2, <2>1, <2>2, RunningIs
  <2>4. m.batch \in Nat /\ m.batch >= MinBatch /\ m.position = r * m.batch /\ m.position < n
    BY <1>2, <2>1 DEF Running
  <2>5. n > MinBatch
    <3>1. r >= 1
      <4>1. SUFFICES ASSUME r = 0 PROVE FALSE
        BY <2>1
      <4>2. m.position = 0
        BY <2>4, <4>1
      <4>3. QED
        BY <1>6, <4>2
    <3>2. m.batch <= r * m.batch
      BY <2>4, <3>1
    <3>3. QED
      BY <1>1, <1>3, <2>4, <3>2
  <2>6. q \in Int
    BY <1>3, <2>2
  <2>7. c < n
    BY <1>3, <1>4, <2>1, <2>2, <2>3, <2>5, <2>6
  <2>8. Limit(s.n) < s.n
    BY <2>3, SizesFit, LimitIs DEF Sound
  <2>9. Cardinality(Marked(s)) < s.n
    BY <2>1, <2>3, <2>8
  <2>10. QED
    BY <1>1, <1>2, <1>3, <1>6, <2>2, <2>3, <2>5, <2>7, <2>9
<1>7. QED
  BY <1>5, <1>6

LEMMA FitsLess ==
  ASSUME NEW m, MapFits(m, 1)
  PROVE  MapFits(m, 0)
<1>1. IsMap(m) /\ Sound(m.h) /\ m.position \in Nat
  BY DEF MapFits, IsMap
<1>2. PICK n, c, o, z : n = m.h.n /\ c = Cardinality(Marked(m.h)) /\ o = 1 /\ z = 0
  BY Zenon
<1>3. n \in Primes /\ c \in Nat /\ Fill(n) \in Nat /\ o \in {0, 1}
  BY <1>1, <1>2, SizesFit, TableParts, Spare DEF Sound
<1>4. ASSUME m.position = 0 PROVE c + z <= Fill(n)
  <2>1. c + 1 <= Fill(n)
    BY <1>2, <1>4 DEF MapFits
  <2>2. QED
    BY <1>2, <1>3, <2>1
<1>5. ASSUME m.position # 0 PROVE Moving(m, z)
  <2>1. PICK r \in Nat : Running(m, r, o)
    BY <1>2, <1>5 DEF MapFits, Moving
  <2>2. PICK h, s, R, f : h = m.h /\ s = m.shadow /\ R = Batches(m) /\ f = Load(h, s, m.position)
    BY Zenon
  <2>3. /\ R \in Nat /\ f \in Nat /\ f + R + o <= Limit(s.n) + r /\ Limit(s.n) \in Nat
        /\ c + o <= Limit(n) + 1 + r /\ Limit(n) \in Nat
    BY <1>1, <1>2, <1>3, <2>1, <2>2, RunningIs
  <2>4. f <= Limit(s.n) + r - R - z /\ c + z <= Limit(n) + 1 + r
    BY <1>2, <1>3, <2>1, <2>3
  <2>5. Good(h, s, s.n, m.position, Limit(s.n) + r - R - z)
    <3>1. Good(h, s, s.n, m.position, Limit(s.n) + r - R - o)
      BY <2>1, <2>2 DEF Running
    <3>2. QED
      BY <2>2, <2>4, <3>1 DEF Good
  <2>6. Running(m, r, z)
    BY <1>2, <2>1, <2>2, <2>4, <2>5 DEF Running
  <2>7. QED
    BY <2>6 DEF Moving
<1>6. QED
  BY <1>1, <1>2, <1>4, <1>5 DEF MapFits

\* What a call that resizes leaves of the map m.
Resized(m, u) == MapFits(u, 1) /\ SameBook(u.h, m.h) /\ u.h.n >= m.h.n

\* The next batch makes room for one more key.
LEMMA StepFits ==
  ASSUME NEW m, MapFits(m, 0), m.position # 0, NEW u, u = Resize(m)
  PROVE  Resized(m, u)
<1>1. IsMap(m) /\ m.h.n > MinBatch /\ m.h.n \in Nat /\ m.shadow.n \in Nat
  <2>1. PICK z : z = 0
    BY Zenon
  <2>2. z \in {0, 1} /\ MapFits(m, z)
    BY <2>1
  <2>3. QED
    BY <2>2, SlotLeft DEF MapFits
<1>2. PICK r \in Nat : Running(m, r, 0)
  BY DEF MapFits, Moving
<1>3. /\ IsMap(u) /\ SameBook(u.h, m.h) /\ u.h.n >= m.h.n
      /\ Advanced(m, u, r) \/ Finished(m, u, r)
  BY <1>1, <1>2, ResizeIs
<1>4. CASE Advanced(m, u, r)
  <2>1. u.position # 0 /\ Running(u, r + 1, 1) /\ r + 1 \in Nat
    BY <1>4 DEF Advanced
  <2>2. Moving(u, 1)
    BY <2>1 DEF Moving
  <2>3. QED
    BY <1>3, <2>1, <2>2 DEF MapFits, Resized
<1>5. CASE Finished(m, u, r)
  <2>1. PICK s, R, f, z : s = m.shadow /\ R = Batches(m) /\ f = Load(m.h, s, m.position) /\ z = 0
    BY Zenon
  <2>2. z \in {0, 1} /\ Running(m, r, z)
    BY <1>2, <2>1
  <2>3. /\ r <= R /\ R \in Nat /\ f \in Nat /\ f + R + z <= Limit(s.n) + r /\ Limit(s.n) \in Nat
        /\ s.n >= m.h.n /\ Sound(s)
    BY <1>1, <2>1, <2>2, RunningIs
  <2>4. u.position = 0 /\ u.h.n = s.n /\ Cardinality(Marked(u.h)) <= f
    BY <1>5, <2>1 DEF Finished
  <2>5. Cardinality(Marked(u.h)) \in Nat
    BY <1>3, SizesFit, TableParts DEF IsMap, Sound
  <2>6. Fill(s.n) = Limit(s.n) + 1
    <3>1. MinBatch \in Nat
      BY MapAssumption
    <3>2. s.n \in Primes
      BY <2>3 DEF Sound
    <3>3. s.n > MinBatch
      BY <1>1, <2>1, <2>3, <3>1
    <3>4. QED
      BY <3>2, <3>3, Spare
  <2>7. Cardinality(Marked(u.h)) + 1 <= Fill(u.h.n)
    BY <1>2, <2>1, <2>3, <2>4, <2>5, <2>6
  <2>8. QED
    BY <1>3, <2>4, <2>7 DEF MapFits, Resized
<1>6. QED
  BY <1>3, <1>4, <1>5

-----------------------------------------------------------------------------
(* start_resize and put. *)

\* The table to resize has enough room in its new size.
LEMMA EnoughRoom ==
  ASSUME NEW t, Sound(t), Cardinality(Marked(t)) <= Fill(t.n), NEW s, Enough(t.n, s),
         NEW k, k = Cardinality(Used(t)), NEW q, q = (t.n - 1) \div MinBatch
  PROVE  /\ k \in Nat /\ k + 1 <= Limit(s) /\ k + q <= Limit(s) /\ q \in Nat
         /\ s \in Primes /\ s \in Nat /\ s >= t.n /\ Limit(s) \in Nat /\ Fill(s) >= Limit(s)
<1>1. PICK n, c, i : n = t.n /\ c = Cardinality(Marked(t)) /\ i = Insertions(n)
  BY Zenon
<1>2. n \in Primes /\ n \in Nat /\ MinBatch \in Nat
  BY <1>1, SizesFit, MapAssumption DEF Sound
<1>3. /\ i \in Nat /\ i >= 1 /\ i = 1 + q /\ (n > MinBatch => i >= 2) /\ (n <= MinBatch => q = 0)
  BY <1>1, <1>2, InsertionsAre
<1>4. s \in Primes /\ s >= n /\ (s # n => Limit(n) + i <= Limit(s))
      /\ (s = n => Cardinality(Key) + i <= Limit(s))
  BY <1>1 DEF Enough
<1>5. s \in Nat /\ Limit(s) \in Nat /\ Limit(n) \in Nat /\ q \in Nat
  <2>1. s \in Nat
    BY <1>4, SizesFit
  <2>2. q \in Int
    BY <1>1, <1>2, <1>3
  <2>3. QED
    BY <1>2, <1>3, <2>1, <2>2, LimitIs
<1>6. k \in Nat /\ k <= c /\ k <= Cardinality(Key) /\ c \in Nat /\ Cardinality(Key) \in Nat
  BY <1>1, <1>2, TableParts, KeyCount DEF Sound
<1>7. Fill(s) >= Limit(s)
  BY <1>5 DEF Fill
<1>8. Fill(n) = IF n <= MinBatch THEN Limit(n) ELSE Limit(n) + 1
  BY DEF Fill
<1>9. CASE s = n
  BY <1>1, <1>3, <1>4, <1>5, <1>6, <1>7, <1>9
<1>10. CASE s # n
  <2>1. Limit(n) + i <= Limit(s)
    BY <1>4, <1>10
  <2>2. CASE n <= MinBatch
    <3>1. k <= Limit(n) /\ q = 0
      BY <1>1, <1>2, <1>3, <1>5, <1>6, <1>8, <2>2
    <3>2. QED
      BY <1>1, <1>3, <1>4, <1>5, <1>6, <1>7, <2>1, <3>1
  <2>3. CASE n > MinBatch
    <3>1. k <= Limit(n) + 1 /\ i >= 2
      BY <1>1, <1>2, <1>3, <1>5, <1>6, <1>8, <2>3
    <3>2. QED
      BY <1>1, <1>3, <1>4, <1>5, <1>6, <1>7, <2>1, <3>1
  <2>4. QED
    BY <1>2, <2>2, <2>3
<1>11. QED
  BY <1>9, <1>10

Redone(m, i, c, e) == [m EXCEPT !.prime = i, !.batch = c, !.shadow = e]

LEMMA Prepared ==
  ASSUME NEW m, NEW h, NEW s, NEW z, NEW b, NEW p, NEW f, NEW i, NEW c, NEW e,
         m = [h |-> h, shadow |-> s, position |-> z, batch |-> b, prime |-> p, failed |-> f]
  PROVE  Redone(m, i, c, e) = [h |-> h, shadow |-> e, position |-> z, batch |-> c, prime |-> i, failed |-> f]
<1>1. PICK x : x = [m EXCEPT !.prime = i]
  BY Zenon
<1>2. PICK y : y = [x EXCEPT !.batch = c]
  BY Zenon
<1>3. PICK u : u = [y EXCEPT !.shadow = e]
  BY Zenon
<1>4. x = [h |-> h, shadow |-> s, position |-> z, batch |-> b, prime |-> i, failed |-> f]
  BY <1>1
<1>5. y = [h |-> h, shadow |-> s, position |-> z, batch |-> c, prime |-> i, failed |-> f]
  BY <1>2, <1>4
<1>6. u = [h |-> h, shadow |-> e, position |-> z, batch |-> c, prime |-> i, failed |-> f]
  BY <1>3, <1>5
<1>7. Redone(m, i, c, e) = u
  BY <1>1, <1>2, <1>3, Zenon DEF Redone
<1>8. QED
  BY <1>6, <1>7, Zenon

\* A resize to a size with enough room.
LEMMA FirstBatch ==
  ASSUME NEW m, MapFits(m, 0), m.position = 0, NEW i \in DOMAIN PrimeList, Enough(m.h.n, PrimeList[i]),
         NEW b \in Nat, b >= MinBatch,
         NEW w, w = [h |-> m.h, shadow |-> Empty(PrimeList[i]), position |-> 0, batch |-> b, prime |-> i,
                     failed |-> FALSE],
         NEW u, u = Resize(w)
  PROVE  Resized(m, u)
<1>0. /\ m = [h |-> m.h, shadow |-> m.shadow, position |-> m.position, batch |-> m.batch,
              prime |-> m.prime, failed |-> FALSE]
      /\ Sound(m.h)
  BY DEF MapFits, IsMap
<1>1. PICK h, s, n, e : h = m.h /\ s = PrimeList[i] /\ n = h.n /\ e = Empty(s)
  BY Zenon
<1>2. w = [h |-> h, shadow |-> e, position |-> 0, batch |-> b, prime |-> i, failed |-> FALSE]
  BY <1>1, Zenon
<1>3. w.h = h /\ w.shadow = e /\ w.position = 0 /\ w.batch = b /\ w.prime = i /\ w.failed = FALSE
  BY <1>2
<1>4. PICK k, q : k = Cardinality(Used(h)) /\ q = (n - 1) \div MinBatch
  BY Zenon
<1>5. Cardinality(Marked(h)) + 0 <= Fill(n)
  BY <1>1 DEF MapFits
<1>6. n \in Primes /\ n \in Nat /\ n > 2 /\ MinBatch \in Nat \ {0} /\ Fill(n) \in Nat
      /\ Fill(n) <= Limit(n) + 1 /\ Limit(n) \in Nat /\ Cardinality(Marked(h)) \in Nat
  BY <1>0, <1>1, SizesFit, MapAssumption, Spare, LimitIs, TableParts DEF Sound
<1>7. Cardinality(Marked(h)) <= Fill(n)
  BY <1>5, <1>6
<1>8. /\ k \in Nat /\ k + 1 <= Limit(s) /\ k + q <= Limit(s) /\ q \in Nat
      /\ s \in Primes /\ s \in Nat /\ s >= n /\ Limit(s) \in Nat /\ Fill(s) >= Limit(s)
  BY <1>0, <1>1, <1>4, <1>7, EnoughRoom
<1>9. /\ Sound(e) /\ Exact(e) /\ e.n = s /\ Used(e) = {} /\ KeysOf(e) = {}
      /\ Cardinality(Marked(e)) = 0 /\ \A a \in Key, v \in Value : ~Has(e, a, v)
  BY <1>1, <1>8, EmptyTable
<1>10. Trails(h, e, 0)
  <2>1. \A j \in Used(h) : ~(j < 0)
    BY <1>1, <1>6 DEF Used
  <2>2. QED
    BY <1>9, <2>1 DEF Trails
<1>11. Load(h, e, 0) = k
  <2>1. \A j \in Used(h) : j >= 0
    BY <1>1, <1>6 DEF Used
  <2>2. Coming(h, e, 0) = Used(h)
    BY <1>9, <2>1 DEF Coming
  <2>3. QED
    BY <1>4, <1>8, <1>9, <2>2 DEF Load
<1>12. PICK R, r, z : R = Batches(w) /\ r = 0 /\ z = 0
  BY Zenon
<1>13. R \in Nat /\ R <= q
  <2>1. PICK c : c = n - 1
    BY Zenon
  <2>2. c \in Nat /\ b \in Nat \ {0}
    BY <1>6, <2>1
  <2>3. R = c \div b
    BY <1>1, <1>3, <1>12, <2>1 DEF Batches
  <2>4. R \in Nat
    BY <2>2, <2>3, Remainder
  <2>5. R <= c \div MinBatch
    BY <1>6, <2>2, <2>3, Larger
  <2>6. QED
    BY <1>4, <2>1, <2>4, <2>5
<1>14. Good(h, e, e.n, z, Limit(e.n) + r - R - z)
  <2>1. k <= Limit(s) + r - R - z
    BY <1>8, <1>12, <1>13
  <2>2. Trails(h, e, z) /\ Load(h, e, z) = k
    BY <1>10, <1>11, <1>12
  <2>3. QED
    BY <1>9, <2>1, <2>2 DEF Good
<1>15. Running(w, r, z)
  <2>1. Cardinality(Marked(h)) + z <= Limit(n) + 1 + r
    BY <1>6, <1>7, <1>12
  <2>2. r \in Nat /\ w.position = r * w.batch /\ w.position < n
    BY <1>3, <1>6, <1>12
  <2>3. w.position = z
    BY <1>3, <1>12
  <2>4. QED
    BY <1>1, <1>3, <1>8, <1>9, <1>12, <1>14, <2>1, <2>2, <2>3 DEF Running
<1>16. IsMap(w)
  BY <1>0, <1>1, <1>2, <1>3 DEF IsMap
<1>17. /\ IsMap(u) /\ SameBook(u.h, w.h) /\ u.h.n >= w.h.n
       /\ Advanced(w, u, r) \/ Finished(w, u, r)
  BY <1>12, <1>15, <1>16, ResizeIs
<1>18. CASE Advanced(w, u, r)
  <2>1. u.position # 0 /\ Running(u, r + 1, 1) /\ r + 1 \in Nat
    BY <1>12, <1>18 DEF Advanced
  <2>2. Moving(u, 1)
    BY <2>1 DEF Moving
  <2>3. QED
    BY <1>1, <1>3, <1>17, <2>1, <2>2 DEF MapFits, Resized
<1>19. CASE Finished(w, u, r)
  <2>1. u.position = 0 /\ u.h.n = s /\ Cardinality(Marked(u.h)) <= k
    BY <1>3, <1>9, <1>11, <1>19 DEF Finished
  <2>2. Cardinality(Marked(u.h)) \in Nat
    BY <1>17, SizesFit, TableParts DEF IsMap, Sound
  <2>3. Fill(s) \in Nat
    BY <1>8, Spare
  <2>4. Cardinality(Marked(u.h)) + 1 <= Fill(u.h.n)
    BY <1>8, <2>1, <2>2, <2>3
  <2>5. QED
    BY <1>1, <1>3, <1>17, <2>1, <2>4 DEF MapFits, Resized
<1>20. QED
  BY <1>17, <1>18, <1>19

LEMMA StartIs ==
  ASSUME NEW m, MapFits(m, 0), m.position = 0, NEW k \in Nat, k > m.h.n, NEW c \in Nat,
         NEW u, u = start_resize(m, k, c)
  PROVE  Resized(m, u)
<1>1. /\ Sound(m.h) /\ m.prime \in DOMAIN PrimeList
      /\ m.h.n \in Nat /\ m.h.n \in Primes /\ MinBatch \in Nat
  BY SizesFit, MapAssumption DEF MapFits, IsMap, Sound
<1>2. PICK fit : fit = {j \in m.prime .. Len(PrimeList) : PrimeList[j] >= k}
  BY Zenon
<1>21. PICK i : i = IF fit = {} THEN Len(PrimeList) ELSE First(fit)
  BY Zenon
<1>22. PICK want : want = IF c > 0 THEN c ELSE m.h.n \div (256 * 1024)
  OBVIOUS
<1>23. PICK b : b = IF want < MinBatch THEN MinBatch ELSE want
  BY Zenon
<1>3. PICK w : w = [m EXCEPT !.prime = i, !.batch = b, !.shadow = Empty(PrimeList[i])]
  BY Zenon
<1>4. ~(m.position > 0 \/ k < m.h.n)
  BY <1>1
<1>5. u = Resize(w)
  <2>1. start_resize(m, k, c) =
          IF m.position > 0 \/ k < m.h.n THEN m
          ELSE Resize([m EXCEPT !.prime = i, !.batch = IF want < MinBatch THEN MinBatch ELSE want,
                                !.shadow = Empty(PrimeList[i])])
    BY <1>2, <1>21, <1>22, SMTT(20) DEF start_resize
  <2>2. QED
    BY <1>23, <1>3, <1>4, <2>1, Zenon
<1>51. w = [h |-> m.h, shadow |-> Empty(PrimeList[i]), position |-> 0, batch |-> b, prime |-> i,
            failed |-> FALSE]
  <2>1. m = [h |-> m.h, shadow |-> m.shadow, position |-> m.position, batch |-> m.batch,
             prime |-> m.prime, failed |-> FALSE]
    BY DEF MapFits, IsMap
  <2>2. m = [h |-> m.h, shadow |-> m.shadow, position |-> 0, batch |-> m.batch,
             prime |-> m.prime, failed |-> FALSE]
    BY <2>1, Zenon
  <2>3. PICK a, c1, p, h, z, f : a = m.shadow /\ c1 = m.batch /\ p = m.prime /\ h = m.h /\ z = 0 /\ f = FALSE
    BY Zenon
  <2>4. m = [h |-> h, shadow |-> a, position |-> z, batch |-> c1, prime |-> p, failed |-> f]
    BY <2>2, <2>3, Zenon
  <2>5. PICK e : e = Empty(PrimeList[i])
    BY Zenon
  <2>6. Redone(m, i, b, e) =
            [h |-> h, shadow |-> e, position |-> z, batch |-> b, prime |-> i, failed |-> f]
    BY <2>4, Prepared
  <2>7. w = Redone(m, i, b, e)
    BY <1>3, <2>5, Zenon DEF Redone
  <2>8. QED
    BY <2>3, <2>5, <2>6, <2>7, Zenon
<1>6. i \in DOMAIN PrimeList /\ Enough(m.h.n, PrimeList[i])
  BY <1>1, <1>2, <1>21, SizePicked
<1>7. b \in Nat /\ b >= MinBatch
  <2>1. m.h.n \div (256 * 1024) \in Nat
    BY <1>1
  <2>2. want \in Nat
    BY <1>22, <2>1
  <2>3. QED
    BY <1>1, <1>23, <2>2
<1>8. QED
  BY <1>5, <1>51, <1>6, <1>7, FirstBatch

\* A key put into both tables.
LEMMA StoreBoth ==
  ASSUME NEW h, Sound(h), NEW s, Sound(s), Cardinality(Marked(h)) < h.n, Cardinality(Marked(s)) < s.n,
         NEW p \in Nat, Trails(h, s, p), NEW k \in Key, NEW v \in Value,
         NEW g, g = Store(h, k, v), NEW t, t = Store(s, k, v)
  PROVE  Trails(g, t, p) /\ Load(g, t, p) <= Load(h, s, p) + 1
<1>1. Stored(h, g, k, v) /\ Stored(s, t, k, v)
  BY StoreIs
<1>2. PICK x : StoredAt(h, g, k, v, x)
  BY StoreIs
<1>3. /\ g.n = h.n /\ x \in 0 .. h.n - 1 /\ g.slots[x].node = <<k, v>>
      /\ \A i \in 0 .. h.n - 1 : i # x => g.slots[i].node = h.slots[i].node
      /\ Used(g) = Used(h) \cup {x}
  BY <1>2 DEF StoredAt, Kept
<1>4. h.n \in Nat /\ s.n \in Nat /\ Sound(t) /\ Sound(g) /\ t.n = s.n
  BY <1>1, SizesFit DEF Sound, Stored
<1>5. KeyAt(g, x) = k
  BY <1>3 DEF KeyAt
<1>6. \A j \in Used(g) : j # x => j \in Used(h) /\ KeyAt(g, j) = KeyAt(h, j)
  <2>1. \A j \in Used(h) : j \in 0 .. h.n - 1
    BY DEF Used
  <2>2. QED
    BY <1>3, <2>1 DEF KeyAt
<1>7. KeysOf(t) = KeysOf(s) \cup {k}
  BY <1>1 DEF Stored
<1>8. \A a \in Key, b \in Value : Has(t, a, b) => Has(g, a, b)
  <2>1. \A a \in Key, b \in Value : Has(s, a, b) => Has(h, a, b)
    BY DEF Trails
  <2>2. \A a \in Key, b \in Value : Has(t, a, b) <=> IF a = k THEN b = v ELSE Has(s, a, b)
    BY <1>1 DEF Stored
  <2>3. \A a \in Key, b \in Value : Has(g, a, b) <=> IF a = k THEN b = v ELSE Has(h, a, b)
    BY <1>1 DEF Stored
  <2>4. QED
    BY <2>1, <2>2, <2>3
<1>9. \A j \in Used(g) : j < p => KeyAt(g, j) \in KeysOf(t)
  <2>1. SUFFICES ASSUME NEW j \in Used(g), j < p PROVE KeyAt(g, j) \in KeysOf(t)
    OBVIOUS
  <2>2. CASE j = x
    BY <1>5, <1>7, <2>2
  <2>3. CASE j # x
    BY <1>6, <1>7, <2>1, <2>3 DEF Trails
  <2>4. QED
    BY <2>2, <2>3
<1>10. Coming(g, t, p) \subseteq Coming(h, s, p)
  <2>1. SUFFICES ASSUME NEW j \in Coming(g, t, p) PROVE j \in Coming(h, s, p)
    OBVIOUS
  <2>2. j \in Used(g) /\ j >= p /\ KeyAt(g, j) \notin KeysOf(t)
    BY DEF Coming
  <2>3. j # x
    BY <1>5, <1>7, <2>2
  <2>4. QED
    BY <1>6, <1>7, <2>2, <2>3 DEF Coming
<1>11. PICK a, b, c, d : a = Cardinality(Marked(s)) /\ b = Cardinality(Coming(h, s, p))
                         /\ c = Cardinality(Marked(t)) /\ d = Cardinality(Coming(g, t, p))
  BY Zenon
<1>12. a \in Nat /\ b \in Nat /\ c \in Nat /\ d \in Nat
  BY <1>4, <1>11, TableParts, ComingIs DEF Sound
<1>13. d <= b
  BY <1>10, <1>11, ComingIs, FS_Subset
<1>14. c <= a + 1
  BY <1>1, <1>11 DEF Stored
<1>15. Load(g, t, p) <= Load(h, s, p) + 1
  BY <1>11, <1>12, <1>13, <1>14 DEF Load
<1>16. QED
  BY <1>8, <1>9, <1>15 DEF Trails

\* The store of a put, in a map with room for one more key.
Put2(m, k, v) ==
  IF m.position = 0 THEN [m EXCEPT !.h = Store(@, k, v)]
  ELSE [[m EXCEPT !.shadow = Store(@, k, v),
                  !.failed = @ \/ m.shadow.n_dirty >= upper_bound(m.shadow)] EXCEPT !.h = Store(@, k, v)]

LEMMA Put2Is ==
  ASSUME NEW m, MapFits(m, 1), NEW k \in Key, NEW v \in Value, NEW u, u = Put2(m, k, v)
  PROVE  MapFits(u, 0) /\ Stored(m.h, u.h, k, v)
<1>0. /\ m = [h |-> m.h, shadow |-> m.shadow, position |-> m.position, batch |-> m.batch,
              prime |-> m.prime, failed |-> FALSE]
      /\ Sound(m.h) /\ m.prime \in DOMAIN PrimeList /\ m.position \in Nat
  BY DEF MapFits, IsMap
<1>1. PICK h, s, p, b, q, g, o : h = m.h /\ s = m.shadow /\ p = m.position /\ b = m.batch /\ q = m.prime
                                 /\ g = Store(h, k, v) /\ o = 1
  BY Zenon
<1>2. m = [h |-> h, shadow |-> s, position |-> p, batch |-> b, prime |-> q, failed |-> FALSE]
  BY <1>0, <1>1, Zenon
<1>3. Sound(h) /\ q \in DOMAIN PrimeList /\ p \in Nat
  BY <1>0, <1>1
<1>4. o \in {0, 1} /\ MapFits(m, o)
  BY <1>1
<1>5. Cardinality(Marked(h)) < h.n /\ h.n \in Nat
  BY <1>1, <1>4, SlotLeft
<1>6. Stored(h, g, k, v)
  BY <1>1, <1>3, <1>5, StoreIs
<1>7. Sound(g) /\ g.n = h.n /\ Cardinality(Marked(g)) <= Cardinality(Marked(h)) + 1
  BY <1>6 DEF Stored
<1>8. Cardinality(Marked(h)) \in Nat /\ Cardinality(Marked(g)) \in Nat
  BY <1>3, <1>5, <1>7, TableParts DEF Sound
<1>9. CASE p = 0
  <2>1. u = [m EXCEPT !.h = g]
    BY <1>1, <1>9, Zenon DEF Put2
  <2>2. u = [h |-> g, shadow |-> s, position |-> p, batch |-> b, prime |-> q, failed |-> FALSE]
    BY <1>2, <2>1
  <2>3. u.h = g /\ u.position = p /\ u.shadow = s /\ u.batch = b /\ u.prime = q
    BY <2>2
  <2>4. IsMap(u)
    BY <1>3, <1>7, <2>2, <2>3 DEF IsMap
  <2>5. Cardinality(Marked(g)) + 0 <= Fill(g.n)
    <3>1. Cardinality(Marked(h)) + 1 <= Fill(h.n)
      BY <1>1, <1>9 DEF MapFits
    <3>2. Fill(h.n) \in Nat
      BY <1>3, Spare DEF Sound
    <3>3. QED
      BY <1>7, <1>8, <3>1, <3>2
  <2>6. QED
    BY <1>1, <1>6, <1>9, <2>3, <2>4, <2>5 DEF MapFits
<1>10. CASE p # 0
  <2>1. Cardinality(Marked(s)) < s.n /\ Sound(s)
    BY <1>1, <1>4, <1>10, SlotLeft
  <2>2. PICK r \in Nat : Running(m, r, o)
    BY <1>1, <1>4, <1>10 DEF MapFits, Moving
  <2>3. PICK R, f, z : R = Batches(m) /\ f = Load(h, s, p) /\ z = 0
    BY Zenon
  <2>4. IsMap(m)
    BY DEF MapFits
  <2>5. /\ Exact(s) /\ R \in Nat /\ r <= R /\ s.n \in Nat /\ Limit(s.n) \in Nat /\ Limit(h.n) \in Nat
        /\ Cardinality(Marked(s)) \in Nat /\ f \in Nat /\ Cardinality(Marked(s)) <= f
        /\ f + R + o <= Limit(s.n) + r
        /\ Cardinality(Marked(h)) + o <= Limit(h.n) + 1 + r
    BY <1>1, <1>4, <2>2, <2>3, <2>4, RunningIs
  <2>6. ~(s.n_dirty >= upper_bound(s))
    <3>1. s.n_dirty = Cardinality(Marked(s)) /\ upper_bound(s) = Limit(s.n)
      BY <2>5 DEF Exact, upper_bound, Limit
    <3>2. QED
      BY <1>1, <2>2, <2>5, <3>1
  <2>7. PICK t : t = Store(s, k, v)
    BY Zenon
  <2>8. PICK w : w = [m EXCEPT !.shadow = t, !.failed = FALSE \/ s.n_dirty >= upper_bound(s)]
    BY Zenon
  <2>9. m.failed = FALSE
    BY <1>2
  <2>10. Put2(m, k, v) = [w EXCEPT !.h = Store(@, k, v)]
    BY <1>1, <1>10, <2>7, <2>8, <2>9, Zenon DEF Put2
  <2>11. w = [h |-> h, shadow |-> t, position |-> p, batch |-> b, prime |-> q, failed |-> FALSE]
    BY <1>2, <2>6, <2>8
  <2>12. w.h = h
    BY <2>11
  <2>13. u = [w EXCEPT !.h = g]
    BY <1>1, <2>10, <2>12, Zenon
  <2>14. u = [h |-> g, shadow |-> t, position |-> p, batch |-> b, prime |-> q, failed |-> FALSE]
    BY <2>11, <2>13
  <2>15. u.h = g /\ u.position = p /\ u.shadow = t /\ u.batch = b /\ u.prime = q
    BY <2>14
  <2>16. IsMap(u)
    BY <1>3, <1>7, <2>14, <2>15 DEF IsMap
  <2>17. Stored(s, t, k, v)
    BY <2>1, <2>7, StoreIs
  <2>18. Sound(t) /\ t.n = s.n /\ Exact(t)
    BY <2>5, <2>17 DEF Stored
  <2>19. /\ b \in Nat /\ b >= MinBatch /\ r \in Nat /\ p = r * b /\ p < h.n /\ s.n >= h.n
         /\ Good(h, s, s.n, p, Limit(s.n) + r - R - o)
    BY <1>1, <2>2, <2>3 DEF Running
  <2>20. Trails(g, t, p) /\ Load(g, t, p) <= f + 1
    <3>1. Trails(h, s, p)
      BY <2>19 DEF Good
    <3>2. QED
      BY <1>1, <1>3, <1>5, <2>1, <2>3, <2>7, <3>1, StoreBoth
  <2>21. Load(g, t, p) \in Nat
    <3>1. Cardinality(Marked(t)) \in Nat /\ Cardinality(Coming(g, t, p)) \in Nat
      BY <1>7, <2>5, <2>18, TableParts, ComingIs DEF Sound
    <3>2. QED
      BY <3>1 DEF Load
  <2>22. Load(g, t, p) <= Limit(t.n) + r - R - z
    BY <1>1, <2>2, <2>3, <2>5, <2>18, <2>20, <2>21
  <2>23. Cardinality(Marked(g)) + z <= Limit(g.n) + 1 + r
    BY <1>1, <1>7, <1>8, <2>2, <2>3, <2>5
  <2>24. Batches(u) = R
    BY <1>1, <1>7, <2>3, <2>15 DEF Batches
  <2>25. Good(g, t, t.n, p, Limit(t.n) + r - R - z)
    BY <2>18, <2>20, <2>22 DEF Good
  <2>26. Running(u, r, z)
    BY <1>7, <2>15, <2>18, <2>19, <2>23, <2>24, <2>25 DEF Running
  <2>27. Moving(u, 0)
    BY <2>3, <2>26 DEF Moving
  <2>28. QED
    BY <1>1, <1>6, <1>10, <2>15, <2>16, <2>27 DEF MapFits
<1>11. QED
  BY <1>9, <1>10

LEMMA PutIs ==
  ASSUME NEW m, MapFits(m, 0), NEW k \in Key, NEW v \in Value, NEW u, u = put(m, k, v)
  PROVE  /\ MapFits(u, 0)
         /\ \A a \in Key, b \in Value : Has(u.h, a, b) <=> IF a = k THEN b = v ELSE Has(m.h, a, b)
<1>1. PICK w : w = IF m.position > 0 THEN Resize(m)
                   ELSE IF m.h.n_dirty >= upper_bound(m.h) THEN start_resize(m, m.h.n + 1, 0)
                   ELSE m
  BY Zenon
<1>2. Sound(m.h) /\ m.position \in Nat /\ IsMap(m) /\ m.h.n \in Nat /\ m.h.n \in Primes
      /\ m.h.n_dirty \in Nat /\ Cardinality(Marked(m.h)) \in Nat
      /\ m.h.n_dirty >= Cardinality(Marked(m.h))
  BY SizesFit, TableParts DEF MapFits, IsMap, Sound
<1>3. u = Put2(w, k, v)
  BY <1>1, Zenon DEF put, Put2
<1>4. Resized(m, w)
  <2>1. CASE m.position > 0
    BY <1>1, <2>1, StepFits
  <2>2. CASE m.position = 0 /\ m.h.n_dirty >= upper_bound(m.h)
    <3>1. PICK z, l : z = 0 /\ l = m.h.n + 1
      BY Zenon
    <3>2. z \in Nat /\ l \in Nat /\ l > m.h.n
      BY <1>2, <3>1
    <3>3. w = start_resize(m, l, z)
      BY <1>1, <2>2, <3>1
    <3>4. QED
      BY <2>2, <3>2, <3>3, StartIs
  <2>3. CASE m.position = 0 /\ ~(m.h.n_dirty >= upper_bound(m.h))
    <3>1. w = m
      BY <1>1, <2>3
    <3>2. upper_bound(m.h) = Limit(m.h.n) /\ Limit(m.h.n) \in Nat /\ Limit(m.h.n) <= Fill(m.h.n)
      BY <1>2, LimitIs DEF upper_bound, Limit, Fill
    <3>3. Cardinality(Marked(m.h)) + 1 <= Fill(m.h.n)
      <4>1. Fill(m.h.n) \in Nat
        BY <1>2, Spare
      <4>2. QED
        BY <1>2, <2>3, <3>2, <4>1
    <3>4. QED
      BY <1>2, <2>3, <3>1, <3>3 DEF Resized, MapFits, SameBook
  <2>4. QED
    BY <1>2, <2>1, <2>2, <2>3
<1>5. MapFits(w, 1) /\ SameBook(w.h, m.h)
  BY <1>4 DEF Resized
<1>6. MapFits(u, 0) /\ Stored(w.h, u.h, k, v)
  BY <1>3, <1>5, Put2Is
<1>7. \A a \in Key, b \in Value : Has(u.h, a, b) <=> IF a = k THEN b = v ELSE Has(w.h, a, b)
  BY <1>6 DEF Stored
<1>8. QED
  BY <1>5, <1>6, <1>7 DEF SameBook

-----------------------------------------------------------------------------
(* del. *)

\* A node taken out of the table, t being the shadow without its key.
LEMMA DropBoth ==
  ASSUME NEW h, Sound(h), NEW s, Sound(s), NEW p \in Nat, Trails(h, s, p), NEW x \in Used(h),
         NEW g, Removed(h, g, x), NEW t, Sound(t), KeysOf(t) = KeysOf(s) \ {KeyAt(h, x)},
         \A a \in Key, b \in Value : Has(t, a, b) <=> a # KeyAt(h, x) /\ Has(s, a, b),
         Marked(t) \subseteq Marked(s)
  PROVE  Trails(g, t, p) /\ Load(g, t, p) <= Load(h, s, p) /\ Load(g, t, p) \in Nat
         /\ Load(h, s, p) \in Nat
<1>1. PICK k : k = KeyAt(h, x)
  BY Zenon
<1>2. /\ g.n = h.n /\ Used(g) = Used(h) \ {x} /\ Sound(g)
      /\ \A i \in 0 .. h.n - 1 : i # x => g.slots[i].node = h.slots[i].node
      /\ \A a \in Key, b \in Value : Has(g, a, b) <=> a # k /\ Has(h, a, b)
  BY <1>1 DEF Removed
<1>3. h.n \in Nat /\ s.n \in Nat /\ t.n \in Nat /\ g.n \in Nat
  BY <1>2, SizesFit DEF Sound
<1>4. \A j \in Used(g) : j \in Used(h) /\ KeyAt(g, j) = KeyAt(h, j) /\ KeyAt(g, j) # k
  <2>1. \A j \in Used(h) : j \in 0 .. h.n - 1
    BY DEF Used
  <2>2. \A j \in Used(g) : j \in Used(h) /\ j # x /\ KeyAt(g, j) = KeyAt(h, j)
    BY <1>2, <2>1 DEF KeyAt
  <2>3. \A i \in Used(h), j \in Used(h) : KeyAt(h, i) = KeyAt(h, j) => i = j
    BY DEF Sound
  <2>4. QED
    BY <1>1, <2>2, <2>3
<1>5. KeysOf(t) = KeysOf(s) \ {k} /\ \A a \in Key, b \in Value : Has(t, a, b) <=> a # k /\ Has(s, a, b)
  BY <1>1
<1>6. Trails(g, t, p)
  <2>1. \A a \in Key, b \in Value : Has(t, a, b) => Has(g, a, b)
    BY <1>2, <1>5 DEF Trails
  <2>2. \A j \in Used(g) : j < p => KeyAt(g, j) \in KeysOf(t)
    BY <1>4, <1>5 DEF Trails
  <2>3. QED
    BY <2>1, <2>2 DEF Trails
<1>7. Coming(g, t, p) \subseteq Coming(h, s, p)
  BY <1>4, <1>5 DEF Coming
<1>8. PICK a, b, c, d : a = Cardinality(Marked(s)) /\ b = Cardinality(Coming(h, s, p))
                        /\ c = Cardinality(Marked(t)) /\ d = Cardinality(Coming(g, t, p))
  BY Zenon
<1>9. a \in Nat /\ b \in Nat /\ c \in Nat /\ d \in Nat
  BY <1>2, <1>3, <1>8, TableParts, ComingIs DEF Sound
<1>10. d <= b
  BY <1>7, <1>8, ComingIs, FS_Subset
<1>11. c <= a
  <2>1. IsFiniteSet(Marked(s))
    BY <1>3, TableParts DEF Sound
  <2>2. QED
    BY <1>8, <2>1, FS_Subset
<1>12. QED
  BY <1>6, <1>8, <1>9, <1>10, <1>11 DEF Load

\* What del leaves of the map m.
Deleted(m, u, x) ==
  /\ MapFits(u, 0) /\ u.h.n >= m.h.n
  /\ x \notin Used(m.h) => u = m
  /\ x \in Used(m.h) =>
       \A a \in Key, b \in Value : Has(u.h, a, b) <=> a # KeyAt(m.h, x) /\ Has(m.h, a, b)
  /\ m.position = 0 => u.position = 0 /\ u.h.n = m.h.n
  /\ m.position = 0 => \A i \in 0 .. m.h.n - 1 : i # x => u.h.slots[i].node = m.h.slots[i].node

LEMMA DelIs ==
  ASSUME NEW m, MapFits(m, 0), NEW x \in 0 .. m.h.n, NEW u, u = del(m, x)
  PROVE  Deleted(m, u, x)
<1>0. /\ m = [h |-> m.h, shadow |-> m.shadow, position |-> m.position, batch |-> m.batch,
              prime |-> m.prime, failed |-> FALSE]
      /\ Sound(m.h) /\ m.prime \in DOMAIN PrimeList /\ m.position \in Nat /\ IsMap(m)
  BY DEF MapFits, IsMap
<1>1. PICK h, s, p, b, q, g, z : h = m.h /\ s = m.shadow /\ p = m.position /\ b = m.batch /\ q = m.prime
                                 /\ g = Drop(h, x) /\ z = 0
  BY Zenon
<1>2. m = [h |-> h, shadow |-> s, position |-> p, batch |-> b, prime |-> q, failed |-> FALSE]
  BY <1>0, <1>1, Zenon
<1>3. Sound(h) /\ q \in DOMAIN PrimeList /\ p \in Nat /\ h.n \in Nat /\ h.n \in Primes
  BY <1>0, <1>1, SizesFit DEF Sound
<1>4. z \in {0, 1} /\ MapFits(m, z)
  BY <1>1
<1>5. CASE x \notin Used(h)
  <2>1. x = m.h.n \/ ~exist(m.h, x)
    BY <1>1, <1>3, <1>5 DEF Used
  <2>2. u = m
    BY <2>1, Zenon DEF del
  <2>3. QED
    BY <1>1, <1>3, <1>5, <2>2 DEF Deleted
<1>6. CASE x \in Used(h)
  <2>1. x \in 0 .. h.n - 1 /\ exist(h, x) /\ x # h.n
    BY <1>3, <1>6 DEF Used
  <2>2. Removed(h, g, x)
    BY <1>1, <1>3, <1>6, DropIs
  <2>3. /\ Sound(g) /\ g.n = h.n /\ Marked(g) \subseteq Marked(h) /\ KeyAt(h, x) \in Key
        /\ \A i \in 0 .. h.n - 1 : i # x => g.slots[i].node = h.slots[i].node
        /\ \A a \in Key, v \in Value : Has(g, a, v) <=> a # KeyAt(h, x) /\ Has(h, a, v)
    <3>1. KeyAt(h, x) \in Key
      BY <1>3, <2>1, TableParts DEF Sound
    <3>2. QED
      BY <2>2, <3>1 DEF Removed
  <2>4. /\ Cardinality(Marked(g)) \in Nat /\ Cardinality(Marked(h)) \in Nat
        /\ Cardinality(Marked(g)) <= Cardinality(Marked(h))
    <3>1. Cardinality(Marked(g)) \in Nat /\ Cardinality(Marked(h)) \in Nat /\ IsFiniteSet(Marked(h))
      BY <1>3, <2>3, TableParts DEF Sound
    <3>2. QED
      BY <2>3, <3>1, FS_Subset
  <2>5. PICK l, k, y : l = [m EXCEPT !.h = g] /\ k = KeyAt(h, x) /\ y = find(s, k)
    BY Zenon
  <2>6. l = [h |-> g, shadow |-> s, position |-> p, batch |-> b, prime |-> q, failed |-> FALSE]
    BY <1>2, <2>5
  <2>7. l.h = g /\ l.shadow = s /\ l.position = p /\ l.batch = b /\ l.prime = q
    BY <2>6
  <2>8. del(m, x) = IF p = 0 THEN l
                    ELSE Resize(IF y = s.n THEN l ELSE [l EXCEPT !.shadow = Drop(s, y)])
    <3>1. m.h = h /\ m.shadow = s /\ m.position = p
      BY <1>1
    <3>2. del(m, x) = LET less == [m EXCEPT !.h = Drop(@, x)]
                          w    == find(m.shadow, m.h.slots[x].node[1])
                      IN IF m.position = 0 THEN less
                         ELSE Resize(IF w = m.shadow.n THEN less ELSE [less EXCEPT !.shadow = Drop(@, w)])
      BY <2>1, <3>1, Zenon DEF del
    <3>3. [m EXCEPT !.h = Drop(@, x)] = l
      BY <1>1, <2>5, Zenon
    <3>4. find(m.shadow, m.h.slots[x].node[1]) = y
      BY <1>1, <2>5, Zenon DEF KeyAt
    <3>5. [l EXCEPT !.shadow = Drop(@, y)] = [l EXCEPT !.shadow = Drop(s, y)]
      BY <2>7, Zenon
    <3>6. QED
      BY <3>1, <3>2, <3>3, <3>4, <3>5, Zenon
  <2>9. CASE p = 0
    <3>1. u = l
      BY <2>8, <2>9
    <3>2. IsMap(l)
      BY <1>3, <2>3, <2>6, <2>7 DEF IsMap
    <3>3. Cardinality(Marked(g)) + 0 <= Fill(g.n)
      <4>1. Cardinality(Marked(h)) + 0 <= Fill(h.n)
        BY <1>1, <2>9 DEF MapFits
      <4>2. Fill(h.n) \in Nat
        BY <1>3, Spare
      <4>3. QED
        BY <2>3, <2>4, <4>1, <4>2
    <3>4. MapFits(u, 0)
      BY <2>7, <2>9, <3>1, <3>2, <3>3 DEF MapFits
    <3>5. QED
      BY <1>1, <1>3, <1>6, <2>3, <2>7, <2>9, <3>1, <3>4 DEF Deleted
  <2>10. CASE p # 0
    <3>1. PICK r \in Nat : Running(m, r, z)
      BY <1>1, <1>4, <2>10 DEF MapFits, Moving
    <3>2. PICK R, f : R = Batches(m) /\ f = Load(h, s, p)
      BY Zenon
    <3>3. /\ Sound(s) /\ Exact(s) /\ R \in Nat /\ r <= R /\ s.n \in Nat /\ Limit(s.n) \in Nat
          /\ Limit(h.n) \in Nat /\ f + R + z <= Limit(s.n) + r
          /\ Cardinality(Marked(h)) + z <= Limit(h.n) + 1 + r
      BY <1>0, <1>1, <1>4, <3>1, <3>2, RunningIs
    <3>4. PICK t : t = IF y = s.n THEN s ELSE Drop(s, y)
      BY Zenon
    <3>5. /\ Sound(t) /\ t.n = s.n /\ Exact(t) /\ KeysOf(t) = KeysOf(s) \ {k}
          /\ \A a \in Key, v \in Value : Has(t, a, v) <=> a # k /\ Has(s, a, v)
          /\ Marked(t) \subseteq Marked(s)
      <4>1. CASE k \in KeysOf(s)
        <5>1. y \in Used(s) /\ KeyAt(s, y) = k
          BY <2>3, <2>5, <3>3, <4>1, FindIs
        <5>2. y # s.n
          BY <3>3, <5>1 DEF Used
        <5>3. Removed(s, t, y)
          BY <3>3, <3>4, <5>1, <5>2, DropIs
        <5>4. QED
          BY <3>3, <5>1, <5>3 DEF Removed
      <4>2. CASE k \notin KeysOf(s)
        <5>1. y = s.n
          BY <2>3, <2>5, <3>3, <4>2, FindIs
        <5>2. t = s
          BY <3>4, <5>1
        <5>3. \A v \in Value : ~Has(s, k, v)
          BY <2>3, <2>5, <3>3, <4>2, HasOne
        <5>4. QED
          BY <3>3, <4>2, <5>2, <5>3
      <4>3. QED
        BY <4>1, <4>2
    <3>6. PICK w : w = IF y = s.n THEN l ELSE [l EXCEPT !.shadow = Drop(s, y)]
      BY Zenon
    <3>7. w = [h |-> g, shadow |-> t, position |-> p, batch |-> b, prime |-> q, failed |-> FALSE]
      <4>1. CASE y = s.n
        BY <2>6, <3>4, <3>6, <4>1
      <4>2. CASE y # s.n
        <5>1. w = [l EXCEPT !.shadow = t]
          BY <3>4, <3>6, <4>2
        <5>2. QED
          BY <2>6, <5>1
      <4>3. QED
        BY <4>1, <4>2
    <3>8. w.h = g /\ w.shadow = t /\ w.position = p /\ w.batch = b /\ w.prime = q
      BY <3>7
    <3>9. u = Resize(w)
      BY <2>8, <2>10, <3>6
    <3>10. IsMap(w)
      BY <1>3, <2>3, <3>7, <3>8 DEF IsMap
    <3>11. /\ b \in Nat /\ b >= MinBatch /\ r \in Nat /\ p = r * b /\ p < h.n /\ s.n >= h.n
           /\ Good(h, s, s.n, p, Limit(s.n) + r - R - z)
      BY <1>1, <3>1, <3>2 DEF Running
    <3>12. Trails(h, s, p)
      BY <3>11 DEF Good
    <3>13. Trails(g, t, p) /\ Load(g, t, p) <= f /\ Load(g, t, p) \in Nat /\ f \in Nat
      BY <1>3, <1>6, <2>2, <2>5, <3>2, <3>3, <3>5, <3>12, DropBoth
    <3>14. Load(g, t, p) <= Limit(t.n) + r - R - z
      BY <1>1, <3>1, <3>3, <3>5, <3>13
    <3>15. Good(g, t, t.n, p, Limit(t.n) + r - R - z)
      BY <3>5, <3>13, <3>14 DEF Good
    <3>16. Cardinality(Marked(g)) + z <= Limit(g.n) + 1 + r
      BY <1>1, <2>3, <2>4, <3>1, <3>3
    <3>17. Batches(w) = R
      BY <1>1, <2>3, <3>2, <3>8 DEF Batches
    <3>18. Running(w, r, z)
      BY <2>3, <3>5, <3>8, <3>11, <3>15, <3>16, <3>17 DEF Running
    <3>19. MapFits(w, z)
      BY <2>10, <3>8, <3>10, <3>18 DEF MapFits, Moving
    <3>20. Resized(w, u)
      BY <1>1, <2>10, <3>8, <3>9, <3>19, StepFits
    <3>21. MapFits(u, 0) /\ SameBook(u.h, g) /\ u.h.n >= g.n
      BY <3>8, <3>20, FitsLess DEF Resized
    <3>22. QED
      BY <1>1, <1>6, <2>3, <2>10, <3>21 DEF Deleted, SameBook
  <2>11. QED
    BY <2>9, <2>10
<1>7. QED
  BY <1>5, <1>6

-----------------------------------------------------------------------------
(* clear, reserve, and the callers that delete slot by slot. *)

LEMMA ClearIs ==
  ASSUME NEW m, MapFits(m, 0), m.position = 0, NEW u, u = clear(m)
  PROVE  MapFits(u, 0) /\ \A a \in Key, b \in Value : ~Has(u.h, a, b)
<1>0. /\ m = [h |-> m.h, shadow |-> m.shadow, position |-> m.position, batch |-> m.batch,
              prime |-> m.prime, failed |-> FALSE]
      /\ Sound(m.h) /\ m.prime \in DOMAIN PrimeList
  BY DEF MapFits, IsMap
<1>1. PICK n, d, e : n = PrimeList[m.prime] /\ d = m.h.n_dirty /\ e = Empty(n)
  BY Zenon
<1>2. n \in Primes /\ n \in Nat /\ d \in Nat
  <2>1. n \in Primes
    BY <1>0, <1>1 DEF Primes
  <2>2. QED
    BY <1>0, <1>1, <2>1, SizesFit, TableParts DEF Sound
<1>3. /\ Sound(e) /\ e.n = n /\ Used(e) = {} /\ Marked(e) = {} /\ Cardinality(Marked(e)) = 0
  BY <1>1, <1>2, EmptyTable
<1>4. PICK g : g = [e EXCEPT !.n_dirty = d]
  BY Zenon
<1>5. e \in TableType(n)
  BY <1>3 DEF Sound
<1>6. PICK w, c : w = e.slots /\ c = e.size
  BY Zenon
<1>7. g = [n |-> n, slots |-> w, size |-> c, n_dirty |-> d]
  <2>1. e = [n |-> e.n, slots |-> e.slots, size |-> e.size, n_dirty |-> e.n_dirty]
    BY <1>5 DEF TableType
  <2>2. PICK o : o = e.n_dirty
    BY Zenon
  <2>3. e = [n |-> n, slots |-> w, size |-> c, n_dirty |-> o]
    BY <1>3, <1>6, <2>1, <2>2, Zenon
  <2>4. QED
    BY <1>4, <2>3
<1>8. g.n = n /\ g.slots = w /\ g.size = c /\ g.n_dirty = d
  BY <1>7
<1>9. w \in [0 .. n - 1 -> [node : Pair \cup {Free}, dirty : BOOLEAN]] /\ c \in Nat
  BY <1>5, <1>6 DEF TableType
<1>10. g \in TableType(n)
  BY <1>2, <1>7, <1>9 DEF TableType
<1>11. Used(g) = {} /\ Marked(g) = {}
  <2>1. Used(g) = Used(e)
    BY <1>3, <1>6, <1>8 DEF Used, exist
  <2>2. Marked(g) = Marked(e)
    BY <1>3, <1>6, <1>8 DEF Marked, exist
  <2>3. QED
    BY <1>3, <2>1, <2>2
<1>12. c = Cardinality(Used(g))
  BY <1>3, <1>6, <1>11 DEF Sound
<1>13. Cardinality(Marked(g)) = 0
  BY <1>3, <1>11
<1>14. Sound(g)
  BY <1>2, <1>8, <1>10, <1>11, <1>12, <1>13 DEF Sound
<1>15. u = [h |-> g, shadow |-> NoTable, position |-> 0, batch |-> m.batch, prime |-> 1, failed |-> FALSE]
  <2>1. PICK h, s, b, p, z, o, f : h = m.h /\ s = m.shadow /\ b = m.batch /\ p = m.prime /\ z = 0 /\ o = 1
                                   /\ f = FALSE
    BY Zenon
  <2>2. m = [h |-> h, shadow |-> s, position |-> z, batch |-> b, prime |-> p, failed |-> f]
    BY <1>0, <2>1, Zenon
  <2>3. clear(m) = [m EXCEPT !.h = g, !.prime = o, !.shadow = NoTable]
    BY <1>1, <1>4, <2>1, Zenon DEF clear
  <2>4. PICK x : x = [m EXCEPT !.h = g]
    BY Zenon
  <2>5. PICK y : y = [x EXCEPT !.prime = o]
    BY Zenon
  <2>6. PICK v : v = [y EXCEPT !.shadow = NoTable]
    BY Zenon
  <2>7. x = [h |-> g, shadow |-> s, position |-> z, batch |-> b, prime |-> p, failed |-> f]
    BY <2>2, <2>4
  <2>8. y = [h |-> g, shadow |-> s, position |-> z, batch |-> b, prime |-> o, failed |-> f]
    BY <2>5, <2>7
  <2>9. v = [h |-> g, shadow |-> NoTable, position |-> z, batch |-> b, prime |-> o, failed |-> f]
    BY <2>6, <2>8
  <2>10. u = v
    BY <2>3, <2>4, <2>5, <2>6, Zenon
  <2>11. QED
    BY <2>1, <2>9, <2>10, Zenon
<1>16. u.h = g /\ u.position = 0 /\ u.batch = m.batch /\ u.prime = 1 /\ u.shadow = NoTable
  BY <1>15
<1>17. 1 \in DOMAIN PrimeList
  <2>1. PrimeList \in Seq(Nat) /\ Len(PrimeList) > 0
    BY MapAssumption
  <2>2. QED
    BY <2>1
<1>18. IsMap(u)
  BY <1>14, <1>15, <1>16, <1>17 DEF IsMap
<1>19. Cardinality(Marked(g)) + 0 <= Fill(g.n)
  <2>1. Fill(n) \in Nat
    BY <1>2, Spare
  <2>2. QED
    BY <1>8, <1>13, <2>1
<1>20. QED
  BY <1>11, <1>16, <1>18, <1>19 DEF MapFits, Has

LEMMA ReserveIs ==
  ASSUME NEW m, MapFits(m, 0), NEW size \in Nat, ((size * 10) \div 7) # m.h.n, NEW u, u = reserve(m, size)
  PROVE  MapFits(u, 0) /\ SameBook(u.h, m.h)
<1>1. PICK k, c : k = (size * 10) \div 7 /\ c = m.h.size
  BY Zenon
<1>2. k \in Nat /\ c \in Nat /\ m.h.n \in Nat /\ m.position \in Nat
  <2>1. Sound(m.h) /\ m.position \in Nat
    BY DEF MapFits, IsMap
  <2>2. k \in Nat
    BY <1>1
  <2>3. QED
    BY <1>1, <2>1, <2>2, SizesFit, TableParts DEF Sound
<1>3. u = start_resize(m, k, c)
  BY <1>1, Zenon DEF reserve
<1>4. CASE m.position > 0 \/ k < m.h.n
  <2>1. u = m
    BY <1>3, <1>4, Zenon DEF start_resize
  <2>2. QED
    BY <2>1 DEF SameBook
<1>5. CASE ~(m.position > 0 \/ k < m.h.n)
  <2>1. m.position = 0 /\ k > m.h.n
    BY <1>1, <1>2, <1>5
  <2>2. Resized(m, u)
    BY <1>2, <1>3, <2>1, StartIs
  <2>3. QED
    BY <2>2, FitsLess DEF Resized
<1>6. QED
  BY <1>4, <1>5

\* One round of the callers' loop: slot i - 1 of the table as it was.
Sweep(m, S, i, t) == IF exist(m.h, i - 1) /\ m.h.slots[i - 1].node[1] \in S THEN del(t, i - 1) ELSE t
Sweeps(m, S, f, e) == f[0] = m /\ \A i \in 1 .. e : f[i] = Sweep(m, S, i, f[i - 1])

\* After the slots before i.
Swept(m, S, i, t) ==
  /\ MapFits(t, 0) /\ t.h.n >= m.h.n
  /\ m.position = 0 => t.position = 0 /\ t.h.n = m.h.n
  /\ m.position = 0 => \A j \in 0 .. m.h.n - 1 : j >= i => t.h.slots[j].node = m.h.slots[j].node
  /\ m.position = 0 => \A a \in Key, b \in Value :
       Has(t.h, a, b) <=> Has(m.h, a, b) /\ ~(a \in S /\ \E j \in Used(m.h) : j < i /\ KeyAt(m.h, j) = a)

LEMMA SweepIs ==
  ASSUME NEW m, MapFits(m, 0), NEW S, NEW x \in 0 .. m.h.n - 1, NEW i, i = x + 1, NEW t,
         Swept(m, S, x, t), NEW u, u = Sweep(m, S, i, t)
  PROVE  Swept(m, S, i, u)
<1>0. Sound(m.h) /\ m.h.n \in Nat /\ Sound(t.h) /\ t.h.n \in Nat /\ MapFits(t, 0) /\ t.h.n >= m.h.n
  <2>1. Sound(m.h) /\ Sound(t.h) /\ MapFits(t, 0) /\ t.h.n >= m.h.n
    BY DEF MapFits, IsMap, Swept
  <2>2. QED
    BY <2>1, SizesFit DEF Sound
<1>1. x \in Nat /\ i - 1 = x /\ i \in Nat
  BY <1>0
<1>2. PICK h : h = m.h
  BY Zenon
<1>3. exist(m.h, x) <=> x \in Used(h)
  BY <1>2 DEF Used
<1>4. m.h.slots[x].node[1] = KeyAt(h, x)
  BY <1>2 DEF KeyAt
<1>5. u = IF x \in Used(h) /\ KeyAt(h, x) \in S THEN del(t, x) ELSE t
  BY <1>1, <1>3, <1>4 DEF Sweep
<1>6. \A j \in Used(h) : j \in Nat /\ (j < i <=> j < x \/ j = x)
  <2>1. \A j \in Used(h) : j \in Nat
    BY <1>0, <1>2 DEF Used
  <2>2. QED
    BY <1>1, <2>1
<1>7. \A j \in 0 .. h.n - 1 : j >= i => j >= x /\ j # x
  BY <1>0, <1>1, <1>2
<1>8. ASSUME m.position = 0
      PROVE  /\ t.position = 0 /\ t.h.n = h.n
             /\ \A j \in 0 .. h.n - 1 : j >= x => t.h.slots[j].node = h.slots[j].node
             /\ \A a \in Key, b \in Value :
                  Has(t.h, a, b) <=> Has(h, a, b) /\ ~(a \in S /\ \E j \in Used(h) : j < x /\ KeyAt(h, j) = a)
  BY <1>2, <1>8 DEF Swept
<1>9. CASE ~(x \in Used(h) /\ KeyAt(h, x) \in S)
  <2>1. u = t
    BY <1>5, <1>9
  <2>2. ASSUME m.position = 0
        PROVE  \A a \in Key, b \in Value :
                 Has(u.h, a, b) <=> Has(h, a, b) /\ ~(a \in S /\ \E j \in Used(h) : j < i /\ KeyAt(h, j) = a)
    <3>1. \A a \in S : (\E j \in Used(h) : j < i /\ KeyAt(h, j) = a) <=>
                       (\E j \in Used(h) : j < x /\ KeyAt(h, j) = a)
      BY <1>6, <1>9
    <3>2. QED
      BY <1>8, <2>1, <2>2, <3>1
  <2>3. QED
    BY <1>0, <1>2, <1>7, <1>8, <2>1, <2>2 DEF Swept
<1>10. CASE x \in Used(h) /\ KeyAt(h, x) \in S
  <2>1. u = del(t, x)
    BY <1>5, <1>10
  <2>2. x \in 0 .. t.h.n
    BY <1>0
  <2>3. Deleted(t, u, x)
    BY <1>0, <2>1, <2>2, DelIs
  <2>4. MapFits(u, 0) /\ u.h.n \in Nat /\ u.h.n >= m.h.n
    <3>1. MapFits(u, 0) /\ u.h.n >= t.h.n
      BY <2>3 DEF Deleted
    <3>2. u.h.n \in Nat
      BY <3>1, SizesFit DEF MapFits, IsMap, Sound
    <3>3. QED
      BY <1>0, <3>1, <3>2
  <2>5. ASSUME m.position = 0
        PROVE  /\ u.position = 0 /\ u.h.n = h.n
               /\ \A j \in 0 .. h.n - 1 : j >= i => u.h.slots[j].node = h.slots[j].node
               /\ \A a \in Key, b \in Value :
                 Has(u.h, a, b) <=> Has(h, a, b) /\ ~(a \in S /\ \E j \in Used(h) : j < i /\ KeyAt(h, j) = a)
    <3>1. /\ u.position = 0 /\ u.h.n = h.n
          /\ \A j \in 0 .. h.n - 1 : j # x => u.h.slots[j].node = t.h.slots[j].node
      BY <1>8, <2>3, <2>5 DEF Deleted
    <3>2. \A j \in 0 .. h.n - 1 : j >= i => u.h.slots[j].node = h.slots[j].node
      BY <1>7, <1>8, <2>5, <3>1
    <3>3. t.h.slots[x].node = h.slots[x].node
      <4>1. x >= x /\ x \in 0 .. h.n - 1
        BY <1>1, <1>2
      <4>2. QED
        BY <1>8, <2>5, <4>1
    <3>4. x \in Used(t.h) /\ KeyAt(t.h, x) = KeyAt(h, x)
      BY <1>8, <1>10, <2>5, <3>3 DEF Used, exist, KeyAt
    <3>5. \A a \in Key, b \in Value : Has(u.h, a, b) <=> a # KeyAt(h, x) /\ Has(t.h, a, b)
      BY <2>3, <3>4 DEF Deleted
    <3>6. \A a \in S : (\E j \in Used(h) : j < i /\ KeyAt(h, j) = a) <=>
                       a = KeyAt(h, x) \/ \E j \in Used(h) : j < x /\ KeyAt(h, j) = a
      BY <1>6, <1>10
    <3>7. \A a \in Key, b \in Value :
            Has(u.h, a, b) <=> Has(h, a, b) /\ ~(a \in S /\ \E j \in Used(h) : j < i /\ KeyAt(h, j) = a)
      BY <1>8, <1>10, <2>5, <3>5, <3>6
    <3>8. QED
      BY <3>1, <3>2, <3>7
  <2>6. QED
    BY <1>2, <2>4, <2>5 DEF Swept
<1>11. QED
  BY <1>9, <1>10

LEMMA SweepsOn ==
  ASSUME NEW m, MapFits(m, 0), NEW S, NEW f, Sweeps(m, S, f, m.h.n)
  PROVE  Swept(m, S, m.h.n, f[m.h.n])
<1>0. m.h.n \in Nat /\ Sound(m.h)
  BY SizesFit DEF MapFits, IsMap, Sound
<1>1. PICK n, z : n = m.h.n /\ z = 0
  BY Zenon
<1>2. SUFFICES ASSUME ~Swept(m, S, n, f[n]) PROVE FALSE
  BY <1>1
<1>3. PICK Bad : Bad = {j \in 0 .. n : ~Swept(m, S, j, f[j])}
  BY Zenon
<1>4. Bad \subseteq Nat /\ Bad # {}
  <2>1. n \in 0 .. n
    BY <1>0, <1>1
  <2>2. n \in Bad /\ Bad \subseteq 0 .. n
    BY <1>2, <1>3, <2>1, Zenon
  <2>3. QED
    BY <1>0, <1>1, <2>2
<1>5. PICK i \in Bad : \A y \in Bad : i <= y
  BY <1>4, LeastNatural
<1>6. i \in 0 .. n /\ ~Swept(m, S, i, f[i])
  BY <1>3, <1>5
<1>7. Swept(m, S, z, f[z])
  <2>1. f[z] = m
    BY <1>1 DEF Sweeps
  <2>2. \A j \in Used(m.h) : ~(j < z)
    BY <1>0, <1>1 DEF Used
  <2>3. QED
    BY <1>0, <2>1, <2>2 DEF Swept
<1>8. i # z
  BY <1>6, <1>7
<1>9. PICK x : x = i - 1
  BY Zenon
<1>10. x \in 0 .. n /\ i \in 1 .. n /\ x \in 0 .. n - 1 /\ i = x + 1 /\ x \notin Bad
  BY <1>0, <1>1, <1>5, <1>6, <1>8, <1>9
<1>11. Swept(m, S, x, f[x])
  BY <1>3, <1>10
<1>12. f[i] = Sweep(m, S, i, f[x])
  BY <1>1, <1>9, <1>10 DEF Sweeps
<1>13. Swept(m, S, i, f[i])
  BY <1>1, <1>10, <1>11, <1>12, SweepIs
<1>14. QED
  BY <1>6, <1>13

LEMMA SweepsExist ==
  ASSUME NEW m, NEW S, NEW n \in Nat
  PROVE  \E f : f = [i \in 0 .. n |-> f[i]] /\ Sweeps(m, S, f, n)
<1> DEFINE Goes(f, e) == f = [i \in 0 .. e |-> f[i]] /\ Sweeps(m, S, f, e)
<1>1. SUFFICES ASSUME ~\E f : Goes(f, n) PROVE FALSE
  OBVIOUS
<1>2. PICK Bad : Bad = {e \in 0 .. n : ~\E f : Goes(f, e)}
  BY Zenon
<1>3. Bad \subseteq Nat /\ Bad # {}
  <2>1. n \in 0 .. n
    OBVIOUS
  <2>2. n \in Bad /\ Bad \subseteq 0 .. n
    BY <1>1, <1>2, <2>1, Zenon
  <2>3. QED
    BY <2>2
<1>4. PICK e \in Bad : \A y \in Bad : e <= y
  BY <1>3, LeastNatural
<1>5. e \in 0 .. n /\ ~\E f : Goes(f, e)
  BY <1>2, <1>4
<1>6. e # 0
  <2>1. PICK f : f = [i \in 0 .. 0 |-> m]
    BY Zenon
  <2>2. Goes(f, 0)
    BY <2>1 DEF Sweeps
  <2>3. QED
    BY <1>5, <2>2
<1>7. PICK p : p = e - 1
  BY Zenon
<1>8. p \in 0 .. n /\ e = p + 1 /\ p \notin Bad /\ p \in Nat
  BY <1>4, <1>5, <1>6, <1>7
<1>9. PICK f : Goes(f, p)
  BY <1>2, <1>8
<1>10. f[0] = m /\ \A i \in 1 .. p : f[i] = Sweep(m, S, i, f[i - 1])
  BY <1>9 DEF Sweeps
<1>11. PICK s : s = Sweep(m, S, e, f[p])
  BY Zenon
<1>12. PICK g : g = [i \in 0 .. e |-> IF i = e THEN s ELSE f[i]]
  BY Zenon
<1>13. g[0] = m
  BY <1>8, <1>10, <1>12
<1>14. \A i \in 1 .. e : g[i] = Sweep(m, S, i, g[i - 1])
  <2>1. SUFFICES ASSUME NEW i \in 1 .. e PROVE g[i] = Sweep(m, S, i, g[i - 1])
    OBVIOUS
  <2>2. PICK l : l = i - 1
    BY Zenon
  <2>3. i \in 0 .. e /\ l \in 0 .. e /\ l # e
    BY <1>8, <2>2
  <2>4. g[l] = f[l]
    BY <1>12, <2>3
  <2>5. CASE i = e
    <3>1. l = p /\ g[i] = s
      BY <1>8, <1>12, <2>2, <2>3, <2>5
    <3>2. QED
      BY <1>11, <2>2, <2>4, <2>5, <3>1
  <2>6. CASE i # e
    <3>1. i \in 1 .. p
      BY <1>8, <2>6
    <3>2. g[i] = f[i]
      BY <1>12, <2>3, <2>6
    <3>3. f[i] = Sweep(m, S, i, f[l])
      BY <1>10, <2>2, <3>1
    <3>4. QED
      BY <2>2, <2>4, <3>2, <3>3
  <2>7. QED
    BY <2>5, <2>6
<1>15. g = [i \in 0 .. e |-> g[i]]
  BY <1>12
<1>16. Goes(g, e)
  BY <1>13, <1>14, <1>15 DEF Sweeps
<1>17. QED
  BY <1>5, <1>16

LEMMA DeleteSlotsIs ==
  ASSUME NEW m, MapFits(m, 0), NEW S, NEW u, u = DeleteSlots(m, S)
  PROVE  Swept(m, S, m.h.n, u)
<1>0. m.h.n \in Nat
  BY SizesFit DEF MapFits, IsMap, Sound
<1>1. PICK n : n = m.h.n
  BY Zenon
<1> DEFINE Loop(f) == f = [i \in 0 .. n |->
                             IF i = 0 THEN m
                             ELSE IF exist(m.h, i - 1) /\ m.h.slots[i - 1].node[1] \in S THEN del(f[i - 1], i - 1)
                                  ELSE f[i - 1]]
<1>2. PICK f : f = [i \in 0 .. n |-> f[i]] /\ Sweeps(m, S, f, n)
  BY <1>0, <1>1, SweepsExist
<1>3. Loop(f)
  <2>1. \A i \in 0 .. n : f[i] = IF i = 0 THEN m
                                 ELSE IF exist(m.h, i - 1) /\ m.h.slots[i - 1].node[1] \in S
                                      THEN del(f[i - 1], i - 1) ELSE f[i - 1]
    <3>1. \A i \in 0 .. n : i = 0 \/ i \in 1 .. n
      BY <1>0, <1>1
    <3>2. QED
      BY <1>2, <3>1 DEF Sweeps, Sweep
  <2>2. QED
    BY <1>2, <2>1
<1>4. PICK c : c = CHOOSE f2 : Loop(f2)
  BY Zenon
<1>5. Loop(c)
  BY <1>3, <1>4
<1>6. Sweeps(m, S, c, n)
  <2>1. \A i \in 0 .. n : c[i] = IF i = 0 THEN m
                                 ELSE IF exist(m.h, i - 1) /\ m.h.slots[i - 1].node[1] \in S
                                      THEN del(c[i - 1], i - 1) ELSE c[i - 1]
    BY <1>5
  <2>2. 0 \in 0 .. n /\ \A i \in 1 .. n : i \in 0 .. n /\ i # 0
    BY <1>0, <1>1
  <2>3. QED
    BY <2>1, <2>2 DEF Sweeps, Sweep
<1>7. u = c[n]
  BY <1>1, <1>4, Zenon DEF DeleteSlots
<1>8. QED
  BY <1>1, <1>6, <1>7, SweepsOn

-----------------------------------------------------------------------------
(* What the callers see: find, foreach and random. *)

LEMMA FindValueIs ==
  ASSUME NEW t, Sound(t), NEW k \in Key
  PROVE  /\ find_value(t, k) \in Value \cup {None}
         /\ \A v \in Value : Has(t, k, v) <=> find_value(t, k) = v
<1>1. t.n \in Nat /\ t \in TableType(t.n) /\ Free \notin Value
  BY SizesFit, MapAssumption DEF Sound
<1>2. PICK i, w : i = find(t, k) /\ w = t.slots[i].node[2]
  BY Zenon
<1>3. find_value(t, k) = IF i = t.n THEN None ELSE w
  BY <1>2 DEF find_value
<1>4. CASE k \in KeysOf(t)
  <2>1. i \in Used(t) /\ KeyAt(t, i) = k
    BY <1>2, <1>4, FindIs
  <2>2. PICK v \in Value : t.slots[i].node = <<k, v>>
    BY <1>1, <2>1, PairIsKey
  <2>3. i # t.n
    BY <1>1, <2>1 DEF Used
  <2>4. find_value(t, k) = v
    BY <1>2, <1>3, <2>2, <2>3
  <2>5. Has(t, k, v)
    BY <2>1, <2>2 DEF Has
  <2>6. \A x \in Value : Has(t, k, x) => x = v
    BY <2>5, HasOne
  <2>7. QED
    BY <2>4, <2>5, <2>6
<1>5. CASE k \notin KeysOf(t)
  <2>1. find_value(t, k) = None
    BY <1>2, <1>3, <1>5, FindIs
  <2>2. \A v \in Value : ~Has(t, k, v)
    BY <1>5, HasOne
  <2>3. QED
    BY <1>1, <2>1, <2>2 DEF None
<1>6. QED
  BY <1>4, <1>5

LEMMA FoundIs ==
  ASSUME NEW t, Sound(t), NEW c, Mirrors(t, c), NEW k \in Key
  PROVE  find_value(t, k) = c[k]
<1>1. c[k] \in Value \cup {None} /\ \A b \in Value : Has(t, k, b) <=> c[k] = b
  BY DEF Mirrors
<1>2. None \notin Value
  BY MapAssumption DEF None
<1>3. /\ find_value(t, k) \in Value \cup {None}
      /\ \A v \in Value : Has(t, k, v) <=> find_value(t, k) = v
  BY FindValueIs
<1>4. QED
  BY <1>1, <1>2, <1>3

\* What foreach has met before slot i.
Early(t, i) == {j \in Used(t) : j < i}
NodesTo(t, i) == {t.slots[j].node : j \in Early(t, i)}
Visited(t, i, s) ==
  s \in Seq(Pair) /\ Len(s) = Cardinality(Early(t, i)) /\ Range(s) = NodesTo(t, i)
Visit(t, i, s) == IF exist(t, i - 1) THEN Append(s, t.slots[i - 1].node) ELSE s

LEMMA VisitIs ==
  ASSUME NEW t, Sound(t), NEW x \in 0 .. t.n - 1, NEW i, i = x + 1, NEW s, Visited(t, x, s),
         NEW u, u = Visit(t, i, s)
  PROVE  Visited(t, i, u)
<1>1. t.n \in Nat /\ t \in TableType(t.n) /\ x \in Nat /\ i - 1 = x /\ i \in Nat
  BY SizesFit DEF Sound
<1>2. s \in Seq(Pair) /\ Len(s) = Cardinality(Early(t, x)) /\ Range(s) = NodesTo(t, x)
  BY DEF Visited
<1>3. \A j \in Used(t) : j \in Nat /\ (j < i <=> j < x \/ j = x)
  <2>1. \A j \in Used(t) : j \in Nat
    BY <1>1 DEF Used
  <2>2. QED
    BY <1>1, <2>1
<1>4. IsFiniteSet(Early(t, x)) /\ x \notin Early(t, x)
  <2>1. IsFiniteSet(Used(t)) /\ Early(t, x) \subseteq Used(t)
    BY <1>1, TableParts DEF Early
  <2>2. x \notin Early(t, x)
    BY <1>1 DEF Early
  <2>3. QED
    BY <2>1, <2>2, FS_Subset
<1>5. exist(t, x) <=> x \in Used(t)
  BY DEF Used
<1>6. CASE x \notin Used(t)
  <2>1. u = s
    BY <1>1, <1>5, <1>6 DEF Visit
  <2>2. Early(t, i) = Early(t, x)
    BY <1>3, <1>6 DEF Early
  <2>3. QED
    BY <1>2, <2>1, <2>2 DEF Visited, NodesTo
<1>7. CASE x \in Used(t)
  <2>1. PICK e : e = t.slots[x].node
    BY Zenon
  <2>2. u = Append(s, e)
    BY <1>1, <1>5, <1>7, <2>1 DEF Visit
  <2>3. e \in Pair
    BY <1>1, <1>5, <1>7, <2>1, TableParts
  <2>4. Early(t, i) = Early(t, x) \cup {x}
    BY <1>3, <1>7 DEF Early
  <2>5. Cardinality(Early(t, i)) = Cardinality(Early(t, x)) + 1
    BY <1>4, <2>4, FS_AddElement
  <2>6. u \in Seq(Pair) /\ Len(u) = Len(s) + 1 /\ u[Len(s) + 1] = e
        /\ \A j \in 1 .. Len(s) : u[j] = s[j]
    <3>1. s \in Seq(Pair)
      BY <1>2, Zenon
    <3>2. Append(s, e) \in Seq(Pair)
      BY <2>3, <3>1, AppendProperties
    <3>21. Len(Append(s, e)) = Len(s) + 1
      BY <2>3, <3>1, AppendProperties
    <3>22. \A j \in 1 .. Len(s) : Append(s, e)[j] = s[j]
      BY <2>3, <3>1, AppendProperties
    <3>23. Append(s, e)[Len(s) + 1] = e
      BY <2>3, <3>1, AppendProperties
    <3>3. QED
      BY <2>2, <3>2, <3>21, <3>22, <3>23, Zenon
  <2>7. Range(u) = Range(s) \cup {e}
    <3>1. DOMAIN u = 1 .. Len(s) + 1 /\ DOMAIN s = 1 .. Len(s) /\ Len(s) \in Nat
      BY <1>2, <2>6
    <3>2. \A j \in 1 .. Len(s) + 1 : j \in 1 .. Len(s) \/ j = Len(s) + 1
      BY <3>1
    <3>3. Len(s) + 1 \in DOMAIN u /\ \A j \in DOMAIN s : j \in DOMAIN u
      BY <3>1
    <3>4. QED
      BY <2>6, <3>1, <3>2, <3>3 DEF Range
  <2>8. NodesTo(t, i) = NodesTo(t, x) \cup {e}
    BY <2>1, <2>4 DEF NodesTo
  <2>9. QED
    BY <1>2, <2>5, <2>6, <2>7, <2>8 DEF Visited
<1>8. QED
  BY <1>6, <1>7

Visits(t, f, e) == f[0] = <<>> /\ \A i \in 1 .. e : f[i] = Visit(t, i, f[i - 1])

LEMMA VisitsOn ==
  ASSUME NEW t, Sound(t), NEW f, Visits(t, f, t.n)
  PROVE  Visited(t, t.n, f[t.n])
<1>0. t.n \in Nat
  BY SizesFit DEF Sound
<1>1. PICK n, z : n = t.n /\ z = 0
  BY Zenon
<1>2. SUFFICES ASSUME ~Visited(t, n, f[n]) PROVE FALSE
  BY <1>1
<1>3. PICK Bad : Bad = {j \in 0 .. n : ~Visited(t, j, f[j])}
  BY Zenon
<1>4. Bad \subseteq Nat /\ Bad # {}
  <2>1. n \in 0 .. n
    BY <1>0, <1>1
  <2>2. n \in Bad /\ Bad \subseteq 0 .. n
    BY <1>2, <1>3, <2>1, Zenon
  <2>3. QED
    BY <1>0, <1>1, <2>2
<1>5. PICK i \in Bad : \A y \in Bad : i <= y
  BY <1>4, LeastNatural
<1>6. i \in 0 .. n /\ ~Visited(t, i, f[i])
  BY <1>3, <1>5
<1>7. Visited(t, z, f[z])
  <2>1. f[z] = <<>>
    BY <1>1 DEF Visits
  <2>2. Early(t, z) = {}
    BY <1>0, <1>1 DEF Early, Used
  <2>3. Cardinality(Early(t, z)) = 0 /\ NodesTo(t, z) = {}
    BY <2>2, FS_EmptySet DEF NodesTo
  <2>4. PICK e : e = <<>>
    BY Zenon
  <2>5. e \in Seq(Pair) /\ Len(e) = 0 /\ Range(e) = {}
    BY <2>4 DEF Range
  <2>6. QED
    BY <2>1, <2>3, <2>4, <2>5 DEF Visited
<1>8. i # z
  BY <1>6, <1>7
<1>9. PICK x : x = i - 1
  BY Zenon
<1>10. x \in 0 .. n /\ i \in 1 .. n /\ x \in 0 .. n - 1 /\ i = x + 1 /\ x \notin Bad
  BY <1>0, <1>1, <1>5, <1>6, <1>8, <1>9
<1>11. Visited(t, x, f[x])
  BY <1>3, <1>10
<1>12. f[i] = Visit(t, i, f[x])
  BY <1>1, <1>9, <1>10 DEF Visits
<1>13. Visited(t, i, f[i])
  BY <1>1, <1>10, <1>11, <1>12, VisitIs
<1>14. QED
  BY <1>6, <1>13

LEMMA VisitsExist ==
  ASSUME NEW t, Sound(t)
  PROVE  \E f : f = [i \in 0 .. t.n |-> f[i]] /\ Visits(t, f, t.n)
<1>0. t.n \in Nat /\ t \in TableType(t.n)
  BY SizesFit DEF Sound
<1>1. PICK n, D, a : n = t.n /\ D = Seq(Pair) /\ a = <<>>
  BY Zenon
<1>2. PICK F : F = [y \in (1 .. n) \X D |-> Visit(t, y[1], y[2])]
  BY Zenon
<1>3. \A i \in 1 .. n, s \in D : F[<<i, s>>] = Visit(t, i, s)
  BY <1>2
<1>4. a \in D
  BY <1>1
<1>5. ASSUME NEW i \in 1 .. n, NEW s \in D PROVE Visit(t, i, s) \in D
  <2>1. PICK x : x = i - 1
    BY Zenon
  <2>2. x \in 0 .. t.n - 1
    BY <1>0, <1>1, <2>1
  <2>3. CASE exist(t, x)
    <3>1. t.slots[x].node \in Pair
      BY <1>0, <2>2, <2>3, TableParts
    <3>2. Append(s, t.slots[x].node) \in Seq(Pair)
      BY <1>1, <3>1, AppendProperties
    <3>3. QED
      BY <1>1, <2>1, <2>3, <3>2 DEF Visit
  <2>4. CASE ~exist(t, x)
    BY <2>1, <2>4 DEF Visit
  <2>5. QED
    BY <2>3, <2>4
<1>6. Stays(F, n, D)
  BY <1>3, <1>5 DEF Stays
<1>7. PICK g : Iterates(g, F, a, n, D)
  BY <1>0, <1>1, <1>4, <1>6, Iteration
<1>8. g \in [0 .. n -> D] /\ g[0] = a /\ \A k \in 1 .. n : g[k] = F[<<k, g[k - 1]>>]
  BY <1>7 DEF Iterates
<1>9. \A k \in 1 .. n : g[k] = Visit(t, k, g[k - 1])
  <2>1. SUFFICES ASSUME NEW k \in 1 .. n PROVE g[k] = Visit(t, k, g[k - 1])
    OBVIOUS
  <2>2. PICK l : l = k - 1
    BY Zenon
  <2>3. l \in 0 .. n
    BY <1>0, <1>1, <2>2
  <2>4. g[l] \in D
    BY <1>8, <2>3
  <2>5. QED
    BY <1>3, <1>8, <2>2, <2>4
<1>10. g = [i \in 0 .. n |-> g[i]]
  BY <1>8
<1>11. QED
  BY <1>1, <1>8, <1>9, <1>10 DEF Visits

LEMMA ForeachMeets ==
  ASSUME NEW t, Sound(t), NEW s, s = foreach(t)
  PROVE  s \in Seq(Pair) /\ Len(s) = t.size /\ Range(s) = {t.slots[j].node : j \in Used(t)}
<1>0. t.n \in Nat
  BY SizesFit DEF Sound
<1>1. PICK n : n = t.n
  BY Zenon
<1> DEFINE Loop(f) == f = [i \in 0 .. n |->
                             IF i = 0 THEN <<>>
                             ELSE IF exist(t, i - 1) THEN Append(f[i - 1], t.slots[i - 1].node)
                                  ELSE f[i - 1]]
<1>2. PICK f : f = [i \in 0 .. n |-> f[i]] /\ Visits(t, f, n)
  BY <1>1, VisitsExist
<1>3. Loop(f)
  <2>1. \A i \in 0 .. n : f[i] = IF i = 0 THEN <<>>
                                 ELSE IF exist(t, i - 1) THEN Append(f[i - 1], t.slots[i - 1].node)
                                      ELSE f[i - 1]
    <3>1. \A i \in 0 .. n : i = 0 \/ i \in 1 .. n
      BY <1>0, <1>1
    <3>2. QED
      BY <1>2, <3>1 DEF Visits, Visit
  <2>2. QED
    BY <1>2, <2>1
<1>4. PICK c : c = CHOOSE f2 : Loop(f2)
  BY Zenon
<1>5. Loop(c)
  BY <1>3, <1>4
<1>6. Visits(t, c, n)
  <2>1. \A i \in 0 .. n : c[i] = IF i = 0 THEN <<>>
                                 ELSE IF exist(t, i - 1) THEN Append(c[i - 1], t.slots[i - 1].node)
                                      ELSE c[i - 1]
    BY <1>5
  <2>2. 0 \in 0 .. n /\ \A i \in 1 .. n : i \in 0 .. n /\ i # 0
    BY <1>0, <1>1
  <2>3. QED
    BY <2>1, <2>2 DEF Visits, Visit
<1>7. s = c[n]
  BY <1>1, <1>4, Zenon DEF foreach
<1>8. Visited(t, n, s)
  BY <1>1, <1>6, <1>7, VisitsOn
<1>9. Early(t, n) = Used(t)
  <2>1. \A j \in Used(t) : j < n
    BY <1>0, <1>1 DEF Used
  <2>2. QED
    BY <2>1 DEF Early
<1>10. QED
  BY <1>8, <1>9 DEF Visited, NodesTo, Sound

LEMMA RandomIs ==
  ASSUME NEW t, Sound(t), t.size > 0, NEW rnd
  PROVE  random(t, rnd) < t.n
<1>0. t.n \in Nat /\ t \in TableType(t.n) /\ t.size = Cardinality(Used(t)) /\ Used(t) \subseteq Nat
  <2>1. t.n \in Nat
    BY SizesFit DEF Sound
  <2>2. QED
    BY <2>1 DEF Sound, Used
<1>1. PICK used, next : used = Used(t) /\ next = {i \in Used(t) : i > rnd % t.n}
  BY Zenon
<1>2. random(t, rnd) = IF next # {} THEN First(next) ELSE IF used # {} THEN First(used) ELSE t.n
  BY <1>1 DEF random, Used
<1>3. used # {}
  BY <1>0, <1>1, FS_EmptySet
<1>4. \A S : S \subseteq Used(t) /\ S # {} => First(S) \in Used(t)
  <2>1. SUFFICES ASSUME NEW S, S \subseteq Used(t), S # {} PROVE First(S) \in Used(t)
    OBVIOUS
  <2>2. PICK x : x \in S
    BY <2>1
  <2>3. S \subseteq Nat
    BY <1>0, <2>1
  <2>4. QED
    BY <2>1, <2>2, <2>3, FirstIs
<1>5. random(t, rnd) \in Used(t)
  <2>1. next \subseteq Used(t) /\ used \subseteq Used(t)
    BY <1>1
  <2>2. QED
    BY <1>2, <1>3, <1>4, <2>1
<1>6. QED
  BY <1>0, <1>5 DEF Used

\* A table with an unmarked slot ends every search.
LEMMA SearchStops ==
  ASSUME NEW t, Sound(t), Cardinality(Marked(t)) < t.n
  PROVE  \E i \in 0 .. t.n - 1 : ~exist(t, i) /\ ~t.slots[i].dirty
<1>1. t.n \in Nat /\ t \in TableType(t.n)
  BY SizesFit DEF Sound
<1>2. Cardinality(0 .. t.n - 1) = t.n /\ Marked(t) \subseteq 0 .. t.n - 1
  BY <1>1, TableParts
<1>3. Marked(t) # 0 .. t.n - 1
  BY <1>1, <1>2
<1>4. PICK i \in 0 .. t.n - 1 : i \notin Marked(t)
  BY <1>2, <1>3
<1>5. QED
  BY <1>4 DEF Marked

\* The map between two calls, and what the calls made so far put into it.
BookInv == MapFits(map, 0) /\ Mirrors(map.h, content)

LEMMA EntriesAre ==
  ASSUME NEW t, Sound(t), NEW c, Mirrors(t, c)
  PROVE  {t.slots[j].node : j \in Used(t)} = {<<k, c[k]>> : k \in {k \in Key : c[k] # None}}
<1>1. t.n \in Nat /\ t \in TableType(t.n)
  BY SizesFit DEF Sound
<1>2. None \notin Value
  BY MapAssumption DEF None
<1>3. c \in [Key -> Value \cup {None}] /\ \A a \in Key, b \in Value : Has(t, a, b) <=> c[a] = b
  BY DEF Mirrors
<1>4. ASSUME NEW j \in Used(t) PROVE \E k \in Key : c[k] # None /\ t.slots[j].node = <<k, c[k]>>
  <2>1. PICK v \in Value : t.slots[j].node = <<KeyAt(t, j), v>>
    BY <1>1, PairIsKey
  <2>2. KeyAt(t, j) \in Key
    BY <1>1, TableParts DEF Used
  <2>3. Has(t, KeyAt(t, j), v)
    BY <2>1 DEF Has
  <2>4. c[KeyAt(t, j)] = v
    BY <1>3, <2>2, <2>3
  <2>5. QED
    BY <1>2, <2>1, <2>2, <2>4
<1>5. ASSUME NEW k \in Key, c[k] # None PROVE \E j \in Used(t) : t.slots[j].node = <<k, c[k]>>
  <2>1. c[k] \in Value
    BY <1>3, <1>5
  <2>2. Has(t, k, c[k])
    BY <1>3, <2>1
  <2>3. QED
    BY <2>2 DEF Has
<1>6. PICK A : A = {t.slots[j].node : j \in Used(t)}
  BY Zenon
<1>7. PICK Bad : Bad = {<<k, c[k]>> : k \in {k \in Key : c[k] # None}}
  BY Zenon
<1>8. ASSUME NEW e \in A PROVE e \in Bad
  <2>1. PICK j \in Used(t) : e = t.slots[j].node
    BY <1>6
  <2>2. PICK k \in Key : c[k] # None /\ t.slots[j].node = <<k, c[k]>>
    BY <1>4
  <2>3. QED
    BY <1>7, <2>1, <2>2, Zenon
<1>9. ASSUME NEW e \in Bad PROVE e \in A
  <2>1. PICK k \in Key : c[k] # None /\ e = <<k, c[k]>>
    BY <1>7
  <2>2. PICK j \in Used(t) : t.slots[j].node = <<k, c[k]>>
    BY <1>5, <2>1
  <2>3. QED
    BY <1>6, <2>1, <2>2, Zenon
<1>10. A = Bad
  BY <1>8, <1>9, Zenon
<1>11. QED
  BY <1>6, <1>7, <1>10, Zenon

LEMMA BookMeans ==
  ASSUME BookInv
  PROVE  MapInv
<1>1. PICK h : h = map.h
  BY Zenon
<1>2. IsMap(map) /\ Sound(h) /\ h.n \in Nat /\ Mirrors(h, content)
  BY <1>1, SizesFit DEF BookInv, MapFits, IsMap, Sound
<1>3. ~map.failed
  <2>1. map.failed = FALSE
    <3>1. map = [h |-> map.h, shadow |-> map.shadow, position |-> map.position, batch |-> map.batch,
                 prime |-> map.prime, failed |-> FALSE]
      BY <1>2 DEF IsMap
    <3>2. QED
      BY <3>1
  <2>2. QED
    BY <2>1
<1>4. \A k \in Key : find_value(h, k) = content[k]
  BY <1>2, FoundIs
<1>5. PICK s : s = foreach(h)
  BY Zenon
<1>6. h.size = Len(s) /\ Range(s) = {<<k, content[k]>> : k \in {k \in Key : content[k] # None}}
  <2>1. Len(s) = h.size /\ Range(s) = {h.slots[j].node : j \in Used(h)}
    BY <1>2, <1>5, ForeachMeets
  <2>2. {h.slots[j].node : j \in Used(h)} = {<<k, content[k]>> : k \in {k \in Key : content[k] # None}}
    BY <1>2, EntriesAre
  <2>3. QED
    BY <2>1, <2>2
<1>7. h.size > 0 => \A rnd \in 0 .. h.n : random(h, rnd) < h.n
  BY <1>2, RandomIs
<1>8. MapAgrees
  BY <1>1, <1>3, <1>4, <1>5, <1>6, <1>7, Zenon DEF MapAgrees
<1>9. SearchEnds
  <2>1. PICK z : z = 0
    BY Zenon
  <2>2. z \in {0, 1} /\ MapFits(map, z)
    BY <2>1 DEF BookInv
  <2>3. /\ Cardinality(Marked(map.h)) < map.h.n /\ Sound(map.h)
        /\ map.position # 0 => Cardinality(Marked(map.shadow)) < map.shadow.n /\ Sound(map.shadow)
    BY <2>2, SlotLeft
  <2>4. map.position \in Nat
    BY <1>2 DEF IsMap
  <2>5. \A t \in Tables : Cardinality(Marked(t)) < t.n /\ Sound(t)
    BY <2>3, <2>4 DEF Tables
  <2>6. QED
    BY <2>5, SearchStops DEF SearchEnds
<1>10. QED
  BY <1>8, <1>9 DEF MapInv

LEMMA PutStep ==
  ASSUME BookInv, NEW k \in Key, NEW v \in Value, Put(k, v)
  PROVE  BookInv'
<1>1. PICK m, c, u, d : m = map /\ c = content /\ u = put(m, k, v) /\ d = [c EXCEPT ![k] = v]
  BY Zenon
<1>2. map' = u /\ content' = d
  BY <1>1 DEF Put
<1>3. MapFits(m, 0) /\ Mirrors(m.h, c)
  BY <1>1 DEF BookInv
<1>4. /\ MapFits(u, 0)
      /\ \A a \in Key, b \in Value : Has(u.h, a, b) <=> IF a = k THEN b = v ELSE Has(m.h, a, b)
  BY <1>1, <1>3, PutIs
<1>5. Mirrors(u.h, d)
  <2>1. c \in [Key -> Value \cup {None}] /\ \A a \in Key, b \in Value : Has(m.h, a, b) <=> c[a] = b
    BY <1>3 DEF Mirrors
  <2>2. d \in [Key -> Value \cup {None}] /\ \A a \in Key : d[a] = IF a = k THEN v ELSE c[a]
    BY <1>1, <2>1
  <2>3. QED
    BY <1>4, <2>1, <2>2 DEF Mirrors
<1>6. QED
  BY <1>2, <1>4, <1>5 DEF BookInv

LEMMA MapDeleteStep ==
  ASSUME BookInv, NEW k \in Key, Delete(k)
  PROVE  BookInv'
<1>1. PICK m, c, x, u, d : m = map /\ c = content /\ x = find(m.h, k) /\ u = del(m, x)
                           /\ d = [c EXCEPT ![k] = None]
  BY Zenon
<1>2. map' = u /\ content' = d
  BY <1>1 DEF Delete
<1>3. MapFits(m, 0) /\ Mirrors(m.h, c) /\ Sound(m.h) /\ m.h.n \in Nat
  <2>1. MapFits(m, 0) /\ Mirrors(m.h, c) /\ Sound(m.h)
    BY <1>1 DEF BookInv, MapFits, IsMap
  <2>2. QED
    BY <2>1, SizesFit DEF Sound
<1>4. c \in [Key -> Value \cup {None}] /\ \A a \in Key, b \in Value : Has(m.h, a, b) <=> c[a] = b
  BY <1>3 DEF Mirrors
<1>5. d \in [Key -> Value \cup {None}] /\ \A a \in Key : d[a] = IF a = k THEN None ELSE c[a]
  BY <1>1, <1>4
<1>6. None \notin Value
  BY MapAssumption DEF None
<1>7. CASE k \in KeysOf(m.h)
  <2>1. x \in Used(m.h) /\ KeyAt(m.h, x) = k
    BY <1>1, <1>3, <1>7, FindIs
  <2>2. x \in 0 .. m.h.n
    BY <1>3, <2>1 DEF Used
  <2>3. Deleted(m, u, x)
    BY <1>1, <1>3, <2>2, DelIs
  <2>4. MapFits(u, 0) /\ \A a \in Key, b \in Value : Has(u.h, a, b) <=> a # k /\ Has(m.h, a, b)
    BY <2>1, <2>3 DEF Deleted
  <2>5. Mirrors(u.h, d)
    BY <1>4, <1>5, <1>6, <2>4 DEF Mirrors
  <2>6. QED
    BY <1>2, <2>4, <2>5 DEF BookInv
<1>8. CASE k \notin KeysOf(m.h)
  <2>1. x = m.h.n
    BY <1>1, <1>3, <1>8, FindIs
  <2>2. x \in 0 .. m.h.n /\ x \notin Used(m.h)
    BY <1>3, <2>1 DEF Used
  <2>3. Deleted(m, u, x)
    BY <1>1, <1>3, <2>2, DelIs
  <2>4. u = m
    BY <2>2, <2>3 DEF Deleted
  <2>5. \A b \in Value : ~Has(m.h, k, b)
    BY <1>3, <1>8, HasOne
  <2>6. Mirrors(u.h, d)
    BY <1>4, <1>5, <1>6, <2>4, <2>5 DEF Mirrors
  <2>7. QED
    BY <1>2, <1>3, <2>4, <2>6 DEF BookInv
<1>9. QED
  BY <1>7, <1>8

LEMMA ClearStep ==
  ASSUME BookInv, Clear
  PROVE  BookInv'
<1>1. PICK m, u, d : m = map /\ u = clear(m) /\ d = [k \in Key |-> None]
  BY Zenon
<1>2. map' = u /\ content' = d /\ m.position = 0
  BY <1>1 DEF Clear
<1>3. MapFits(u, 0) /\ \A a \in Key, b \in Value : ~Has(u.h, a, b)
  BY <1>1, <1>2, ClearIs DEF BookInv
<1>4. None \notin Value
  BY MapAssumption DEF None
<1>5. Mirrors(u.h, d)
  BY <1>1, <1>3, <1>4 DEF Mirrors
<1>6. QED
  BY <1>2, <1>3, <1>5 DEF BookInv

LEMMA ReserveStep ==
  ASSUME BookInv, NEW size \in Reserves, (size * 10) \div 7 # map.h.n, Reserve(size)
  PROVE  BookInv'
<1>1. PICK m, c, u : m = map /\ c = content /\ u = reserve(m, size)
  BY Zenon
<1>2. map' = u /\ content' = c
  BY <1>1 DEF Reserve
<1>3. MapFits(m, 0) /\ Mirrors(m.h, c)
  BY <1>1 DEF BookInv
<1>4. size \in Nat /\ ((size * 10) \div 7) # m.h.n
  BY <1>1, MapAssumption
<1>5. MapFits(u, 0) /\ SameBook(u.h, m.h)
  BY <1>1, <1>3, <1>4, ReserveIs
<1>6. Mirrors(u.h, c)
  BY <1>3, <1>5 DEF Mirrors, SameBook
<1>7. QED
  BY <1>2, <1>5, <1>6 DEF BookInv

LEMMA ExpireStep ==
  ASSUME BookInv, NEW S \in SUBSET Key, Expire(S)
  PROVE  BookInv'
<1>1. PICK m, c, u : m = map /\ c = content /\ u = DeleteSlots(m, S)
  BY Zenon
<1>2. map' = u /\ content' = IF m.position = 0 THEN [k \in Key |-> IF k \in S THEN None ELSE c[k]]
                                               ELSE [k \in Key |-> find_value(u.h, k)]
  BY <1>1 DEF Expire
<1>3. MapFits(m, 0) /\ Mirrors(m.h, c) /\ Sound(m.h) /\ m.h.n \in Nat
  <2>1. MapFits(m, 0) /\ Mirrors(m.h, c) /\ Sound(m.h)
    BY <1>1 DEF BookInv, MapFits, IsMap
  <2>2. QED
    BY <2>1, SizesFit DEF Sound
<1>4. Swept(m, S, m.h.n, u)
  BY <1>1, <1>3, DeleteSlotsIs
<1>5. MapFits(u, 0) /\ Sound(u.h)
  BY <1>4 DEF Swept, MapFits, IsMap
<1>6. None \notin Value
  BY MapAssumption DEF None
<1>7. PICK d : d = content'
  BY Zenon
<1>8. CASE m.position = 0
  <2>1. c \in [Key -> Value \cup {None}] /\ \A a \in Key, b \in Value : Has(m.h, a, b) <=> c[a] = b
    BY <1>3 DEF Mirrors
  <2>2. d = [k \in Key |-> IF k \in S THEN None ELSE c[k]]
    BY <1>2, <1>7, <1>8
  <2>3. d \in [Key -> Value \cup {None}] /\ \A a \in Key : d[a] = IF a \in S THEN None ELSE c[a]
    BY <2>1, <2>2
  <2>4. \A a \in Key, b \in Value :
          Has(u.h, a, b) <=> Has(m.h, a, b)
                             /\ ~(a \in S /\ \E j \in Used(m.h) : j < m.h.n /\ KeyAt(m.h, j) = a)
    BY <1>4, <1>8 DEF Swept
  <2>5. \A a \in Key, b \in Value : Has(m.h, a, b) => \E j \in Used(m.h) : j < m.h.n /\ KeyAt(m.h, j) = a
    <3>1. \A j \in Used(m.h) : j < m.h.n
      BY <1>3 DEF Used
    <3>2. \A a \in Key, b \in Value : Has(m.h, a, b) => \E j \in Used(m.h) : KeyAt(m.h, j) = a
      BY DEF Has, KeyAt
    <3>3. QED
      BY <3>1, <3>2
  <2>6. \A a \in Key, b \in Value : Has(u.h, a, b) <=> Has(m.h, a, b) /\ a \notin S
    BY <2>4, <2>5
  <2>7. Mirrors(u.h, d)
    BY <1>6, <2>1, <2>3, <2>6 DEF Mirrors
  <2>8. QED
    BY <1>2, <1>5, <1>7, <2>7 DEF BookInv
<1>9. CASE m.position # 0
  <2>1. d = [k \in Key |-> find_value(u.h, k)]
    BY <1>2, <1>7, <1>9
  <2>2. \A k \in Key : /\ find_value(u.h, k) \in Value \cup {None}
                       /\ \A v \in Value : Has(u.h, k, v) <=> find_value(u.h, k) = v
    BY <1>5, FindValueIs
  <2>3. Mirrors(u.h, d)
    BY <2>1, <2>2 DEF Mirrors
  <2>4. QED
    BY <1>2, <1>5, <1>7, <2>3 DEF BookInv
<1>10. QED
  BY <1>8, <1>9

LEMMA BookStep ==
  ASSUME BookInv, [Next]_vars
  PROVE  BookInv'
<1>1. CASE \E k \in Key, v \in Value : Put(k, v)
  BY <1>1, PutStep
<1>2. CASE \E k \in Key : Delete(k)
  BY <1>2, MapDeleteStep
<1>3. CASE Clear
  BY <1>3, ClearStep
<1>4. CASE \E size \in Reserves : (size * 10) \div 7 # map.h.n /\ Reserve(size)
  BY <1>4, ReserveStep
<1>5. CASE \E S \in SUBSET Key : Expire(S)
  BY <1>5, ExpireStep
<1>6. CASE UNCHANGED vars
  BY <1>6 DEF vars, BookInv
<1>7. QED
  BY <1>1, <1>2, <1>3, <1>4, <1>5, <1>6, Zenon DEF Next

LEMMA BookStarts ==
  ASSUME Init
  PROVE  BookInv
<1>1. PICK m, n, e, c : m = map /\ n = PrimeList[1] /\ e = Empty(n) /\ c = content
  BY Zenon
<1>2. m = [h |-> e, shadow |-> NoTable, position |-> 0, batch |-> 0, prime |-> 1, failed |-> FALSE]
      /\ c = [k \in Key |-> None]
  BY <1>1 DEF Init
<1>3. 1 \in DOMAIN PrimeList
  <2>1. PrimeList \in Seq(Nat) /\ Len(PrimeList) > 0
    BY MapAssumption
  <2>2. QED
    BY <2>1
<1>4. n \in Primes
  BY <1>1, <1>3 DEF Primes
<1>5. Sound(e) /\ e.n = n /\ Cardinality(Marked(e)) = 0 /\ \A a \in Key, b \in Value : ~Has(e, a, b)
  BY <1>1, <1>4, EmptyTable
<1>6. m.h = e /\ m.shadow = NoTable /\ m.position = 0 /\ m.batch = 0 /\ m.prime = 1
  BY <1>2
<1>7. IsMap(m)
  BY <1>2, <1>3, <1>5, <1>6 DEF IsMap
<1>8. Cardinality(Marked(e)) + 0 <= Fill(e.n)
  <2>1. Fill(n) \in Nat
    BY <1>4, Spare
  <2>2. QED
    BY <1>5, <2>1
<1>9. MapFits(m, 0)
  BY <1>6, <1>7, <1>8 DEF MapFits
<1>10. None \notin Value
  BY MapAssumption DEF None
<1>11. Mirrors(e, c)
  BY <1>2, <1>5, <1>10 DEF Mirrors
<1>12. QED
  BY <1>1, <1>6, <1>9, <1>11 DEF BookInv

\* In every phase of a resize simple_map answers as the dictionary its calls
\* left: get and find see the last put, foreach every entry once, size counts
\* them, random finds one; the abort() of resize is never met, the recursive
\* put never fills the shadow, and every search meets a slot that ends it.
THEOREM MapHolds == CoreSpec => []MapInv
<1>1. CoreInit => BookInv
  BY BookStarts DEF CoreInit
<1>2. ASSUME BookInv,
             [CoreNext]_<<part, vars, listVars, eventVars, contextVars, bufferVars>>
      PROVE  BookInv'
  <2>1. Next \/ UNCHANGED vars
    BY <1>2 DEF CoreNext
  <2>2. QED
    BY <1>2, <2>1, BookStep
<1>3. BookInv => MapInv
  BY BookMeans
<1>4. QED
  BY <1>1, <1>2, <1>3, PTL DEF CoreSpec
=============================================================================
