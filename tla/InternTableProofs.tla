-------------------------- MODULE InternTableProofs --------------------------
(***************************************************************************)
(* Interning, for every set of strings, every hash and every number of     *)
(* buckets.  The inductive invariant says of the buckets what a probe      *)
(* relies on: each handle is held once, no unused bucket lies between a    *)
(* string's own bucket and the one that holds it, and one is always unused.*)
(***************************************************************************)
EXTENDS InternTable, Integers, FiniteSetTheorems, FunctionTheorems,
        WellFoundedInduction, TLAPS

Used(buckets) == {b \in 1 .. Len(buckets) : buckets[b] # 0}
Handles(buckets) == {buckets[b] : b \in Used(buckets)}

(* A handle is in one bucket only.                                         *)
HeldOnce(buckets) == \A b, c \in Used(buckets) : buckets[b] = buckets[c] => b = c

(* A probe for a held string passes used buckets only on its way there.    *)
OnTheWay(buckets, strs) ==
  \A b \in Used(buckets) : \E k \in 0 .. Len(buckets) - 1 :
    /\ b = Bucket(buckets, Hash[strs[buckets[b]]], k)
    /\ \A l \in 0 .. k - 1 : buckets[Bucket(buckets, Hash[strs[buckets[b]]], l)] # 0

ShortHandles == {h \in 1 .. Len(strings) : strings[h] \in Short}

TypeOK ==
  /\ strings \in Seq(Short \cup Long)
  /\ interned \in Seq(0 .. Len(strings))
  /\ interned_len \in Nat

IInv ==
  /\ TypeOK
  /\ OneHandleEach
  /\ HeldOnce(interned)
  /\ OnTheWay(interned, strings)
  /\ Handles(interned) = ShortHandles
  /\ Cardinality(Used(interned)) = interned_len
  /\ interned # <<>> => interned_len < Len(interned)

-----------------------------------------------------------------------------
(* The natural numbers are well ordered.                                   *)
LEMMA LeastOf ==
  ASSUME NEW S, S \subseteq Nat, S # {}
  PROVE  \E n \in S : \A m \in S : n <= m
<1> DEFINE R == OpToRel(<, Nat)
<1>1. IsWellFoundedOn(R, Nat)
  BY NatLessThanWellFounded
<1>2. ASSUME NEW x \in Nat, NEW y \in Nat, x < y
      PROVE  <<x, y>> \in R
  BY <1>2 DEF OpToRel
<1> HIDE DEF R
<1>3. PICK n \in S : \A m \in S : <<m, n>> \notin R
  BY <1>1, WFMin
<1>4. ASSUME NEW m \in S
      PROVE  n <= m
  <2>1. m \in Nat /\ n \in Nat
    OBVIOUS
  <2>2. ~(m < n)
    BY <1>2, <1>3, <2>1
  <2> QED
    BY <2>1, <2>2
<1> QED
  BY <1>4

(* Induction over the natural numbers, as a fact about sets.               *)
LEMMA Induction ==
  ASSUME NEW S, 0 \in S, \A n \in Nat : n \in S => n + 1 \in S
  PROVE  Nat \subseteq S
<1> SUFFICES ASSUME Nat \ S # {} PROVE FALSE
  OBVIOUS
<1>1. PICK n \in Nat \ S : \A m \in Nat \ S : n <= m
  BY LeastOf
<1>2. n # 0 /\ n - 1 \in Nat /\ n - 1 \in S
  BY <1>1
<1> QED
  BY <1>2

(* A remainder is known by its place in the interval.                      *)
LEMMA Remainder ==
  ASSUME NEW q \in Nat, NEW n \in Nat \ {0}, NEW r \in 0 .. n - 1
  PROVE  (q * n + r) % n = r
<1> DEFINE a == q * n + r
<1>1. q * n \in Nat /\ a \in Nat
  OBVIOUS
<1>2. a % n \in 0 .. n - 1 /\ a \div n \in Nat /\ a = n * (a \div n) + (a % n)
  BY <1>1
<1> DEFINE p == a \div n
           s == a % n
<1>3. p \in Nat /\ s \in 0 .. n - 1 /\ n * p + s = q * n + r
  BY <1>2
<1> HIDE DEF p, s
<1>4. CASE p < q
  <2>1. q >= p + 1
    BY <1>3, <1>4
  <2>2. n * q >= n * (p + 1)
    BY <2>1, <1>3
  <2> QED
    BY <2>2, <1>3
<1>5. CASE p > q
  <2>1. p >= q + 1
    BY <1>3, <1>5
  <2>2. n * p >= n * (q + 1)
    BY <2>1, <1>3
  <2> QED
    BY <2>2, <1>3
<1>6. CASE p = q
  BY <1>6, <1>3 DEF s
<1> QED
  BY <1>3, <1>4, <1>5, <1>6

(* Going round visits every bucket.                                        *)
LEMMA EveryBucketIsVisited ==
  ASSUME NEW buckets \in Seq(Nat), NEW hash \in Nat, NEW b \in 1 .. Len(buckets)
  PROVE  \E k \in 0 .. Len(buckets) - 1 : Bucket(buckets, hash, k) = b
<1> DEFINE n == Len(buckets)
           q == hash \div n
           r == hash % n
<1>1. n \in Nat \ {0}
  OBVIOUS
<1>2. q \in Nat /\ r \in 0 .. n - 1 /\ hash = q * n + r
  BY <1>1
<1> HIDE DEF q, r
<1>3. CASE b - 1 >= r
  <2> DEFINE k == b - 1 - r
  <2>1. k \in 0 .. n - 1 /\ hash + k = q * n + (b - 1) /\ b - 1 \in 0 .. n - 1
    BY <1>1, <1>2, <1>3
  <2>2. (hash + k) % n = b - 1
    BY <2>1, <1>1, <1>2, Remainder, SMTT(30)
  <2>3. Bucket(buckets, hash, k) = b
    BY <2>2 DEF Bucket
  <2> QED
    BY <2>1, <2>3
<1>4. CASE b - 1 < r
  <2> DEFINE k == b - 1 - r + n
           p == q + 1
  <2>1. k \in 0 .. n - 1 /\ hash + k = p * n + (b - 1) /\ b - 1 \in 0 .. n - 1 /\ p \in Nat
    BY <1>1, <1>2, <1>4
  <2>2. (hash + k) % n = b - 1
    <3> HIDE DEF p, k
    <3> QED
      BY <2>1, <1>1, Remainder
  <2>3. Bucket(buckets, hash, k) = b
    BY <2>2 DEF Bucket
  <2> QED
    BY <2>1, <2>3
<1> QED
  BY <1>1, <1>2, <1>3, <1>4

(* A probe stays inside the buckets.                                       *)
LEMMA BucketType ==
  ASSUME NEW buckets \in Seq(Nat), buckets # <<>>, NEW hash \in Nat, NEW k \in Nat
  PROVE  Bucket(buckets, hash, k) \in 1 .. Len(buckets)
<1>1. Len(buckets) \in Nat \ {0}
  OBVIOUS
<1>2. (hash + k) % Len(buckets) \in 0 .. Len(buckets) - 1
  BY <1>1
<1> QED
  BY <1>1, <1>2 DEF Bucket

(* A probe ends if anything stops it, and at the first bucket that does.   *)
LEMMA Probe ==
  ASSUME NEW buckets \in Seq(Nat), NEW hash \in Nat, NEW stops,
         NEW b \in 1 .. Len(buckets), buckets[b] \in stops
  PROVE  \E k \in 0 .. Len(buckets) - 1 :
           /\ ProbeEnd(buckets, hash, stops) = Bucket(buckets, hash, k)
           /\ buckets[Bucket(buckets, hash, k)] \in stops
           /\ \A l \in 0 .. k - 1 : buckets[Bucket(buckets, hash, l)] \notin stops
<1> DEFINE ends == {k \in 0 .. Len(buckets) - 1 : buckets[Bucket(buckets, hash, k)] \in stops}
           first == CHOOSE k \in ends : \A l \in ends : k <= l
<1>1. ends # {} /\ ends \subseteq Nat
  <2>1. PICK k \in 0 .. Len(buckets) - 1 : Bucket(buckets, hash, k) = b
    BY EveryBucketIsVisited
  <2> QED
    BY <2>1
<1>2. first \in ends /\ \A l \in ends : first <= l
  <2> HIDE DEF ends
  <2> QED
    BY <1>1, LeastOf
<1>3. ProbeEnd(buckets, hash, stops) = Bucket(buckets, hash, first)
  BY DEF ProbeEnd
<1> HIDE DEF first
<1>4. ASSUME NEW l \in 0 .. first - 1
      PROVE  buckets[Bucket(buckets, hash, l)] \notin stops
  BY <1>2
<1> QED
  BY <1>2, <1>3, <1>4

-----------------------------------------------------------------------------
(* Each handle in its place, of a string that has a hash.                  *)
Sound(buckets, strs) ==
  /\ HeldOnce(buckets)
  /\ OnTheWay(buckets, strs)
  /\ \A b \in Used(buckets) : strs[buckets[b]] \in Short

(* As many buckets are used as there are handles in them, so there is room *)
(* while they are fewer than the buckets.                                  *)
LEMMA RoomLeft ==
  ASSUME NEW buckets \in Seq(Nat), HeldOnce(buckets),
         NEW S, IsFiniteSet(S), Handles(buckets) \subseteq S
  PROVE  /\ IsFiniteSet(Used(buckets))
         /\ Cardinality(Used(buckets)) <= Cardinality(S)
         /\ S = Handles(buckets) => Cardinality(Used(buckets)) = Cardinality(S)
         /\ Cardinality(Used(buckets)) < Len(buckets) => \E b \in 1 .. Len(buckets) : buckets[b] = 0
<1> DEFINE U == Used(buckets)
           f == [b \in U |-> buckets[b]]
<1>1. f \in Injection(U, S)
  <2>1. f \in [U -> S]
    BY DEF Handles
  <2>2. \A b, c \in U : f[b] = f[c] => b = c
    BY DEF HeldOnce
  <2> QED
    BY <2>1, <2>2 DEF Injection, IsInjective
<1>2. S = Handles(buckets) => f \in Surjection(U, S)
  <2> SUFFICES ASSUME S = Handles(buckets) PROVE f \in Surjection(U, S)
    OBVIOUS
  <2>1. f \in [U -> S]
    BY DEF Handles
  <2>2. \A h \in S : \E b \in U : f[b] = h
    BY DEF Handles
  <2> QED
    BY <2>1, <2>2 DEF Surjection
<1> HIDE DEF f
<1>3. /\ IsFiniteSet(U)
      /\ Cardinality(U) <= Cardinality(S)
      /\ Cardinality(U) = Cardinality(S) <=> f \in Surjection(U, S)
  BY <1>1, FS_Injection
<1>4. ASSUME \A b \in 1 .. Len(buckets) : buckets[b] # 0
      PROVE  Cardinality(U) = Len(buckets)
  <2>1. U = 1 .. Len(buckets)
    BY <1>4 DEF Used
  <2>2. Cardinality(1 .. Len(buckets)) = Len(buckets)
    <3>1. 1 \in Int /\ Len(buckets) \in Int /\ Len(buckets) \in Nat
      OBVIOUS
    <3>2. Cardinality(1 .. Len(buckets)) = IF 1 > Len(buckets) THEN 0 ELSE Len(buckets) - 1 + 1
      BY <3>1, FS_Interval
    <3> QED
      BY <3>1, <3>2
  <2> QED
    BY <2>1, <2>2
<1> QED
  BY <1>2, <1>3, <1>4, FS_CardinalityType

(* One more handle leaves every other where a probe finds it.              *)
LEMMA FilledIsSound ==
  ASSUME NEW buckets \in Seq(Nat), NEW strs, Sound(buckets, strs),
         \E b \in 1 .. Len(buckets) : buckets[b] = 0,
         NEW handle \in Nat \ {0}, handle \notin Handles(buckets), strs[handle] \in Short
  PROVE  /\ Filled(buckets, handle, strs[handle]) \in Seq(Nat)
         /\ Len(Filled(buckets, handle, strs[handle])) = Len(buckets)
         /\ Sound(Filled(buckets, handle, strs[handle]), strs)
         /\ Handles(Filled(buckets, handle, strs[handle])) = Handles(buckets) \cup {handle}
<1> DEFINE n == Len(buckets)
           hash == Hash[strs[handle]]
           end == ProbeEnd(buckets, hash, {0})
           filled == Filled(buckets, handle, strs[handle])
<1>1. hash \in Nat
  BY HashAssumption
<1>2. PICK k \in 0 .. n - 1 :
        /\ end = Bucket(buckets, hash, k)
        /\ buckets[Bucket(buckets, hash, k)] \in {0}
        /\ \A l \in 0 .. k - 1 : buckets[Bucket(buckets, hash, l)] \notin {0}
  <2>1. PICK b \in 1 .. n : buckets[b] \in {0}
    OBVIOUS
  <2> QED
    BY <1>1, <2>1, Probe
<1>3. end \in 1 .. n /\ n \in Nat \ {0}
  <2>1. buckets # <<>> /\ k \in Nat /\ n \in Nat \ {0}
    OBVIOUS
  <2>2. Bucket(buckets, hash, k) \in 1 .. n
    BY <2>1, <1>1, BucketType
  <2> QED
    BY <2>1, <2>2, <1>2
<1>4. filled = [buckets EXCEPT ![end] = handle]
  BY DEF Filled
<1> HIDE DEF end, filled, hash
<1>5. /\ filled \in Seq(Nat) /\ Len(filled) = n
      /\ filled[end] = handle /\ buckets[end] = 0
      /\ \A b \in 1 .. n : b # end => filled[b] = buckets[b]
  BY <1>2, <1>3, <1>4
<1>6. /\ Used(filled) = Used(buckets) \cup {end}
      /\ \A b \in Used(buckets) : b # end /\ filled[b] = buckets[b] /\ b \in 1 .. n
  BY <1>3, <1>5 DEF Used
<1>7. Handles(filled) = Handles(buckets) \cup {handle}
  <2>1. \A b \in Used(filled) : filled[b] \in Handles(buckets) \cup {handle}
    BY <1>5, <1>6 DEF Handles
  <2>2. \A b \in Used(buckets) : b \in Used(filled) /\ buckets[b] = filled[b]
    BY <1>6
  <2>3. end \in Used(filled) /\ handle = filled[end]
    BY <1>5, <1>6
  <2> QED
    BY <2>1, <2>2, <2>3 DEF Handles
<1>8. HeldOnce(filled)
  <2>1. \A b \in Used(buckets) : buckets[b] # handle
    BY DEF Handles
  <2>2. \A b, c \in Used(buckets) : buckets[b] = buckets[c] => b = c
    BY DEF HeldOnce, Sound
  <2> QED
    BY <2>1, <2>2, <1>5, <1>6 DEF HeldOnce
<1>9. \A h \in Nat, l \in Nat : Bucket(filled, h, l) = Bucket(buckets, h, l)
  BY <1>5 DEF Bucket
<1>10. ASSUME NEW b \in 1 .. n, buckets[b] # 0
       PROVE  filled[b] # 0
  BY <1>5, <1>10
<1>11. ASSUME NEW b \in Used(filled)
       PROVE  \E j \in 0 .. n - 1 :
                /\ b = Bucket(filled, Hash[strs[filled[b]]], j)
                /\ \A l \in 0 .. j - 1 : filled[Bucket(filled, Hash[strs[filled[b]]], l)] # 0
  <2>1. CASE b = end
    <3>1. Hash[strs[filled[b]]] = hash
      BY <2>1, <1>5 DEF hash
    <3>2. b = Bucket(filled, hash, k)
      BY <2>1, <1>1, <1>2, <1>9
    <3>3. ASSUME NEW l \in 0 .. k - 1
          PROVE  filled[Bucket(filled, hash, l)] # 0
      <4>1. Bucket(filled, hash, l) = Bucket(buckets, hash, l) /\ l \in Nat
        BY <1>1, <1>9
      <4>2. Bucket(buckets, hash, l) \in 1 .. n
        BY <1>1, <1>3, <4>1, BucketType
      <4> QED
        BY <4>1, <4>2, <1>2, <1>10
    <3> QED
      BY <3>1, <3>2, <3>3
  <2>2. CASE b \in Used(buckets)
    <3> DEFINE h == Hash[strs[buckets[b]]]
    <3>1. filled[b] = buckets[b] /\ h \in Nat
      BY <2>2, <1>6, HashAssumption DEF Sound
    <3>2. PICK j \in 0 .. n - 1 :
            /\ b = Bucket(buckets, h, j)
            /\ \A l \in 0 .. j - 1 : buckets[Bucket(buckets, h, l)] # 0
      BY <2>2 DEF Sound, OnTheWay
    <3> HIDE DEF h
    <3>3. ASSUME NEW l \in 0 .. j - 1
          PROVE  filled[Bucket(filled, h, l)] # 0
      <4>1. Bucket(filled, h, l) = Bucket(buckets, h, l) /\ l \in Nat
        BY <3>1, <1>9
      <4>2. Bucket(buckets, h, l) \in 1 .. n
        BY <3>1, <1>3, <4>1, BucketType
      <4> QED
        BY <4>1, <4>2, <3>2, <1>10
    <3>4. b = Bucket(filled, h, j)
      BY <3>1, <3>2, <1>9
    <3> QED
      BY <3>1, <3>3, <3>4 DEF h
  <2> QED
    BY <2>1, <2>2, <1>6
<1>12. \A b \in Used(filled) : strs[filled[b]] \in Short
  BY <1>5, <1>6 DEF Sound
<1> QED
  BY <1>5, <1>7, <1>8, <1>11, <1>12 DEF Sound, OnTheWay, filled

-----------------------------------------------------------------------------
Wider == IF interned = <<>> THEN InitialBuckets ELSE 2 * Len(interned)
Rehashed(table, i) ==
  IF interned[i] = 0 THEN table ELSE Filled(table, interned[i], strings[interned[i]])
IsRehashing(table, m) ==
  table = [i \in 0 .. m |-> IF i = 0 THEN [b \in 1 .. Wider |-> 0] ELSE Rehashed(table[i - 1], i)]

(* The tables of grow_interned's loop exist, one after each old bucket.    *)
LEMMA RehashingExists ==
  ASSUME NEW m \in Nat
  PROVE  \E table : IsRehashing(table, m)
<1> DEFINE S == {n \in Nat : \E table : IsRehashing(table, n)}
<1>1. 0 \in S
  <2>1. IsRehashing([i \in 0 .. 0 |-> [b \in 1 .. Wider |-> 0]], 0)
    BY DEF IsRehashing
  <2> QED
    BY <2>1
<1>2. ASSUME NEW n \in Nat, n \in S
      PROVE  n + 1 \in S
  <2>1. PICK table : IsRehashing(table, n)
    BY <1>2
  <2> DEFINE next == [i \in 0 .. n + 1 |-> IF i <= n THEN table[i] ELSE Rehashed(table[n], n + 1)]
  <2>2. \A i \in 0 .. n : next[i] = table[i]
    OBVIOUS
  <2>3. ASSUME NEW i \in 0 .. n + 1
        PROVE  next[i] = IF i = 0 THEN [b \in 1 .. Wider |-> 0] ELSE Rehashed(next[i - 1], i)
    <3>1. CASE i = 0
      BY <3>1, <2>1 DEF IsRehashing
    <3>2. CASE i \in 1 .. n
      <4>1. next[i] = table[i] /\ next[i - 1] = table[i - 1]
        BY <3>2
      <4>2. i \in 0 .. n /\ i # 0
        BY <3>2
      <4>3. table[i] = Rehashed(table[i - 1], i)
        BY <4>2, <2>1 DEF IsRehashing
      <4> QED
        BY <4>1, <4>2, <4>3
    <3>3. CASE i = n + 1
      BY <3>3
    <3> QED
      BY <3>1, <3>2, <3>3
  <2> HIDE DEF next
  <2>4. DOMAIN next = 0 .. n + 1 /\ next = [i \in DOMAIN next |-> next[i]]
    BY DEF next
  <2>5. IsRehashing(next, n + 1)
    BY <2>3, <2>4 DEF IsRehashing
  <2> QED
    BY <2>5
<1> HIDE DEF S
<1>3. Nat \subseteq S
  BY <1>1, <1>2, Induction
<1> QED
  BY <1>3 DEF S

(* What the loop has put in once it is past the i-th old bucket.           *)
RehashedSoFar(table, i) ==
  /\ table[i] \in Seq(Nat)
  /\ Len(table[i]) = Wider
  /\ Sound(table[i], strings)
  /\ Handles(table[i]) = {interned[b] : b \in {c \in 1 .. i : interned[c] # 0}}

(* Growing makes more buckets than there were.                             *)
LEMMA WiderIsWider ==
  ASSUME IInv
  PROVE  Wider \in Nat /\ Wider > Len(interned) /\ Wider > interned_len + 1
<1>1. Len(interned) \in Nat /\ interned_len \in Nat
  BY DEF IInv, TypeOK
<1>2. CASE interned = <<>>
  <2>1. Used(interned) = {}
    BY <1>2 DEF Used
  <2>2. interned_len = 0
    BY <2>1, FS_EmptySet DEF IInv
  <2> QED
    BY <1>2, <2>2, BucketsAssumption DEF Wider
<1>3. CASE interned # <<>>
  <2>1. Len(interned) # 0 /\ interned_len < Len(interned)
    BY <1>3 DEF IInv, TypeOK
  <2> QED
    BY <1>1, <1>3, <2>1 DEF Wider
<1> QED
  BY <1>2, <1>3

(* grow_interned drops no handle and puts each where a probe finds it.     *)
LEMMA GrownIsSound ==
  ASSUME IInv
  PROVE  /\ Grown \in Seq(Nat)
         /\ Len(Grown) = Wider
         /\ Sound(Grown, strings)
         /\ Handles(Grown) = Handles(interned)
<1> DEFINE n == Len(interned)
           table == CHOOSE t : IsRehashing(t, n)
           S == {i \in Nat : i <= n => RehashedSoFar(table, i)}
<1>1. n \in Nat /\ IsRehashing(table, n)
  <2>1. n \in Nat
    BY DEF IInv, TypeOK
  <2> QED
    BY <2>1, RehashingExists
<1>2. Grown = table[n]
  BY DEF Grown, IsRehashing, Rehashed, Wider
<1> HIDE DEF table
<1>3. Wider \in Nat /\ Wider > n
  BY WiderIsWider
<1>4. 0 \in S
  <2>1. table[0] = [b \in 1 .. Wider |-> 0]
    BY <1>1 DEF IsRehashing
  <2>2. table[0] \in [1 .. Wider -> Nat]
    BY <2>1
  <2>3. table[0] \in Seq(Nat) /\ Len(table[0]) = Wider
    BY <2>2, <1>3
  <2>4. Used(table[0]) = {}
    BY <2>1, <2>3 DEF Used
  <2> QED
    BY <2>3, <2>4 DEF RehashedSoFar, Sound, HeldOnce, OnTheWay, Handles
<1>5. ASSUME NEW m \in Nat, m \in S
      PROVE  m + 1 \in S
  <2> SUFFICES ASSUME m + 1 <= n PROVE RehashedSoFar(table, m + 1)
    OBVIOUS
  <2> DEFINE i == m + 1
             old == table[m]
  <2>1. i \in 1 .. n /\ m \in 0 .. n /\ RehashedSoFar(table, m)
    BY <1>1, <1>5
  <2>2. table[i] = Rehashed(old, i)
    <3>1. i \in 0 .. n /\ i # 0 /\ i - 1 = m
      BY <1>1
    <3> HIDE DEF i
    <3> QED
      BY <3>1, <1>1 DEF IsRehashing
  <2> DEFINE before == {interned[b] : b \in {c \in 1 .. m : interned[c] # 0}}
             after == {interned[b] : b \in {c \in 1 .. i : interned[c] # 0}}
  <2>3. old \in Seq(Nat) /\ Len(old) = Wider /\ Sound(old, strings) /\ Handles(old) = before
    BY <2>1 DEF RehashedSoFar
  <2>4. CASE interned[i] = 0
    <3>1. after = before
      BY <2>4
    <3>2. table[i] = old
      BY <2>2, <2>4 DEF Rehashed
    <3> QED
      BY <2>3, <3>1, <3>2 DEF RehashedSoFar
  <2>5. CASE interned[i] # 0
    <3> DEFINE handle == interned[i]
    <3>1. after = before \cup {handle}
      BY <2>5
    <3>2. table[i] = Filled(old, handle, strings[handle])
      BY <2>2, <2>5 DEF Rehashed
    <3>3. handle \in Nat \ {0} /\ handle \notin before
      <4>1. handle \in 0 .. Len(strings)
        BY <2>1 DEF IInv, TypeOK
      <4>2. Len(strings) \in Nat
        BY DEF IInv, TypeOK
      <4>3. ASSUME NEW b \in 1 .. m, interned[b] = handle PROVE FALSE
        <5>1. b \in Used(interned) /\ i \in Used(interned) /\ b # i
          BY <2>1, <2>5, <4>3 DEF Used
        <5> QED
          BY <5>1, <4>3 DEF IInv, HeldOnce
      <4> QED
        BY <4>1, <4>2, <4>3, <2>5
    <3>4. strings[handle] \in Short
      <4>1. handle \in Handles(interned)
        BY <2>1, <2>5 DEF Handles, Used
      <4> QED
        BY <4>1 DEF IInv, ShortHandles
    <3>5. \E b \in 1 .. Len(old) : old[b] = 0
      <4> DEFINE P == {c \in 1 .. m : interned[c] # 0}
                 f == [b \in P |-> interned[b]]
      <4>1. IsFiniteSet(1 .. m) /\ Cardinality(1 .. m) = m
        <5>1. 1 \in Int /\ m \in Int
          OBVIOUS
        <5>2. IsFiniteSet(1 .. m) /\ Cardinality(1 .. m) = IF 1 > m THEN 0 ELSE m - 1 + 1
          BY <5>1, FS_Interval
        <5> QED
          BY <5>2
      <4>2. IsFiniteSet(P) /\ Cardinality(P) <= m
        <5>1. P \in SUBSET (1 .. m)
          OBVIOUS
        <5> HIDE DEF P
        <5> QED
          BY <4>1, <5>1, FS_Subset
      <4>3. f \in Surjection(P, before)
        <5>1. f \in [P -> before]
          OBVIOUS
        <5>2. \A h \in before : \E b \in P : f[b] = h
          OBVIOUS
        <5> HIDE DEF f, P, before
        <5> QED
          BY <5>1, <5>2 DEF Surjection
      <4>4. IsFiniteSet(before) /\ Cardinality(before) <= Cardinality(P)
        <5> HIDE DEF f, P, before
        <5> QED
          BY <4>2, <4>3, FS_Surjection
      <4>5. IsFiniteSet(Used(old)) /\ Cardinality(Used(old)) <= Cardinality(before)
        <5>1. HeldOnce(old) /\ Handles(old) \subseteq before
          BY <2>3 DEF Sound
        <5> HIDE DEF before, old
        <5> QED
          BY <5>1, <4>4, <2>3, RoomLeft
      <4>6. Cardinality(Used(old)) < Len(old)
        <5> HIDE DEF before, old, P
        <5>1. Cardinality(Used(old)) \in Nat /\ Cardinality(before) \in Nat /\ Cardinality(P) \in Nat
          BY <4>2, <4>4, <4>5, FS_CardinalityType
        <5> QED
          BY <5>1, <4>2, <4>4, <4>5, <2>1, <2>3, <1>1, <1>3
      <4> HIDE DEF old
      <4>7. HeldOnce(old)
        BY <2>3 DEF Sound
      <4>8. IsFiniteSet(Handles(old)) /\ Handles(old) \subseteq Handles(old)
        BY <2>3, <4>4
      <4> QED
        BY <2>3, <4>6, <4>7, <4>8, RoomLeft
    <3> HIDE DEF old, handle, before, after
    <3>6. /\ Filled(old, handle, strings[handle]) \in Seq(Nat)
          /\ Len(Filled(old, handle, strings[handle])) = Len(old)
          /\ Sound(Filled(old, handle, strings[handle]), strings)
          /\ Handles(Filled(old, handle, strings[handle])) = Handles(old) \cup {handle}
      BY <2>3, <3>3, <3>4, <3>5, FilledIsSound
    <3> QED
      BY <3>6, <3>1, <3>2, <2>3 DEF RehashedSoFar, after
  <2> QED
    BY <2>4, <2>5
<1>6. RehashedSoFar(table, n)
  <2> HIDE DEF S
  <2>1. Nat \subseteq S
    BY <1>4, <1>5, Induction
  <2> QED
    BY <2>1, <1>1 DEF S
<1> QED
  BY <1>2, <1>6 DEF RehashedSoFar, Handles, Used

-----------------------------------------------------------------------------
(* The state's own table is sound: its handles name short strings, each    *)
(* once and where a probe finds it.                                        *)
LEMMA IInvIsSound ==
  ASSUME IInv
  PROVE  /\ interned \in Seq(Nat) /\ Len(interned) \in Nat /\ Len(strings) \in Nat
         /\ Sound(interned, strings)
<1>1. interned \in Seq(Nat) /\ Len(interned) \in Nat /\ Len(strings) \in Nat
  BY DEF IInv, TypeOK
<1>2. \A b \in Used(interned) : strings[interned[b]] \in Short
  <2>1. \A b \in Used(interned) : interned[b] \in Handles(interned)
    BY DEF Handles
  <2> QED
    BY <2>1 DEF IInv, ShortHandles
<1> QED
  BY <1>1, <1>2 DEF IInv, Sound

(* No probe for a string the heap holds ends before it.                    *)
LEMMA ShortIsFound ==
  ASSUME IInv, NEW h \in 1 .. Len(strings), strings[h] \in Short
  PROVE  FindInterned(strings[h]) = h
<1> DEFINE hash == Hash[strings[h]]
           stops == {0} \cup {g \in 1 .. Len(strings) : strings[g] = strings[h]}
<1>1. stops = {0, h}
  BY DEF IInv, OneHandleEach
<1>2. PICK b \in Used(interned) : interned[b] = h
  <2>1. h \in Handles(interned)
    BY DEF IInv, ShortHandles
  <2> QED
    BY <2>1 DEF Handles
<1>3. b \in 1 .. Len(interned) /\ interned # <<>> /\ hash \in Nat
  BY <1>2, HashAssumption, IInvIsSound DEF Used
<1>4. PICK k \in 0 .. Len(interned) - 1 :
        /\ b = Bucket(interned, hash, k)
        /\ \A l \in 0 .. k - 1 : interned[Bucket(interned, hash, l)] # 0
  BY <1>2 DEF IInv, OnTheWay
<1>5. FindInterned(strings[h]) = interned[ProbeEnd(interned, hash, stops)]
  BY <1>3 DEF FindInterned
<1> HIDE DEF stops, hash
<1>6. PICK m \in 0 .. Len(interned) - 1 :
        /\ ProbeEnd(interned, hash, stops) = Bucket(interned, hash, m)
        /\ interned[Bucket(interned, hash, m)] \in stops
        /\ \A l \in 0 .. m - 1 : interned[Bucket(interned, hash, l)] \notin stops
  <2>1. interned[b] \in stops /\ interned \in Seq(Nat)
    BY <1>1, <1>2, IInvIsSound
  <2> QED
    BY <2>1, <1>3, Probe
<1>7. m <= k
  <2>1. CASE m > k
    <3>1. k \in 0 .. m - 1
      BY <2>1
    <3> QED
      BY <3>1, <1>1, <1>2, <1>4, <1>6
  <2> QED
    BY <2>1
<1>8. interned[Bucket(interned, hash, m)] # 0
  <2>1. CASE m = k
    BY <2>1, <1>2, <1>4 DEF Used
  <2>2. CASE m < k
    <3>1. m \in 0 .. k - 1
      BY <2>2
    <3> QED
      BY <3>1, <1>4
  <2> QED
    BY <1>7, <2>1, <2>2
<1> QED
  BY <1>1, <1>5, <1>6, <1>8

(* There are as many handles of short strings as interned_len says.        *)
LEMMA ShortsAreCounted ==
  ASSUME IInv
  PROVE  IsFiniteSet(ShortHandles) /\ Cardinality(ShortHandles) = interned_len
<1>1. IsFiniteSet(ShortHandles)
  <2>1. 1 \in Int /\ Len(strings) \in Int
    BY IInvIsSound
  <2>2. IsFiniteSet(1 .. Len(strings))
    BY <2>1, FS_Interval
  <2>3. ShortHandles \in SUBSET (1 .. Len(strings))
    BY DEF ShortHandles
  <2> QED
    BY <2>2, <2>3, FS_Subset
<1>2. HeldOnce(interned) /\ Handles(interned) = ShortHandles /\ interned \in Seq(Nat)
  BY IInvIsSound DEF IInv
<1>3. Cardinality(Used(interned)) = Cardinality(ShortHandles)
  BY <1>1, <1>2, RoomLeft
<1> QED
  BY <1>1, <1>3 DEF IInv

(* Interning a new string keeps the invariant.                             *)
LEMMA NewShortIInv ==
  ASSUME IInv, NEW bytes \in Short, NewShort(bytes)
  PROVE  IInv'
<1> DEFINE n == Len(strings)
           handle == n + 1
           base == IF Crowded THEN Grown ELSE interned
<1>1. /\ strings \in Seq(Short \cup Long) /\ n \in Nat
      /\ interned_len \in Nat /\ Len(interned) \in Nat /\ interned \in Seq(Nat)
  BY IInvIsSound DEF IInv, TypeOK
<1>2. /\ strings' = Append(strings, bytes)
      /\ interned' = Filled(base, Len(strings'), bytes)
      /\ interned_len' = interned_len + 1
  BY DEF NewShort
<1>3. /\ strings' \in Seq(Short \cup Long) /\ Len(strings') = handle
      /\ strings'[handle] = bytes
      /\ \A h \in 1 .. n : strings'[h] = strings[h]
  BY <1>1, <1>2
<1>4. \A h \in 1 .. n : strings[h] # bytes
  <2> SUFFICES ASSUME NEW h \in 1 .. n, strings[h] = bytes PROVE FALSE
    OBVIOUS
  <2>1. FindInterned(strings[h]) = h
    BY ShortIsFound
  <2> QED
    BY <2>1 DEF NewShort
<1>5. /\ base \in Seq(Nat) /\ Sound(base, strings) /\ Handles(base) = ShortHandles
      /\ Len(base) \in Nat /\ interned_len + 1 < Len(base)
  <2>1. CASE Crowded
    BY <2>1, <1>1, GrownIsSound, WiderIsWider DEF IInv
  <2>2. CASE ~Crowded
    <3>1. (interned_len + 1) * 4 < Len(interned) * 3
      BY <2>2, <1>1 DEF Crowded
    <3>2. interned_len + 1 < Len(interned)
      BY <3>1, <1>1
    <3> QED
      BY <2>2, <3>2, <1>1, IInvIsSound DEF IInv
  <2> QED
    BY <2>1, <2>2
<1> HIDE DEF base
<1>6. \A h \in ShortHandles : h \in 1 .. n /\ strings'[h] = strings[h]
  BY <1>3 DEF ShortHandles
<1>7. Sound(base, strings')
  <2>1. \A b \in Used(base) : base[b] \in ShortHandles
    BY <1>5 DEF Handles
  <2>2. \A b \in Used(base) : strings'[base[b]] = strings[base[b]]
    BY <2>1, <1>6
  <2> QED
    BY <2>2, <1>5 DEF Sound, OnTheWay
<1>8. handle \notin Handles(base) /\ handle \in Nat \ {0}
  BY <1>1, <1>5, <1>6
<1>9. \E b \in 1 .. Len(base) : base[b] = 0
  <2>1. HeldOnce(base)
    BY <1>5 DEF Sound
  <2>2. Cardinality(Used(base)) = interned_len
    BY <2>1, <1>5, ShortsAreCounted, RoomLeft
  <2>3. Cardinality(Used(base)) < Len(base)
    BY <2>2, <1>1, <1>5
  <2> QED
    BY <2>1, <2>3, <1>5, ShortsAreCounted, RoomLeft
<1>10. /\ interned' \in Seq(Nat)
       /\ Len(interned') = Len(base)
       /\ Sound(interned', strings')
       /\ Handles(interned') = ShortHandles \cup {handle}
  <2>1. interned' = Filled(base, handle, strings'[handle])
    BY <1>2, <1>3
  <2>2. strings'[handle] \in Short
    BY <1>3
  <2> HIDE DEF handle
  <2> QED
    BY <2>1, <2>2, <1>5, <1>7, <1>8, <1>9, FilledIsSound
<1>11. ShortHandles' = ShortHandles \cup {handle}
  <2>1. ShortHandles' = {h \in 1 .. handle : strings'[h] \in Short}
    BY <1>3 DEF ShortHandles
  <2>2. handle \in ShortHandles'
    BY <2>1, <1>1, <1>3
  <2>3. ASSUME NEW h \in 1 .. n PROVE h \in ShortHandles' <=> h \in ShortHandles
    BY <2>1, <1>1, <1>3 DEF ShortHandles
  <2>4. \A h \in ShortHandles' : h = handle \/ h \in 1 .. n
    BY <2>1, <1>1
  <2> QED
    BY <2>2, <2>3, <2>4, <1>6
<1>12. TypeOK'
  <2>1. \A b \in 1 .. Len(interned') : interned'[b] \in 0 .. handle
    <3> SUFFICES ASSUME NEW b \in 1 .. Len(interned'), interned'[b] # 0
                 PROVE  interned'[b] \in 0 .. handle
      BY <1>1
    <3>1. interned'[b] \in Handles(interned')
      BY DEF Handles, Used
    <3> QED
      BY <3>1, <1>1, <1>6, <1>10
  <2>2. interned' \in Seq(0 .. handle)
    BY <2>1, <1>10
  <2> QED
    BY <2>2, <1>1, <1>2, <1>3 DEF TypeOK
<1>13. OneHandleEach'
  <2> SUFFICES ASSUME NEW h \in 1 .. handle, NEW g \in 1 .. handle,
                      strings'[h] \in Short, strings'[h] = strings'[g]
               PROVE  h = g
    BY <1>3 DEF OneHandleEach
  <2>1. \A f \in 1 .. handle : f \in 1 .. n \/ f = handle
    BY <1>1
  <2> QED
    BY <2>1, <1>3, <1>4 DEF IInv, OneHandleEach
<1>14. Cardinality(Used(interned')) = interned_len'
  <2>1. HeldOnce(interned')
    BY <1>10 DEF Sound
  <2>2. handle \notin ShortHandles
    BY <1>5, <1>8
  <2>3. /\ IsFiniteSet(ShortHandles \cup {handle})
        /\ Cardinality(ShortHandles \cup {handle}) = interned_len + 1
    BY <2>2, ShortsAreCounted, FS_AddElement
  <2>4. Cardinality(Used(interned')) = Cardinality(ShortHandles \cup {handle})
    BY <2>1, <2>3, <1>10, RoomLeft
  <2> QED
    BY <2>3, <2>4, <1>2
<1> QED
  BY <1>2, <1>5, <1>10, <1>11, <1>12, <1>13, <1>14 DEF IInv, Sound

(* A long string is no short one's bytes.                                  *)
LEMMA NewLongIInv ==
  ASSUME IInv, NEW bytes \in Long, NewLong(bytes)
  PROVE  IInv'
<1> DEFINE n == Len(strings)
<1>1. strings \in Seq(Short \cup Long) /\ n \in Nat /\ interned \in Seq(0 .. n)
  BY IInvIsSound DEF IInv, TypeOK
<1>2. /\ strings' = Append(strings, bytes)
      /\ interned' = interned /\ interned_len' = interned_len
  BY DEF NewLong
<1>3. /\ strings' \in Seq(Short \cup Long) /\ Len(strings') = n + 1
      /\ strings'[n + 1] \notin Short
      /\ \A h \in 1 .. n : strings'[h] = strings[h]
      /\ \A h \in 1 .. n + 1 : h \in 1 .. n \/ h = n + 1
  BY <1>1, <1>2, LengthAssumption
<1>4. TypeOK'
  <2>1. interned \in Seq(0 .. n + 1)
    BY <1>1
  <2> QED
    BY <2>1, <1>2, <1>3 DEF TypeOK, IInv
<1>5. OneHandleEach'
  BY <1>3 DEF OneHandleEach, IInv
<1>6. ShortHandles' = ShortHandles
  <2>1. \A h \in 1 .. n : h \in 1 .. n + 1
    BY <1>1
  <2> QED
    BY <2>1, <1>3 DEF ShortHandles
<1>7. OnTheWay(interned, strings)'
  <2>1. \A b \in Used(interned) : strings'[interned[b]] = strings[interned[b]]
    <3>1. \A b \in Used(interned) : interned[b] \in 1 .. n
      BY <1>1 DEF Used
    <3> QED
      BY <3>1, <1>3
  <2>2. OnTheWay(interned, strings)
    BY DEF IInv
  <2>3. OnTheWay(interned, strings')
    <3> SUFFICES ASSUME NEW b \in Used(interned)
                 PROVE  \E k \in 0 .. Len(interned) - 1 :
                          LET h == strings'[interned[b]]
                          IN  /\ b = Bucket(interned, Hash[h], k)
                              /\ \A l \in 0 .. k - 1 : interned[Bucket(interned, Hash[h], l)] # 0
      BY DEF OnTheWay
    <3>1. strings'[interned[b]] = strings[interned[b]]
      BY <2>1
    <3> QED
      BY <3>1, <2>2 DEF OnTheWay
  <2> QED
    BY <2>3, <1>2
<1> QED
  BY <1>2, <1>4, <1>5, <1>6, <1>7 DEF IInv

(* Nothing is interned at first.                                           *)
LEMMA InitIInv == Init => IInv
<1> SUFFICES ASSUME Init PROVE IInv
  OBVIOUS
<1>1. strings = <<>> /\ interned = <<>> /\ interned_len = 0
  BY DEF Init
<1>2. Used(interned) = {} /\ ShortHandles = {}
  BY <1>1 DEF Used, ShortHandles
<1>3. Cardinality(Used(interned)) = 0
  BY <1>2, FS_EmptySet
<1> QED
  BY <1>1, <1>2, <1>3 DEF IInv, TypeOK, OneHandleEach, HeldOnce, OnTheWay, Handles

(* Every step keeps the invariant.                                         *)
LEMMA NextIInv == IInv /\ [Next]_vars => IInv'
<1> SUFFICES ASSUME IInv, [Next]_vars PROVE IInv'
  OBVIOUS
<1>1. CASE UNCHANGED vars
  BY <1>1 DEF vars, IInv, TypeOK, OneHandleEach, ShortHandles
<1>2. ASSUME NEW bytes \in Short, KnownShort(bytes) PROVE IInv'
  BY <1>1, <1>2 DEF KnownShort
<1>3. ASSUME NEW bytes \in Short, NewShort(bytes) PROVE IInv'
  BY <1>3, NewShortIInv
<1>4. ASSUME NEW bytes \in Long, NewLong(bytes) PROVE IInv'
  BY <1>4, NewLongIInv
<1> QED
  BY <1>1, <1>2, <1>3, <1>4 DEF Next

(* heap/string.rs, new_string: bytes of a short string are found under the *)
(* handle they already have, so that the heap holds them once, for every   *)
(* hash function and however many strings are made.                        *)
THEOREM OneHandleEachTheorem == Spec => []OneHandleEach
<1>1. Spec => []IInv
  BY InitIInv, NextIInv, PTL DEF Spec
<1>2. IInv => OneHandleEach
  BY DEF IInv
<1> QED
  BY <1>1, <1>2, PTL

(* heap/string.rs, find_interned: "the table is never full", and a probe   *)
(* for a string the heap holds ends at that string, through collisions and *)
(* after every grow_interned.                                              *)
THEOREM EveryShortIsFoundTheorem == Spec => []EveryShortIsFound
<1>1. Spec => []IInv
  BY InitIInv, NextIInv, PTL DEF Spec
<1>2. IInv => EveryShortIsFound
  <2> SUFFICES ASSUME IInv PROVE EveryShortIsFound
    OBVIOUS
  <2>1. ASSUME interned # <<>>
        PROVE  \E b \in 1 .. Len(interned) : interned[b] = 0
    <3>1. HeldOnce(interned) /\ Handles(interned) \subseteq ShortHandles
      BY DEF IInv
    <3>2. Cardinality(Used(interned)) < Len(interned)
      BY <2>1 DEF IInv
    <3> QED
      BY <3>1, <3>2, IInvIsSound, ShortsAreCounted, RoomLeft
  <2> QED
    BY <2>1, ShortIsFound DEF EveryShortIsFound
<1> QED
  BY <1>1, <1>2, PTL
==============================================================================
