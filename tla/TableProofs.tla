----------------------------- MODULE TableProofs -----------------------------
(***************************************************************************)
(* A table is a map, for every set of keys and every hash.  The inductive  *)
(* invariant describes the chains of the node part: along a chain some     *)
(* rank falls, so that a search ends; its keys share a main position, and  *)
(* each node is at that position or has one before it, so that a search    *)
(* that starts there meets every key.                                      *)
(***************************************************************************)
EXTENDS Table, Integers, FiniteSetTheorems, FunctionTheorems,
        WellFoundedInduction, TLAPS

Slots == Values \cup {Nil}
NodeRecords == [key : Keys \cup {Nil}, value : Slots, next : Nat]

Main(ns, key) == (Hash[key] % Len(ns)) + 1

(* Along every chain some rank falls.                                      *)
Falls(ns, rank) ==
  \A i \in 1 .. Len(ns) : ns[i].next # 0 => rank[ns[i].next] < rank[i]
Ranked(ns) == \E top \in Nat : \E rank \in [1 .. Len(ns) -> 0 .. top] : Falls(ns, rank)

(* A link joins two used nodes whose keys have the same main position.     *)
Joins(ns) ==
  \A i \in 1 .. Len(ns) : ns[i].next # 0 =>
    /\ ns[i].next \in 1 .. Len(ns)
    /\ ns[i].key # Nil /\ ns[ns[i].next].key # Nil
    /\ Main(ns, ns[ns[i].next].key) = Main(ns, ns[i].key)

OneBefore(ns) ==
  \A i, j \in 1 .. Len(ns) : ns[i].next # 0 /\ ns[i].next = ns[j].next => i = j

(* A used node starts its chain or has one before it.                      *)
Reached(ns) ==
  \A i \in 1 .. Len(ns) : ns[i].key # Nil =>
    Main(ns, ns[i].key) = i \/ \E p \in 1 .. Len(ns) : ns[p].next = i

KeysOnce(ns) ==
  \A i, j \in 1 .. Len(ns) : ns[i].key # Nil /\ ns[i].key = ns[j].key => i = j

NodesOK(ns) ==
  /\ ns \in Seq(NodeRecords)
  /\ \A i \in 1 .. Len(ns) : ns[i].value # Nil => ns[i].key # Nil
  /\ KeysOnce(ns)
  /\ Ranked(ns)
  /\ Joins(ns)
  /\ OneBefore(ns)
  /\ Reached(ns)

Bodies == [array : Seq(Slots), nodes : Seq(NodeRecords), free : Nat]

(* What the walk for an unused node has passed is used.                    *)
Walked(b) ==
  /\ b.free <= Len(b.nodes)
  /\ \A i \in 1 .. Len(b.nodes) : i > Len(b.nodes) - b.free => b.nodes[i].key # Nil

BodyOK(b) ==
  /\ b \in Bodies
  /\ NodesOK(b.nodes)
  /\ Walked(b)
  /\ \A i \in 1 .. Len(b.nodes) : b.nodes[i].key # Nil => ~InArray(b, b.nodes[i].key)
  /\ \A i \in 1 .. Len(b.array) : b.array[i] # Nil => i \in Integers

IInv ==
  /\ BodyOK(body)
  /\ cursor \in Keys \cup {Nil, Idle}
  /\ CursorHasPlace

-----------------------------------------------------------------------------
(* The natural numbers are well ordered.                                   *)
LEMMA LeastOf ==
  ASSUME NEW S, S \subseteq Nat, S # {}
  PROVE  \E n \in S : \A m \in S : n <= m
<1> DEFINE R == OpToRel(<, Nat)
<1>1. IsWellFoundedOn(R, Nat)
  BY NatLessThanWellFounded
<1>2. ASSUME NEW x \in Nat, NEW y \in Nat, x < y
      PROVE  <<x, y>> \in R
  BY <1>2 DEF OpToRel
<1> HIDE DEF R
<1>3. PICK n \in S : \A m \in S : <<m, n>> \notin R
  BY <1>1, WFMin
<1>4. ASSUME NEW m \in S
      PROVE  n <= m
  <2>1. m \in Nat /\ n \in Nat
    OBVIOUS
  <2>2. ~(m < n)
    BY <1>2, <1>3, <2>1
  <2> QED
    BY <2>1, <2>2
<1> QED
  BY <1>4

(* Induction over the natural numbers, as a fact about sets.               *)
LEMMA Induction ==
  ASSUME NEW S, 0 \in S, \A n \in Nat : n \in S => n + 1 \in S
  PROVE  Nat \subseteq S
<1> SUFFICES ASSUME Nat \ S # {} PROVE FALSE
  OBVIOUS
<1>1. PICK n \in Nat \ S : \A m \in Nat \ S : n <= m
  BY LeastOf
<1>2. n # 0 /\ n - 1 \in Nat /\ n - 1 \in S
  BY <1>1
<1> QED
  BY <1>2

(* A set of numbers with a bound has a greatest.                           *)
LEMMA GreatestOf ==
  ASSUME NEW S, S \subseteq Nat, S # {}, NEW top \in Nat, \A m \in S : m <= top
  PROVE  \E n \in S : \A m \in S : m <= n
<1> DEFINE T == {t \in Nat : \A m \in S : m <= t}
<1>1. T # {} /\ T \subseteq Nat
  OBVIOUS
<1>2. PICK t \in T : \A u \in T : t <= u
  <2> HIDE DEF T
  <2> QED
    BY <1>1, LeastOf
<1>3. t \in Nat /\ \A m \in S : m <= t /\ m \in Nat
  OBVIOUS
<1>4. CASE t \in S
  BY <1>3, <1>4
<1>5. CASE t \notin S
  <2>0. \A m \in S : m \in Nat /\ m # t /\ m <= t
    BY <1>3, <1>5
  <2>9. PICK one \in S : TRUE
    OBVIOUS
  <2>1. t # 0 /\ \A m \in S : m <= t - 1
    BY <2>0, <2>9, <1>3
  <2>2. t - 1 \in T
    BY <2>1, <1>3
  <2> QED
    BY <2>2, <1>2, <1>3
<1> QED
  BY <1>4, <1>5

-----------------------------------------------------------------------------
IsWalk(f, ns, key) ==
  f = [i \in 1 .. Len(ns) |-> IF ns[i].key = key THEN i
                              ELSE IF ns[i].next = 0 THEN 0 ELSE f[ns[i].next]]

(* find_node comes to an end, from every node.                             *)
LEMMA WalkExists ==
  ASSUME NEW ns, NodesOK(ns), NEW key
  PROVE  \E f : IsWalk(f, ns, key)
<1> DEFINE n == Len(ns)
<1>0. PICK top \in Nat : \E rank \in [1 .. n -> 0 .. top] : Falls(ns, rank)
  BY DEF NodesOK, Ranked
<1>1. PICK rank \in [1 .. n -> 0 .. top] : Falls(ns, rank)
  BY <1>0
<1> DEFINE D(r) == {j \in 1 .. n : rank[j] < r}
           Step(g, i) == IF ns[i].key = key THEN i
                         ELSE IF ns[i].next = 0 THEN 0 ELSE g[ns[i].next]
           Part(g, r) == g = [i \in D(r) |-> Step(g, i)]
           S == {r \in Nat : \E g : Part(g, r)}
<1>2. 0 \in S
  <2>1. D(0) = {}
    BY <1>1
  <2>2. Part([i \in {} |-> 0], 0)
    BY <2>1
  <2> QED
    BY <2>2
<1>3. ASSUME NEW r \in Nat, r \in S
      PROVE  r + 1 \in S
  <2>1. PICK g : Part(g, r)
    BY <1>3
  <2> DEFINE h == [i \in D(r + 1) |-> Step(g, i)]
  <2>2. ASSUME NEW i \in D(r + 1) PROVE Step(g, i) = Step(h, i)
    <3> SUFFICES ASSUME ns[i].next # 0 PROVE g[ns[i].next] = h[ns[i].next]
      OBVIOUS
    <3> DEFINE j == ns[i].next
    <3>1. j \in 1 .. n /\ rank[j] < rank[i]
      BY <1>1 DEF Falls, NodesOK, Joins
    <3>2. j \in D(r) /\ j \in D(r + 1)
      BY <1>1, <3>1
    <3>3. g[j] = Step(g, j)
      BY <2>1, <3>2
    <3>4. h[j] = Step(g, j)
      BY <3>2
    <3> QED
      BY <3>3, <3>4
  <2>3. Part(h, r + 1)
    BY <2>2
  <2> HIDE DEF h, Part
  <2>4. \E g1 : Part(g1, r + 1)
    BY <2>3
  <2> QED
    BY <2>4
<1>4. top + 1 \in S
  <2> HIDE DEF S
  <2>1. Nat \subseteq S
    BY <1>2, <1>3, Induction
  <2> QED
    BY <2>1
<1>5. D(top + 1) = 1 .. n
  <2>1. \A j \in 1 .. n : rank[j] \in 0 .. top
    BY <1>1
  <2> QED
    BY <2>1
<1>6. PICK g : Part(g, top + 1)
  BY <1>4
<1>7. IsWalk(g, ns, key)
  BY <1>5, <1>6 DEF IsWalk
<1> QED
  BY <1>7

(* A main position is a node.                                              *)
LEMMA MainType ==
  ASSUME NEW ns, Len(ns) \in Nat \ {0}, NEW key \in Keys
  PROVE  Main(ns, key) \in 1 .. Len(ns)
<1>1. Hash[key] \in Nat
  BY HashAssumption
<1>2. Hash[key] % Len(ns) \in 0 .. Len(ns) - 1
  BY <1>1
<1> QED
  BY <1>2 DEF Main

(* find_node answers a node that holds the key, and the one if there is    *)
(* one.                                                                    *)
LEMMA WalkIsRight ==
  ASSUME NEW ns, NodesOK(ns), NEW key \in Keys, NEW f, IsWalk(f, ns, key)
  PROVE  /\ \A i \in 1 .. Len(ns) : f[i] # 0 => f[i] \in 1 .. Len(ns) /\ ns[f[i]].key = key
         /\ \A i \in 1 .. Len(ns) : ns[i].key = key => f[Main(ns, key)] = i
<1> DEFINE n == Len(ns)
<1>0. PICK top \in Nat : \E rank \in [1 .. n -> 0 .. top] : Falls(ns, rank)
  BY DEF NodesOK, Ranked
<1>1. PICK rank \in [1 .. n -> 0 .. top] : Falls(ns, rank)
  BY <1>0
<1>2. \A i \in 1 .. n : f[i] = IF ns[i].key = key THEN i
                               ELSE IF ns[i].next = 0 THEN 0 ELSE f[ns[i].next]
  BY DEF IsWalk
<1>3. ASSUME NEW i \in 1 .. n, f[i] # 0, ~(f[i] \in 1 .. n /\ ns[f[i]].key = key)
      PROVE  FALSE
  <2> DEFINE Bad(j) == f[j] # 0 /\ ~(f[j] \in 1 .. n /\ ns[f[j]].key = key)
             S == {rank[j] : j \in {k \in 1 .. n : Bad(k)}}
  <2>1. S # {} /\ S \subseteq Nat
    BY <1>1, <1>3
  <2>2. PICK r \in S : \A s \in S : r <= s
    <3> HIDE DEF S
    <3> QED
      BY <2>1, LeastOf
  <2>3. PICK j \in 1 .. n : r = rank[j] /\ Bad(j)
    OBVIOUS
  <2>4. ns[j].key # key /\ ns[j].next # 0 /\ f[j] = f[ns[j].next]
    BY <1>2, <2>3
  <2>5. ns[j].next \in 1 .. n /\ rank[ns[j].next] < rank[j]
    BY <1>1, <2>4 DEF Falls, NodesOK, Joins
  <2>6. rank[ns[j].next] \in S
    BY <2>3, <2>4, <2>5
  <2>7. r <= rank[ns[j].next]
    BY <2>2, <2>6
  <2>8. r \in Nat /\ rank[ns[j].next] \in Nat
    BY <2>1, <2>2, <2>6
  <2> QED
    BY <2>3, <2>5, <2>7, <2>8
<1>4. ASSUME NEW i \in 1 .. n, ns[i].key = key
      PROVE  f[Main(ns, key)] = i
  <2> DEFINE On(j) == ns[j].key # Nil /\ Main(ns, ns[j].key) = Main(ns, key) /\ f[j] = i
             S == {rank[j] : j \in {k \in 1 .. n : On(k)}}
  <2>1. key # Nil
    BY NilAssumption
  <2>2. On(i)
    BY <1>2, <1>4, <2>1
  <2>3. S # {} /\ S \subseteq Nat /\ \A s \in S : s <= top
    BY <1>1, <2>2
  <2>4. PICK r \in S : \A s \in S : s <= r
    <3> HIDE DEF S
    <3> QED
      BY <2>3, GreatestOf
  <2>5. PICK j \in 1 .. n : r = rank[j] /\ On(j)
    OBVIOUS
  <2>6. CASE Main(ns, ns[j].key) = j
    BY <2>5, <2>6
  <2>7. CASE \E p \in 1 .. n : ns[p].next = j
    <3>1. PICK p \in 1 .. n : ns[p].next = j
      BY <2>7
    <3>2. /\ rank[j] < rank[p] /\ ns[p].key # Nil
          /\ Main(ns, ns[p].key) = Main(ns, key)
      BY <1>1, <2>5, <3>1 DEF Falls, NodesOK, Joins
    <3>3. f[p] = i
      <4>1. CASE ns[p].key = key
        BY <4>1, <1>2, <1>4, <2>1 DEF NodesOK, KeysOnce
      <4>2. CASE ns[p].key # key
        <5>1. ns[p].next # 0
          BY <3>1
        <5> QED
          BY <5>1, <4>2, <1>2, <2>5, <3>1
      <4> QED
        BY <4>1, <4>2
    <3>4. rank[p] \in S
      BY <3>2, <3>3
    <3>5. rank[p] <= r /\ rank[p] \in Nat /\ r \in Nat
      BY <3>4, <2>3, <2>4
    <3> QED
      BY <3>2, <3>5, <2>5
  <2> QED
    BY <2>5, <2>6, <2>7 DEF NodesOK, Reached
<1> QED
  BY <1>3, <1>4

(* find_node answers the node that holds the key, or none if none does.    *)
LEMMA FindIsRight ==
  ASSUME NEW b, NodesOK(b.nodes), NEW key \in Keys
  PROVE  /\ FindNode(b, key) \in 0 .. Len(b.nodes)
         /\ FindNode(b, key) # 0 => b.nodes[FindNode(b, key)].key = key
         /\ \A i \in 1 .. Len(b.nodes) : b.nodes[i].key = key => FindNode(b, key) = i
<1> DEFINE ns == b.nodes
           f == CHOOSE g : IsWalk(g, ns, key)
<1>1. Len(ns) \in Nat
  BY DEF NodesOK
<1>2. CASE ns = <<>>
  BY <1>2 DEF FindNode
<1>3. CASE ns # <<>>
  <2>1. FindNode(b, key) = f[Main(ns, key)]
    BY <1>3 DEF FindNode, IsWalk, Main, MainPosition
  <2>2. IsWalk(f, ns, key)
    BY WalkExists
  <2>3. Len(ns) \in Nat \ {0}
    BY <1>1, <1>3 DEF NodesOK
  <2> HIDE DEF f, ns
  <2>4. Main(ns, key) \in 1 .. Len(ns)
    BY <2>3, MainType
  <2>5. /\ \A i \in 1 .. Len(ns) : f[i] # 0 => f[i] \in 1 .. Len(ns) /\ ns[f[i]].key = key
        /\ \A i \in 1 .. Len(ns) : ns[i].key = key => f[Main(ns, key)] = i
    BY <2>2, WalkIsRight DEF ns
  <2> QED
    BY <2>1, <2>3, <2>4, <2>5 DEF ns
<1> QED
  BY <1>2, <1>3

-----------------------------------------------------------------------------
(* What a node part holds: its keys with their values, erased keys too.    *)
Contents(ns) == {<<ns[i].key, ns[i].value>> : i \in {j \in 1 .. Len(ns) : ns[j].key # Nil}}

(* A read of a key outside the array part answers what the nodes hold.     *)
LEMMA GetByContents ==
  ASSUME NEW b, NodesOK(b.nodes), NEW key \in Keys, ~InArray(b, key)
  PROVE  /\ \A value : <<key, value>> \in Contents(b.nodes) =>
              FindNode(b, key) # 0 /\ TableGet(b, key) = value
         /\ FindNode(b, key) # 0 =>
              /\ b.nodes[FindNode(b, key)].key = key
              /\ <<key, TableGet(b, key)>> \in Contents(b.nodes)
         /\ FindNode(b, key) = 0 => TableGet(b, key) = Nil
<1> DEFINE at == FindNode(b, key)
           ns == b.nodes
<1>1. key # Nil /\ Len(ns) \in Nat
  BY NilAssumption DEF NodesOK
<1>2. /\ at \in 0 .. Len(ns)
      /\ at # 0 => ns[at].key = key
      /\ \A i \in 1 .. Len(ns) : ns[i].key = key => at = i
  BY FindIsRight
<1>3. TableGet(b, key) = IF at = 0 THEN Nil ELSE ns[at].value
  BY DEF TableGet
<1>4. ASSUME NEW value, <<key, value>> \in Contents(ns)
      PROVE  at # 0 /\ TableGet(b, key) = value
  <2>1. PICK i \in 1 .. Len(ns) : ns[i].key = key /\ ns[i].value = value
    BY <1>4 DEF Contents
  <2>2. at = i /\ i # 0
    BY <1>2, <2>1
  <2> QED
    BY <1>3, <2>1, <2>2
<1>5. ASSUME at # 0
      PROVE  ns[at].key = key /\ <<key, TableGet(b, key)>> \in Contents(ns)
  <2>1. at \in 1 .. Len(ns)
    BY <1>1, <1>2, <1>5
  <2> QED
    BY <1>1, <1>2, <1>3, <1>5, <2>1 DEF Contents
<1> QED
  BY <1>3, <1>4, <1>5

(* Nothing is linked to an unused node, and it is linked to nothing.       *)
LEMMA UnusedIsApart ==
  ASSUME NEW ns, NodesOK(ns), NEW at \in 1 .. Len(ns), ns[at].key = Nil
  PROVE  /\ ns[at].next = 0 /\ ns[at].value = Nil
         /\ \A i \in 1 .. Len(ns) : ns[i].next # at
BY DEF NodesOK, Joins

(* Two nodes replaced at once.                                             *)
LEMMA PutTwo ==
  ASSUME NEW R, NEW ns \in Seq(R), NEW i \in 1 .. Len(ns), NEW j \in 1 .. Len(ns),
         i # j, NEW x \in R, NEW y \in R,
         NEW after, after = [ns EXCEPT ![i] = x, ![j] = y]
  PROVE  /\ after \in Seq(R) /\ Len(after) = Len(ns)
         /\ after[i] = x /\ after[j] = y
         /\ \A k \in 1 .. Len(ns) : k \notin {i, j} => after[k] = ns[k]
<1> DEFINE one == [ns EXCEPT ![i] = x]
<1>1. /\ one \in Seq(R) /\ Len(one) = Len(ns) /\ one[i] = x
      /\ \A k \in 1 .. Len(ns) : k # i => one[k] = ns[k]
  OBVIOUS
<1>2. after = [one EXCEPT ![j] = y]
  OBVIOUS
<1> HIDE DEF one
<1>3. /\ after \in Seq(R) /\ Len(after) = Len(one) /\ after[j] = y
      /\ \A k \in 1 .. Len(one) : k # j => after[k] = one[k]
  BY <1>1, <1>2
<1> QED
  BY <1>1, <1>3

(* The new key takes an unused node, its main position.                    *)
LEMMA PutFree ==
  ASSUME NEW ns, NodesOK(ns), NEW key \in Keys, NEW value \in Values,
         NEW main \in 1 .. Len(ns), main = Main(ns, key), ns[main].key = Nil,
         \A i \in 1 .. Len(ns) : ns[i].key # key,
         NEW after, after = [ns EXCEPT ![main] = Node(key, value, 0)]
  PROVE  /\ NodesOK(after) /\ Len(after) = Len(ns)
         /\ Contents(after) = Contents(ns) \cup {<<key, value>>}
<1> DEFINE n == Len(ns)
<1>1. ns \in Seq(NodeRecords) /\ n \in Nat /\ key # Nil /\ value # Nil
  BY NilAssumption DEF NodesOK
<1>2. /\ after \in Seq(NodeRecords) /\ Len(after) = n
      /\ after[main] = Node(key, value, 0)
      /\ \A i \in 1 .. n : i # main => after[i] = ns[i]
  <2>1. Node(key, value, 0) \in NodeRecords
    BY DEF NodeRecords, Node, Slots
  <2> QED
    BY <1>1, <2>1
<1>3. \A k : Main(after, k) = Main(ns, k)
  BY <1>2 DEF Main
<1>4. after[main].key = key /\ after[main].value = value /\ after[main].next = 0
  BY <1>2 DEF Node
<1>5. ns[main].next = 0 /\ \A i \in 1 .. n : ns[i].next # main
  BY UnusedIsApart
<1>6. Ranked(after)
  <2>0. PICK top \in Nat : \E rank \in [1 .. n -> 0 .. top] : Falls(ns, rank)
    BY DEF NodesOK, Ranked
  <2>1. PICK rank \in [1 .. n -> 0 .. top] : Falls(ns, rank)
    BY <2>0
  <2>2. Falls(after, rank)
    BY <2>1, <1>2, <1>4 DEF Falls
  <2> QED
    BY <2>2, <1>2 DEF Ranked
<1>7. \A i \in 1 .. n : after[i].next = ns[i].next
  BY <1>2, <1>4, <1>5
<1>8. Joins(after)
  <2> SUFFICES ASSUME NEW i \in 1 .. n, after[i].next # 0
               PROVE  /\ after[i].next \in 1 .. n
                      /\ after[i].key # Nil /\ after[after[i].next].key # Nil
                      /\ Main(ns, after[after[i].next].key) = Main(ns, after[i].key)
    BY <1>2, <1>3, ZenonT(40) DEF Joins
  <2>1. i # main /\ ns[i].next # 0 /\ ns[i].next # main /\ after[i].next = ns[i].next
    BY <1>4, <1>5, <1>7
  <2>2. /\ ns[i].next \in 1 .. n
        /\ ns[i].key # Nil /\ ns[ns[i].next].key # Nil
        /\ Main(ns, ns[ns[i].next].key) = Main(ns, ns[i].key)
    BY <2>1 DEF NodesOK, Joins
  <2> QED
    BY <2>1, <2>2, <1>2
<1>9. OneBefore(after)
  BY <1>2, <1>7 DEF OneBefore, NodesOK
<1>10. Reached(after)
  <2> SUFFICES ASSUME NEW i \in 1 .. n, after[i].key # Nil, Main(ns, after[i].key) # i
               PROVE  \E p \in 1 .. n : after[p].next = i
    BY <1>2, <1>3 DEF Reached
  <2>1. i # main
    BY <1>4
  <2>2. \E p \in 1 .. n : ns[p].next = i
    BY <2>1, <1>2 DEF NodesOK, Reached
  <2> QED
    BY <2>2, <1>7
<1>11. KeysOnce(after)
  BY <1>2, <1>4 DEF KeysOnce, NodesOK
<1>12. \A i \in 1 .. n : after[i].value # Nil => after[i].key # Nil
  BY <1>1, <1>2, <1>4 DEF NodesOK
<1>13. Contents(after) = Contents(ns) \cup {<<key, value>>}
  BY <1>1, <1>2, <1>4 DEF Contents
<1> QED
  BY <1>2, <1>6, <1>8, <1>9, <1>10, <1>11, <1>12, <1>13 DEF NodesOK

(* A new key whose main position is taken, and an unused node for it.      *)
Collides(ns, key, main, at) ==
  /\ main \in 1 .. Len(ns) /\ main = Main(ns, key) /\ ns[main].key # Nil
  /\ \A i \in 1 .. Len(ns) : ns[i].key # key
  /\ at \in 1 .. Len(ns) /\ ns[at].key = Nil

ChainedNodes(ns, key, value, main, at) ==
  [ns EXCEPT ![at] = Node(key, value, ns[main].next), ![main].next = at]

(* The new key goes to an unused node, right after the first of its chain. *)
LEMMA PutChained ==
  ASSUME NEW ns, NodesOK(ns), NEW key \in Keys, NEW value \in Values,
         NEW main, NEW at, Collides(ns, key, main, at), Main(ns, ns[main].key) = main,
         NEW after, after = ChainedNodes(ns, key, value, main, at)
  PROVE  /\ NodesOK(after) /\ Len(after) = Len(ns) /\ after[at].key # Nil
         /\ \A i \in 1 .. Len(ns) : ns[i].key # Nil => after[i].key # Nil
         /\ Contents(after) = Contents(ns) \cup {<<key, value>>}
<1>0. /\ main \in 1 .. Len(ns) /\ main = Main(ns, key) /\ ns[main].key # Nil
      /\ \A i \in 1 .. Len(ns) : ns[i].key # key
      /\ at \in 1 .. Len(ns) /\ ns[at].key = Nil
  BY DEF Collides
<1> USE <1>0
<1> DEFINE n == Len(ns)
           old == ns[main].next
           linked == Node(ns[main].key, ns[main].value, at)
<1>1. /\ ns \in Seq(NodeRecords) /\ n \in Nat /\ key # Nil /\ value # Nil /\ at # main
      /\ ns[main] \in NodeRecords /\ old \in Nat
  <2>1. ns \in Seq(NodeRecords) /\ n \in Nat /\ key # Nil /\ value # Nil /\ at # main
    BY NilAssumption DEF NodesOK
  <2>2. ns[main] \in NodeRecords
    BY <2>1
  <2> QED
    BY <2>1, <2>2 DEF NodeRecords
<1>2. /\ after \in Seq(NodeRecords) /\ Len(after) = n
      /\ after[at] = Node(key, value, old)
      /\ after[main] = linked
      /\ \A i \in 1 .. n : i \notin {at, main} => after[i] = ns[i]
  <2>1. Node(key, value, old) \in NodeRecords
    <3> HIDE DEF old
    <3> QED
      BY <1>1 DEF NodeRecords, Node, Slots
  <2>2. linked \in NodeRecords
    BY <1>1 DEF NodeRecords, Node
  <2>3. linked = [ns[main] EXCEPT !.next = at]
    BY <1>1 DEF NodeRecords, Node
  <2>4. after = [ns EXCEPT ![at] = Node(key, value, old), ![main] = linked]
    BY <1>1, <2>3 DEF ChainedNodes
  <2> DEFINE new == Node(key, value, old)
  <2> HIDE DEF new, linked
  <2>5. new \in NodeRecords /\ after = [ns EXCEPT ![at] = new, ![main] = linked]
    BY <2>1, <2>4 DEF new
  <2> HIDE DEF n
  <2>6. /\ after \in Seq(NodeRecords) /\ Len(after) = Len(ns)
        /\ after[at] = new /\ after[main] = linked
        /\ \A i \in 1 .. Len(ns) : i \notin {at, main} => after[i] = ns[i]
    BY <1>1, <2>2, <2>5, PutTwo
  <2> QED
    BY <2>6 DEF new, n
<1>3. \A k : Main(after, k) = Main(ns, k)
  BY <1>2 DEF Main
<1>4. /\ after[at].key = key /\ after[at].value = value /\ after[at].next = old
      /\ after[main].key = ns[main].key /\ after[main].value = ns[main].value
      /\ after[main].next = at
  BY <1>1, <1>2 DEF Node, NodeRecords
<1>5. ns[at].next = 0 /\ \A i \in 1 .. n : ns[i].next # at
  BY UnusedIsApart
<1>6. Ranked(after)
  <2>0. PICK top \in Nat : \E rank \in [1 .. n -> 0 .. top] : Falls(ns, rank)
    BY DEF NodesOK, Ranked
  <2>1. PICK rank \in [1 .. n -> 0 .. top] : Falls(ns, rank)
    BY <2>0
  <2> DEFINE twice == [i \in 1 .. n |-> IF i = at THEN 2 * rank[main] ELSE 2 * rank[i] + 1]
  <2>2. \A i \in 1 .. n : rank[i] \in Nat /\ rank[i] <= top
    BY <2>1
  <2>3. twice \in [1 .. n -> 0 .. 2 * top + 1]
    BY <2>2
  <2>4. ASSUME NEW i \in 1 .. n, after[i].next # 0
        PROVE  twice[after[i].next] < twice[i]
    <3>1. CASE i = main
      BY <3>1, <1>1, <1>4, <2>2
    <3>2. CASE i = at
      <4>1. old # 0 /\ old \in 1 .. n /\ rank[old] < rank[main] /\ old # at
        BY <2>4, <3>2, <1>4, <1>5, <2>1 DEF Falls, NodesOK, Joins
      <4>2. twice[old] = 2 * rank[old] + 1 /\ twice[at] = 2 * rank[main]
        BY <4>1
      <4> HIDE DEF old, twice
      <4>3. 2 * rank[old] + 1 < 2 * rank[main]
        BY <4>1, <2>2
      <4> QED
        BY <4>2, <4>3, <3>2, <1>4
    <3>3. CASE i \notin {at, main}
      <4> DEFINE j == ns[i].next
      <4>1. after[i].next = j /\ j # 0 /\ j # at
        BY <1>2, <1>5, <3>3, <2>4
      <4>2. j \in 1 .. n /\ rank[j] < rank[i]
        BY <4>1, <2>1 DEF Falls, NodesOK, Joins
      <4>3. twice[j] = 2 * rank[j] + 1 /\ twice[i] = 2 * rank[i] + 1
        BY <4>1, <4>2, <3>3
      <4> HIDE DEF j, twice
      <4>4. 2 * rank[j] + 1 < 2 * rank[i] + 1
        BY <4>2, <2>2
      <4> QED
        BY <4>1, <4>3, <4>4
    <3> QED
      BY <3>1, <3>2, <3>3
  <2>5. Falls(after, twice)
    BY <2>4, <1>2 DEF Falls
  <2>6. 2 * top + 1 \in Nat
    OBVIOUS
  <2> HIDE DEF twice
  <2> QED
    BY <2>3, <2>5, <2>6, <1>2 DEF Ranked
<1>7. \A i \in 1 .. n : i \notin {at, main} => after[i].next = ns[i].next
  BY <1>2
<1>8. \A i \in 1 .. n : i # at => after[i].key = ns[i].key
  BY <1>2, <1>4
<1>9. Joins(after)
  <2> SUFFICES ASSUME NEW i \in 1 .. n, after[i].next # 0
               PROVE  /\ after[i].next \in 1 .. n
                      /\ after[i].key # Nil /\ after[after[i].next].key # Nil
                      /\ Main(after, after[after[i].next].key) = Main(after, after[i].key)
    BY <1>2 DEF Joins
  <2>1. CASE i = main
    BY <2>1, <1>1, <1>3, <1>4
  <2>2. CASE i = at
    <3>1. after[at].next = old /\ old # 0 /\ old # at
      BY <2>2, <1>4, <1>5
    <3>2. /\ old \in 1 .. n /\ ns[old].key # Nil
          /\ Main(ns, ns[old].key) = Main(ns, ns[main].key)
      BY <3>1 DEF NodesOK, Joins
    <3>3. after[old].key = ns[old].key
      BY <3>1, <3>2, <1>8
    <3> HIDE DEF old
    <3>4. Main(after, after[at].key) = main
      BY <1>3, <1>4
    <3>5. Main(after, after[old].key) = main
      BY <1>3, <3>2, <3>3
    <3>6. after[at].key # Nil /\ after[old].key # Nil
      BY <1>1, <1>4, <3>2, <3>3
    <3> QED
      BY <2>2, <3>1, <3>2, <3>4, <3>5, <3>6
  <2>3. CASE i \notin {at, main}
    <3> DEFINE j == ns[i].next
    <3>1. after[i].next = j /\ j # 0 /\ j # at /\ after[i].key = ns[i].key
      BY <2>3, <1>5, <1>7, <1>8
    <3>2. /\ j \in 1 .. n /\ ns[i].key # Nil /\ ns[j].key # Nil
          /\ Main(ns, ns[j].key) = Main(ns, ns[i].key)
      BY <3>1 DEF NodesOK, Joins
    <3>3. after[j].key = ns[j].key
      BY <3>1, <3>2, <1>8
    <3> HIDE DEF j
    <3> QED
      BY <3>1, <3>2, <3>3, <1>3
  <2> QED
    BY <2>1, <2>2, <2>3
<1>10. OneBefore(after)
  BY <1>2, <1>4, <1>5, <1>7, <1>1 DEF OneBefore, NodesOK
<1>11. Reached(after)
  <2> SUFFICES ASSUME NEW i \in 1 .. n, after[i].key # Nil, Main(ns, after[i].key) # i
               PROVE  \E p \in 1 .. n : after[p].next = i
    BY <1>2, <1>3 DEF Reached
  <2>1. CASE i = at
    BY <2>1, <1>4
  <2>2. CASE i # at
    <3>1. PICK p \in 1 .. n : ns[p].next = i
      BY <2>2, <1>8 DEF NodesOK, Reached
    <3>2. CASE p = main
      BY <3>1, <3>2, <1>4
    <3>3. CASE p # main
      BY <3>1, <3>3, <1>5, <1>7
    <3> QED
      BY <3>2, <3>3
  <2> QED
    BY <2>1, <2>2
<1>12. KeysOnce(after)
  BY <1>2, <1>4, <1>8 DEF KeysOnce, NodesOK
<1>13. \A i \in 1 .. n : i # at => after[i].value = ns[i].value
  BY <1>2, <1>4
<1>14. \A i \in 1 .. n : after[i].value # Nil => after[i].key # Nil
  BY <1>1, <1>4, <1>8, <1>13 DEF NodesOK
<1>15. Contents(after) = Contents(ns) \cup {<<key, value>>}
  <2>1. \A i \in 1 .. n : ns[i].key # Nil =>
          i # at /\ after[i].key = ns[i].key /\ after[i].value = ns[i].value
    BY <1>8, <1>13
  <2>2. Contents(ns) \subseteq Contents(after)
    BY <2>1, <1>2 DEF Contents
  <2>3. at \in {j \in 1 .. Len(after) : after[j].key # Nil}
    BY <1>1, <1>2, <1>4
  <2>4. <<key, value>> \in Contents(after)
    BY <2>3, <1>4 DEF Contents
  <2>5. ASSUME NEW i \in 1 .. n, after[i].key # Nil
        PROVE  <<after[i].key, after[i].value>> \in Contents(ns) \cup {<<key, value>>}
    <3>1. CASE i = at
      BY <3>1, <1>4
    <3>2. CASE i # at
      BY <2>5, <3>2, <1>8, <1>13 DEF Contents
    <3> QED
      BY <3>1, <3>2
  <2>6. Contents(after) \subseteq Contents(ns) \cup {<<key, value>>}
    BY <2>5, <1>2 DEF Contents
  <2> QED
    BY <2>2, <2>4, <2>6
<1> QED
  BY <1>1, <1>2, <1>4, <1>6, <1>8, <1>9, <1>10, <1>11, <1>12, <1>14, <1>15 DEF NodesOK

(* A key that is only passing through makes way: it moves to an unused     *)
(* node, the chain follows it, and the new key takes its place.            *)
WayMade(ns, key, value, main, at, previous, after) ==
  /\ main \in 1 .. Len(ns) /\ main = Main(ns, key) /\ ns[main].key # Nil
  /\ Main(ns, ns[main].key) # main
  /\ \A i \in 1 .. Len(ns) : ns[i].key # key
  /\ at \in 1 .. Len(ns) /\ ns[at].key = Nil
  /\ previous \in 1 .. Len(ns) /\ ns[previous].next = main
  /\ previous # at /\ previous # main
  /\ after \in Seq(NodeRecords) /\ Len(after) = Len(ns)
  /\ after[at] = ns[main]
  /\ after[main] = Node(key, value, 0)
  /\ after[previous] = Node(ns[previous].key, ns[previous].value, at)
  /\ \A i \in 1 .. Len(ns) : i \notin {at, main, previous} => after[i] = ns[i]

(* A node that moves aside, and the chain that is relinked to it, leave    *)
(* the node part right: the place it had is free                           *)
LEMMA MakesWay ==
  ASSUME NEW ns, NodesOK(ns), NEW key \in Keys, NEW value \in Values,
         NEW main, NEW at, NEW previous, NEW after,
         WayMade(ns, key, value, main, at, previous, after)
  PROVE  /\ NodesOK(after) /\ Len(after) = Len(ns) /\ after[at].key # Nil
         /\ \A i \in 1 .. Len(ns) : ns[i].key # Nil => after[i].key # Nil
         /\ Contents(after) = Contents(ns) \cup {<<key, value>>}
<1> SUFFICES ASSUME main \in 1 .. Len(ns), main = Main(ns, key), ns[main].key # Nil,
                    Main(ns, ns[main].key) # main,
                    \A i \in 1 .. Len(ns) : ns[i].key # key,
                    at \in 1 .. Len(ns), ns[at].key = Nil,
                    previous \in 1 .. Len(ns), ns[previous].next = main,
                    previous # at, previous # main,
                    after \in Seq(NodeRecords), Len(after) = Len(ns), after[at] = ns[main],
                    after[main] = Node(key, value, 0),
                    after[previous] = Node(ns[previous].key, ns[previous].value, at),
                    \A i \in 1 .. Len(ns) : i \notin {at, main, previous} => after[i] = ns[i]
             PROVE  /\ NodesOK(after) /\ Len(after) = Len(ns) /\ after[at].key # Nil
                    /\ \A i \in 1 .. Len(ns) : ns[i].key # Nil => after[i].key # Nil
                    /\ Contents(after) = Contents(ns) \cup {<<key, value>>}
  BY DEF WayMade
<1> DEFINE n == Len(ns)
<1>0. PICK top \in Nat : \E rank \in [1 .. n -> 0 .. top] : Falls(ns, rank)
  BY DEF NodesOK, Ranked
<1>1. PICK rank \in [1 .. n -> 0 .. top] : Falls(ns, rank)
  BY <1>0
<1>2. \A i \in 1 .. n : rank[i] \in Nat /\ rank[i] <= top
  BY <1>1
<1>3. ns \in Seq(NodeRecords) /\ n \in Nat /\ key # Nil /\ value # Nil /\ at # main
  BY NilAssumption DEF NodesOK
<1>5. ns[at].next = 0 /\ \A i \in 1 .. n : ns[i].next # at
  BY UnusedIsApart
<1>7. /\ after \in Seq(NodeRecords) /\ Len(after) = n
      /\ \A i \in 1 .. n : i \notin {at, main, previous} => after[i] = ns[i]
  OBVIOUS
<1>8. \A k : Main(after, k) = Main(ns, k)
  BY <1>7 DEF Main
<1>9. /\ after[at].key = ns[main].key /\ after[at].value = ns[main].value
      /\ after[at].next = ns[main].next
      /\ after[main].key = key /\ after[main].value = value /\ after[main].next = 0
      /\ after[previous].key = ns[previous].key
      /\ after[previous].value = ns[previous].value /\ after[previous].next = at
  BY DEF Node
<1>10. \A i \in 1 .. n : i \notin {at, main} =>
         after[i].key = ns[i].key /\ after[i].value = ns[i].value
  BY <1>7, <1>9
<1>11. \A i \in 1 .. n : i \notin {at, main, previous} => after[i].next = ns[i].next
  BY <1>7
<1>12. \A i \in 1 .. n : ns[i].next = main => i = previous
  <2>1. main # 0
    BY <1>3
  <2> QED
    BY <2>1 DEF NodesOK, OneBefore
<1>13. ns[main].next # main
  BY <1>12
<1>14. ns[previous].key # Nil /\ Main(ns, ns[previous].key) = Main(ns, ns[main].key)
  <2>1. ns[previous].next # 0
    BY <1>3
  <2> QED
    BY <2>1 DEF NodesOK, Joins
<1>15. Ranked(after)
  <2> DEFINE other == [i \in 1 .. n |-> IF i = at THEN rank[main] ELSE rank[i]]
  <2>1. other \in [1 .. n -> 0 .. top]
    BY <1>1
  <2>2. other[at] = rank[main] /\ \A i \in 1 .. n : i # at => other[i] = rank[i]
    OBVIOUS
  <2> HIDE DEF other
  <2>3. ASSUME NEW i \in 1 .. n, after[i].next # 0
        PROVE  other[after[i].next] < other[i]
    <3>1. CASE i = main
      BY <2>3, <3>1, <1>9
    <3>2. CASE i = at
      <4> DEFINE j == ns[main].next
      <4>1. after[i].next = j /\ j # 0 /\ j # at
        BY <2>3, <3>2, <1>5, <1>9
      <4>2. j \in 1 .. n /\ rank[j] < rank[main]
        BY <4>1, <1>1 DEF Falls, NodesOK, Joins
      <4> HIDE DEF j
      <4> QED
        BY <4>1, <4>2, <2>2, <3>2
    <3>3. CASE i = previous
      <4>1. rank[main] < rank[previous]
        BY <1>1, <1>3 DEF Falls
      <4> QED
        BY <4>1, <3>3, <2>2, <1>9
    <3>4. CASE i \notin {at, main, previous}
      <4> DEFINE j == ns[i].next
      <4>1. after[i].next = j /\ j # 0 /\ j # at
        BY <2>3, <3>4, <1>5, <1>11
      <4>2. j \in 1 .. n /\ rank[j] < rank[i]
        BY <4>1, <1>1 DEF Falls, NodesOK, Joins
      <4> HIDE DEF j
      <4> QED
        BY <4>1, <4>2, <2>2, <3>4
    <3> QED
      BY <3>1, <3>2, <3>3, <3>4
  <2>4. Falls(after, other)
    BY <2>3, <1>7 DEF Falls
  <2> QED
    BY <2>1, <2>4, <1>7 DEF Ranked
<1>16. Joins(after)
  <2> SUFFICES ASSUME NEW i \in 1 .. n, after[i].next # 0
               PROVE  /\ after[i].next \in 1 .. n
                      /\ after[i].key # Nil /\ after[after[i].next].key # Nil
                      /\ Main(after, after[after[i].next].key) = Main(after, after[i].key)
    BY <1>7 DEF Joins
  <2>1. i # main
    BY <1>9
  <2>2. CASE i = previous
    <3>1. after[i].next = at /\ after[i].key = ns[previous].key
      BY <2>2, <1>9
    <3>2. Main(after, after[at].key) = Main(after, after[i].key)
      BY <3>1, <1>8, <1>9, <1>14
    <3> QED
      BY <3>1, <3>2, <1>9, <1>14
  <2>3. CASE i # previous
    <3> DEFINE from == IF i = at THEN main ELSE i
               j == ns[from].next
    <3>1. from \in 1 .. n /\ after[i].next = j /\ after[i].key = ns[from].key
      BY <2>1, <2>3, <1>9, <1>10, <1>11
    <3>2. j # 0 /\ j # at /\ j # main
      BY <2>1, <2>3, <3>1, <1>5, <1>12, <1>13
    <3> HIDE DEF from
    <3>3. /\ j \in 1 .. n /\ ns[from].key # Nil /\ ns[j].key # Nil
          /\ Main(ns, ns[j].key) = Main(ns, ns[from].key)
      BY <3>1, <3>2 DEF NodesOK, Joins
    <3> HIDE DEF j
    <3>4. after[j].key = ns[j].key
      BY <3>2, <3>3, <1>10
    <3>5. Main(after, after[j].key) = Main(after, after[i].key)
      BY <3>1, <3>3, <3>4, <1>8
    <3> QED
      BY <3>1, <3>3, <3>4, <3>5
  <2> QED
    BY <2>2, <2>3
<1>17. OneBefore(after)
  <2> SUFFICES ASSUME NEW i \in 1 .. n, NEW j \in 1 .. n,
                      after[i].next # 0, after[i].next = after[j].next
               PROVE  i = j
    BY <1>7 DEF OneBefore
  <2>1. i # main /\ j # main
    BY <1>9
  <2>2. \A k \in 1 .. n : k \notin {main, previous} =>
          after[k].next = ns[IF k = at THEN main ELSE k].next
    BY <1>9, <1>11
  <2>3. \A k \in 1 .. n : k \notin {main, previous} => after[k].next # at
    BY <2>2, <1>5, SMTT(30)
  <2>4. i = previous <=> j = previous
    BY <2>1, <2>3, <1>9
  <2>5. CASE i # previous
    <3>1. j # previous
      BY <2>4, <2>5
    <3> DEFINE f == IF i = at THEN main ELSE i
               g == IF j = at THEN main ELSE j
    <3>2. f \in 1 .. n /\ g \in 1 .. n /\ ns[f].next # 0 /\ ns[f].next = ns[g].next
      BY <2>1, <2>2, <2>5, <3>1
    <3>3. f = g
      <4> HIDE DEF f, g
      <4> QED
        BY <3>2 DEF NodesOK, OneBefore
    <3> QED
      BY <3>3, <2>1
  <2> QED
    BY <2>4, <2>5
<1>18. Reached(after)
  <2> SUFFICES ASSUME NEW i \in 1 .. n, after[i].key # Nil, Main(ns, after[i].key) # i
               PROVE  \E p \in 1 .. n : after[p].next = i
    BY <1>7, <1>8 DEF Reached
  <2>1. i # main
    BY <1>9
  <2>2. CASE i = at
    BY <2>2, <1>9
  <2>3. CASE i # at
    <3>1. PICK p \in 1 .. n : ns[p].next = i
      BY <2>1, <2>3, <1>10 DEF NodesOK, Reached
    <3>2. p # previous /\ p # at
      <4>1. p # previous
        BY <2>1, <3>1
      <4>2. i # 0
        BY <1>3
      <4> QED
        BY <4>1, <4>2, <3>1, <1>5
    <3>3. CASE p = main
      BY <3>1, <3>3, <1>9
    <3>4. CASE p # main
      BY <3>1, <3>2, <3>4, <1>11
    <3> QED
      BY <3>3, <3>4
  <2> QED
    BY <2>2, <2>3
<1>19. KeysOnce(after)
  <2> SUFFICES ASSUME NEW i \in 1 .. n, NEW j \in 1 .. n,
                      after[i].key # Nil, after[i].key = after[j].key
               PROVE  i = j
    BY <1>7 DEF KeysOnce
  <2>1. ASSUME NEW k \in 1 .. n, k # main
        PROVE  after[k].key = ns[IF k = at THEN main ELSE k].key
    <3>1. CASE k = at
      BY <3>1, <1>9
    <3>2. CASE k # at
      BY <3>2, <2>1, <1>10
    <3> QED
      BY <3>1, <3>2
  <2>2. \A k \in 1 .. n : k # main => after[k].key # key
    BY <2>1
  <2>3. i = main <=> j = main
    BY <2>2, <1>9
  <2>4. CASE i # main
    <3> DEFINE f == IF i = at THEN main ELSE i
               g == IF j = at THEN main ELSE j
    <3>1. f \in 1 .. n /\ g \in 1 .. n /\ ns[f].key # Nil /\ ns[f].key = ns[g].key
      BY <2>1, <2>3, <2>4
    <3>2. f = g
      <4> HIDE DEF f, g
      <4> QED
        BY <3>1 DEF NodesOK, KeysOnce
    <3> QED
      BY <3>2, <2>3, <2>4
  <2> QED
    BY <2>3, <2>4
<1>20. \A i \in 1 .. n : after[i].value # Nil => after[i].key # Nil
  <2>1. \A i \in 1 .. n : ns[i].value # Nil => ns[i].key # Nil
    BY DEF NodesOK
  <2> SUFFICES ASSUME NEW i \in 1 .. n, after[i].value # Nil
               PROVE  after[i].key # Nil
    OBVIOUS
  <2>2. CASE i \in {at, main}
    BY <2>2, <1>3, <1>9
  <2>3. CASE i \notin {at, main}
    BY <2>1, <2>3, <1>10
  <2> QED
    BY <2>2, <2>3
<1>21. Contents(after) = Contents(ns) \cup {<<key, value>>}
  <2>1. ASSUME NEW i \in 1 .. n, ns[i].key # Nil
        PROVE  <<ns[i].key, ns[i].value>> \in Contents(after)
    <3> DEFINE to == IF i = main THEN at ELSE i
    <3>1. to \in 1 .. n /\ after[to].key = ns[i].key /\ after[to].value = ns[i].value
      BY <2>1, <1>9, <1>10
    <3> HIDE DEF to
    <3> QED
      BY <2>1, <3>1, <1>7 DEF Contents
  <2>2. <<key, value>> \in Contents(after)
    <3>1. main \in {j \in 1 .. Len(after) : after[j].key # Nil}
      BY <1>3, <1>7, <1>9
    <3> QED
      BY <3>1, <1>9 DEF Contents
  <2>3. ASSUME NEW i \in 1 .. n, after[i].key # Nil
        PROVE  <<after[i].key, after[i].value>> \in Contents(ns) \cup {<<key, value>>}
    <3>1. CASE i = main
      BY <3>1, <1>9
    <3>2. CASE i # main
      <4> DEFINE from == IF i = at THEN main ELSE i
      <4>1. from \in 1 .. n /\ after[i].key = ns[from].key /\ after[i].value = ns[from].value
        BY <3>2, <1>9, <1>10
      <4> HIDE DEF from
      <4> QED
        BY <2>3, <4>1 DEF Contents
    <3> QED
      BY <3>1, <3>2
  <2>4. Contents(ns) \subseteq Contents(after)
    BY <2>1 DEF Contents
  <2>5. Contents(after) \subseteq Contents(ns) \cup {<<key, value>>}
    <3> SUFFICES ASSUME NEW pair \in Contents(after)
                 PROVE  pair \in Contents(ns) \cup {<<key, value>>}
      OBVIOUS
    <3>1. PICK i \in 1 .. n : after[i].key # Nil /\ pair = <<after[i].key, after[i].value>>
      BY <1>7 DEF Contents
    <3> QED
      BY <2>3, <3>1
  <2> QED
    BY <2>2, <2>4, <2>5
<1>22. \A i \in 1 .. n : ns[i].key # Nil => after[i].key # Nil
  BY <1>3, <1>9, <1>10
<1> QED
  BY <1>7, <1>9, <1>15, <1>16, <1>17, <1>18, <1>19, <1>20, <1>21, <1>22 DEF NodesOK

(* A node with another link is a node.                                     *)
LEMMA Relinked ==
  ASSUME NEW node \in NodeRecords, NEW to \in Nat
  PROVE  /\ Node(node.key, node.value, to) \in NodeRecords
         /\ [node EXCEPT !.next = to] = Node(node.key, node.value, to)
BY DEF NodeRecords, Node

(* The same, as the code writes it.                                        *)
DisplacedNodes(ns, key, value, main, at, previous) ==
  [ns EXCEPT ![previous].next = at, ![at] = ns[main], ![main] = Node(key, value, 0)]

(* A new key takes the place of a node that was only passing through.      *)
LEMMA PutDisplaced ==
  ASSUME NEW ns, NodesOK(ns), NEW key \in Keys, NEW value \in Values,
         NEW main, NEW at, Collides(ns, key, main, at), Main(ns, ns[main].key) # main,
         NEW previous \in 1 .. Len(ns), ns[previous].next = main,
         NEW after, after = DisplacedNodes(ns, key, value, main, at, previous)
  PROVE  /\ NodesOK(after) /\ Len(after) = Len(ns) /\ after[at].key # Nil
         /\ \A i \in 1 .. Len(ns) : ns[i].key # Nil => after[i].key # Nil
         /\ Contents(after) = Contents(ns) \cup {<<key, value>>}
<1>0. /\ main \in 1 .. Len(ns) /\ main = Main(ns, key) /\ ns[main].key # Nil
      /\ \A i \in 1 .. Len(ns) : ns[i].key # key
      /\ at \in 1 .. Len(ns) /\ ns[at].key = Nil
  BY DEF Collides
<1> USE <1>0
<1> DEFINE n == Len(ns)
           moved == ns[main]
           linked == Node(ns[previous].key, ns[previous].value, at)
           new == Node(key, value, 0)
<1>1. /\ ns \in Seq(NodeRecords) /\ n \in Nat /\ at # main /\ main # 0 /\ at \in Nat
  BY DEF NodesOK
<1>2. previous \in 1 .. n /\ ns[previous].next = main
  OBVIOUS
<1>3. previous # at
  BY <1>1, <1>2, UnusedIsApart
<1>4. previous # main
  <2>0. PICK top \in Nat : \E rank \in [1 .. n -> 0 .. top] : Falls(ns, rank)
    BY DEF NodesOK, Ranked
  <2>1. PICK rank \in [1 .. n -> 0 .. top] : Falls(ns, rank)
    BY <2>0
  <2>2. rank[main] < rank[previous] /\ rank[main] \in Nat
    BY <1>1, <1>2, <2>1 DEF Falls
  <2> QED
    BY <2>2
<1>5. moved \in NodeRecords /\ ns[previous] \in NodeRecords
  BY <1>1, <1>2
<1>6. linked \in NodeRecords /\ linked = [ns[previous] EXCEPT !.next = at]
  BY <1>1, <1>5, Relinked
<1>7. new \in NodeRecords
  BY DEF NodeRecords, Node, Slots
<1> DEFINE first == [ns EXCEPT ![previous] = linked]
<1>8. after = [first EXCEPT ![at] = moved, ![main] = new]
  <2>1. first = [ns EXCEPT ![previous].next = at]
    BY <1>1, <1>2, <1>6
  <2> HIDE DEF first, linked
  <2> QED
    BY <2>1 DEF DisplacedNodes
<1> HIDE DEF moved, linked, new
<1>9. /\ first \in Seq(NodeRecords) /\ Len(first) = n /\ first[previous] = linked
      /\ \A i \in 1 .. n : i # previous => first[i] = ns[i]
  BY <1>1, <1>2, <1>6
<1> HIDE DEF first
<1>10. at \in 1 .. Len(first) /\ main \in 1 .. Len(first)
  BY <1>9
<1>11. /\ after \in Seq(NodeRecords) /\ Len(after) = Len(first)
       /\ after[at] = moved /\ after[main] = new
       /\ \A i \in 1 .. Len(first) : i \notin {at, main} => after[i] = first[i]
  BY <1>1, <1>5, <1>7, <1>8, <1>9, <1>10, PutTwo, SMTT(30)
<1>12. /\ after \in Seq(NodeRecords) /\ Len(after) = n
       /\ after[at] = moved /\ after[main] = new /\ after[previous] = linked
       /\ \A i \in 1 .. n : i \notin {at, main, previous} => after[i] = ns[i]
  BY <1>2, <1>3, <1>4, <1>9, <1>11
<1>13. WayMade(ns, key, value, main, at, previous, after)
  BY <1>3, <1>4, <1>12 DEF WayMade, moved, linked, new
<1> QED
  BY <1>13, MakesWay

(* The walk for an unused node finds the last one there is.                *)
LEMMA TakeFreeIsLast ==
  ASSUME NEW b, BodyOK(b), FreeNodes(b) # {}, NEW at, at = TakeFree(b)
  PROVE  /\ at \in 1 .. Len(b.nodes) /\ b.nodes[at].key = Nil
         /\ \A i \in 1 .. Len(b.nodes) : i > at => b.nodes[i].key # Nil
<1>1. Len(b.nodes) \in Nat /\ b.free \in Nat /\ b.free <= Len(b.nodes)
  BY DEF BodyOK, Bodies, Walked
<1>2. FreeNodes(b) \subseteq Nat /\ \A i \in FreeNodes(b) : i <= Len(b.nodes)
  BY <1>1 DEF FreeNodes
<1>3. \E n \in FreeNodes(b) : \A m \in FreeNodes(b) : m <= n
  BY <1>1, <1>2, GreatestOf
<1>4. at \in FreeNodes(b) /\ \A j \in FreeNodes(b) : j <= at
  BY <1>3 DEF TakeFree
<1>5. at \in 1 .. Len(b.nodes) /\ b.nodes[at].key = Nil
  BY <1>1, <1>4 DEF FreeNodes
<1>6. ASSUME NEW i \in 1 .. Len(b.nodes), i > at, b.nodes[i].key = Nil
      PROVE  FALSE
  <2>1. i <= Len(b.nodes) - b.free
    BY <1>1, <1>6 DEF BodyOK, Walked
  <2>2. i \in FreeNodes(b)
    BY <1>1, <1>6, <2>1 DEF FreeNodes
  <2> QED
    BY <1>4, <1>5, <1>6, <2>2
<1> QED
  BY <1>5, <1>6

(* What is well formed about the parts of a body.                          *)
LEMMA BodyType ==
  ASSUME NEW slots \in Seq(Slots), NEW ns \in Seq(NodeRecords), NEW last \in Nat
  PROVE  [array |-> slots, nodes |-> ns, free |-> last] \in Bodies
BY DEF Bodies

(* A body whose node part took one more key.                               *)
LEMMA BodyWithNodes ==
  ASSUME NEW b, BodyOK(b), NEW key \in Keys, NEW value, ~InArray(b, key),
         NEW ns, NodesOK(ns), Len(ns) = Len(b.nodes),
         Contents(ns) = Contents(b.nodes) \cup {<<key, value>>},
         NEW last \in Nat, last <= Len(ns),
         \A i \in 1 .. Len(ns) : i > Len(ns) - last => ns[i].key # Nil,
         NEW c, c = [array |-> b.array, nodes |-> ns, free |-> last]
  PROVE  BodyOK(c)
<1>1. c.array = b.array /\ c.nodes = ns /\ c.free = last
  OBVIOUS
<1>2. b.array \in Seq(Slots) /\ ns \in Seq(NodeRecords) /\ c \in Bodies
  BY DEF BodyOK, Bodies, NodesOK
<1>3. Walked(c)
  BY <1>1 DEF Walked
<1>4. \A k : InArray(c, k) <=> InArray(b, k)
  BY <1>1 DEF InArray
<1>5. ASSUME NEW i \in 1 .. Len(ns), ns[i].key # Nil
      PROVE  ~InArray(c, ns[i].key)
  <2>1. <<ns[i].key, ns[i].value>> \in Contents(b.nodes) \cup {<<key, value>>}
    BY <1>5 DEF Contents
  <2>2. CASE ns[i].key = key
    BY <2>2, <1>4
  <2>3. CASE ns[i].key # key
    <3>1. PICK j \in 1 .. Len(b.nodes) : b.nodes[j].key # Nil /\ b.nodes[j].key = ns[i].key
      BY <2>1, <2>3 DEF Contents
    <3> QED
      BY <3>1, <1>4 DEF BodyOK
  <2> QED
    BY <2>2, <2>3
<1>6. \A i \in 1 .. Len(c.array) : c.array[i] # Nil => i \in Integers
  BY <1>1 DEF BodyOK
<1> QED
  BY <1>1, <1>2, <1>3, <1>5, <1>6 DEF BodyOK

(* A new key where there is room: the table holds it, and what it held.    *)
LEMMA PlacedIsRight ==
  ASSUME NEW b, BodyOK(b), NEW key \in Keys, NEW value \in Values,
         ~InArray(b, key), FindNode(b, key) = 0, HasRoom(b, key),
         NEW c, c = Placed(b, key, value)
  PROVE  /\ BodyOK(c) /\ c.array = b.array /\ Len(c.nodes) = Len(b.nodes)
         /\ Contents(c.nodes) = Contents(b.nodes) \cup {<<key, value>>}
<1> DEFINE ns == b.nodes
           n == Len(ns)
           main == MainPosition(b, key)
           at == TakeFree(b)
<1>1. /\ NodesOK(ns) /\ ns \in Seq(NodeRecords) /\ n \in Nat /\ b.free \in Nat
      /\ b.array \in Seq(Slots) /\ b = [array |-> b.array, nodes |-> ns, free |-> b.free]
  BY DEF BodyOK, Bodies, NodesOK
<1>2. main \in 1 .. n /\ main = Main(ns, key)
  <2>1. n \in Nat \ {0}
    BY <1>1 DEF HasRoom
  <2>2. main = Main(ns, key)
    BY DEF MainPosition, Main
  <2> QED
    BY <2>1, <2>2, MainType
<1>3. \A i \in 1 .. n : ns[i].key # key
  BY <1>1, FindIsRight
<1> HIDE DEF main, at
<1>4. Placed(b, key, value) =
        IF ns[main].key = Nil THEN [b EXCEPT !.nodes[main] = Node(key, value, 0)]
        ELSE IF Main(ns, ns[main].key) = main
             THEN Chained(b, at, main, key, value)
             ELSE Displaced(b, at, main, key, value)
  BY DEF Placed, MainPosition, Main, main, at
<1>5. CASE ns[main].key = Nil
  <2> DEFINE after == [ns EXCEPT ![main] = Node(key, value, 0)]
  <2>1. c = [array |-> b.array, nodes |-> after, free |-> b.free]
    BY <1>1, <1>4, <1>5
  <2>2. /\ NodesOK(after) /\ Len(after) = n
        /\ Contents(after) = Contents(ns) \cup {<<key, value>>}
    BY <1>1, <1>2, <1>3, <1>5, PutFree
  <2>3. b.free <= n /\ \A i \in 1 .. n : i > n - b.free => after[i].key # Nil
    <3>1. \A i \in 1 .. n : i > n - b.free => ns[i].key # Nil
      BY DEF BodyOK, Walked
    <3>2. \A i \in 1 .. n : i > n - b.free => i # main
      BY <3>1, <1>5
    <3> QED
      BY <3>1, <3>2, <1>1 DEF BodyOK, Walked
  <2> HIDE DEF after
  <2>4. BodyOK(c)
    BY <1>1, <2>1, <2>2, <2>3, BodyWithNodes
  <2> QED
    BY <2>1, <2>2, <2>4
<1>6. CASE ns[main].key # Nil
  <2>1. FreeNodes(b) # {}
    BY <1>6 DEF HasRoom, main
  <2>2. /\ at \in 1 .. n /\ ns[at].key = Nil
        /\ \A i \in 1 .. n : i > at => ns[i].key # Nil
    BY <2>1, TakeFreeIsLast DEF at
  <2>9. Collides(ns, key, main, at)
    BY <1>2, <1>3, <1>6, <2>2 DEF Collides
  <2>3. PICK after : /\ c = [array |-> b.array, nodes |-> after, free |-> n - at + 1]
                     /\ NodesOK(after) /\ Len(after) = n /\ after[at].key # Nil
                     /\ \A i \in 1 .. n : ns[i].key # Nil => after[i].key # Nil
                     /\ Contents(after) = Contents(ns) \cup {<<key, value>>}
    <3>1. CASE Main(ns, ns[main].key) = main
      <4> DEFINE chained == ChainedNodes(ns, key, value, main, at)
      <4>1. c = [array |-> b.array, nodes |-> chained, free |-> n - at + 1]
        BY <1>1, <1>4, <1>6, <3>1 DEF Chained, ChainedNodes
      <4>2. /\ NodesOK(chained) /\ Len(chained) = n /\ chained[at].key # Nil
            /\ \A i \in 1 .. n : ns[i].key # Nil => chained[i].key # Nil
            /\ Contents(chained) = Contents(ns) \cup {<<key, value>>}
        BY <1>1, <2>9, <3>1, PutChained
      <4> HIDE DEF chained
      <4> QED
        BY <4>1, <4>2
    <3>2. CASE Main(ns, ns[main].key) # main
      <4> DEFINE previous == CHOOSE i \in 1 .. n : ns[i].next = main
                 displaced == DisplacedNodes(ns, key, value, main, at, previous)
      <4>1. c = [array |-> b.array, nodes |-> displaced, free |-> n - at + 1]
        BY <1>1, <1>4, <1>6, <3>2 DEF Displaced, DisplacedNodes
      <4>2. previous \in 1 .. n /\ ns[previous].next = main
        <5>1. \E i \in 1 .. n : ns[i].next = main
          BY <1>1, <1>2, <1>6, <3>2 DEF NodesOK, Reached
        <5> QED
          BY <5>1
      <4> HIDE DEF previous
      <4>3. /\ NodesOK(displaced) /\ Len(displaced) = n /\ displaced[at].key # Nil
            /\ \A i \in 1 .. n : ns[i].key # Nil => displaced[i].key # Nil
            /\ Contents(displaced) = Contents(ns) \cup {<<key, value>>}
        BY <1>1, <2>9, <3>2, <4>2, PutDisplaced
      <4> HIDE DEF displaced
      <4> QED
        BY <4>1, <4>3
    <3> QED
      BY <3>1, <3>2
  <2>4. /\ n - at + 1 \in Nat /\ n - at + 1 <= n
        /\ \A i \in 1 .. n : i > n - (n - at + 1) => after[i].key # Nil
    <3>1. n - (n - at + 1) = at - 1
      BY <1>1, <2>2
    <3>2. \A i \in 1 .. n : i > at - 1 => i = at \/ i > at
      BY <1>1, <2>2
    <3> QED
      BY <1>1, <2>2, <2>3, <3>1, <3>2
  <2>5. BodyOK(c)
    BY <1>1, <2>3, <2>4, BodyWithNodes
  <2> QED
    BY <2>3, <2>5
<1> QED
  BY <1>5, <1>6

-----------------------------------------------------------------------------
(* Where the walk for an unused node starts over, there is room for a key  *)
(* as long as one node is unused.                                          *)
LEMMA RoomIfUnused ==
  ASSUME NEW b, BodyOK(b), NEW key \in Keys,
         NEW i \in 1 .. Len(b.nodes), b.nodes[i].key = Nil
  PROVE  HasRoom(b, key)
<1>1. Len(b.nodes) \in Nat /\ b.free \in Nat /\ b.free <= Len(b.nodes)
  BY DEF BodyOK, Bodies, Walked
<1>2. i \in FreeNodes(b)
  BY <1>1 DEF FreeNodes, BodyOK, Walked
<1>3. b.nodes # <<>>
  BY <1>1
<1> QED
  BY <1>2, <1>3 DEF HasRoom

NodeKeys(b) == {b.nodes[i].key : i \in {j \in 1 .. Len(b.nodes) : b.nodes[j].key # Nil}}

(* Fewer keys than nodes leave a node unused.                              *)
LEMMA RoomIfFew ==
  ASSUME NEW b, BodyOK(b), NEW key \in Keys, NEW W, IsFiniteSet(W),
         NodeKeys(b) \subseteq W, Cardinality(W) < Len(b.nodes)
  PROVE  HasRoom(b, key)
<1> DEFINE ns == b.nodes
           n == Len(ns)
<1>1. n \in Nat
  BY DEF BodyOK, Bodies
<1>2. SUFFICES ASSUME \A i \in 1 .. n : ns[i].key # Nil PROVE FALSE
  BY RoomIfUnused
<1> DEFINE f == [i \in 1 .. n |-> ns[i].key]
<1>3. f \in [1 .. n -> W]
  BY <1>2 DEF NodeKeys
<1>4. 1 \in Int /\ n \in Int
  BY <1>1
<1>5. IsFiniteSet(1 .. n) /\ Cardinality(1 .. n) = IF 1 > n THEN 0 ELSE n - 1 + 1
  BY <1>4, FS_Interval
<1>6. Cardinality(1 .. n) = n
  BY <1>1, <1>5
<1> HIDE DEF f
<1>7. \E i, j \in 1 .. n : i # j /\ f[i] = f[j]
  BY <1>3, <1>5, <1>6, FS_PigeonHole
<1>8. PICK i \in 1 .. n : \E j \in 1 .. n : i # j /\ f[i] = f[j]
  BY <1>7
<1>9. PICK j \in 1 .. n : i # j /\ f[i] = f[j]
  BY <1>8
<1> QED
  BY <1>2, <1>9 DEF f, BodyOK, NodesOK, KeysOnce

-----------------------------------------------------------------------------
IsPower(f, n) == f = [p \in 0 .. n |-> IF p = 0 THEN 1 ELSE 2 * f[p - 1]]

(* The powers of two up to any exponent are defined.                       *)
LEMMA PowerExists ==
  ASSUME NEW n \in Nat
  PROVE  \E f : IsPower(f, n)
<1> DEFINE S == {r \in Nat : \E f : IsPower(f, r)}
<1>1. 0 \in S
  <2> DEFINE g == [p \in 0 .. 0 |-> 1]
  <2>1. \A p \in 0 .. 0 : p = 0
    OBVIOUS
  <2>2. IsPower(g, 0)
    BY <2>1 DEF IsPower
  <2> QED
    BY <2>2
<1>2. ASSUME NEW r \in Nat, r \in S
      PROVE  r + 1 \in S
  <2>1. PICK g : IsPower(g, r)
    BY <1>2
  <2> DEFINE h == [p \in 0 .. r + 1 |-> IF p = 0 THEN 1 ELSE 2 * g[p - 1]]
  <2>2. ASSUME NEW p \in 0 .. r + 1, p # 0
        PROVE  h[p - 1] = g[p - 1]
    <3>1. p - 1 \in 0 .. r /\ p - 1 \in 0 .. r + 1
      BY <2>2
    <3>2. g[p - 1] = IF p - 1 = 0 THEN 1 ELSE 2 * g[p - 1 - 1]
      BY <2>1, <3>1 DEF IsPower
    <3> QED
      BY <3>1, <3>2
  <2>3. IsPower(h, r + 1)
    BY <2>2 DEF IsPower
  <2> HIDE DEF h
  <2>4. \E g1 : IsPower(g1, r + 1)
    BY <2>3
  <2> QED
    BY <2>4
<1> HIDE DEF S
<1>3. n \in S
  BY <1>1, <1>2, Induction
<1> QED
  BY <1>3 DEF S

(* Powers holds natural numbers, and one above n.                          *)
LEMMA PowersReach ==
  ASSUME NEW n \in Nat
  PROVE  /\ Powers(n) \subseteq Nat
         /\ \E m \in Powers(n) : m > n
<1> DEFINE f == CHOOSE g : IsPower(g, n)
<1>1. IsPower(f, n)
  BY PowerExists
<1>2. Powers(n) = {f[p] : p \in 0 .. n}
  BY DEF Powers, IsPower
<1> HIDE DEF f
<1>3. f[0] = 1 /\ \A p \in 0 .. n : p # 0 => f[p] = 2 * f[p - 1]
  BY <1>1 DEF IsPower
<1> DEFINE S == {p \in Nat : p <= n => f[p] \in Nat /\ f[p] > p}
<1>4. 0 \in S
  BY <1>3
<1>5. ASSUME NEW p \in Nat, p \in S
      PROVE  p + 1 \in S
  <2> SUFFICES ASSUME p + 1 <= n PROVE f[p + 1] \in Nat /\ f[p + 1] > p + 1
    OBVIOUS
  <2>1. p + 1 \in 0 .. n /\ p + 1 # 0 /\ p + 1 - 1 = p
    OBVIOUS
  <2>2. f[p + 1] = 2 * f[p]
    BY <1>3, <2>1
  <2>3. f[p] \in Nat /\ f[p] > p
    BY <1>5
  <2> QED
    BY <2>2, <2>3
<1> HIDE DEF S
<1>6. Nat \subseteq S
  BY <1>4, <1>5, Induction
<1>7. \A p \in 0 .. n : f[p] \in Nat /\ f[p] > p
  BY <1>6 DEF S
<1> QED
  BY <1>2, <1>7

(* One node more than is wanted, at least.                                 *)
LEMMA NodesForIsRoom ==
  ASSUME NEW wanted \in Nat
  PROVE  NodesFor(wanted) \in Nat /\ (wanted # 0 => NodesFor(wanted) > wanted)
<1>1. CASE wanted = 0
  BY <1>1 DEF NodesFor
<1>2. CASE wanted # 0
  <2> DEFINE T == {n \in Powers(wanted) : n > wanted}
  <2>1. T \subseteq Nat /\ T # {}
    BY PowersReach
  <2>2. PICK n \in T : \A m \in T : n <= m
    <3> HIDE DEF T
    <3> QED
      BY <2>1, LeastOf
  <2>3. \E k \in Powers(wanted) :
          k > wanted /\ \A m \in Powers(wanted) : m > wanted => k <= m
    BY <2>2
  <2>4. NodesFor(wanted) \in Powers(wanted) /\ NodesFor(wanted) > wanted
    BY <1>2, <2>3 DEF NodesFor
  <2> QED
    BY <2>4, PowersReach
<1> QED
  BY <1>1, <1>2

(* The array part's new size is a number.                                  *)
LEMMA BestArraySizeType ==
  ASSUME NEW keys, IsFiniteSet(keys)
  PROVE  BestArraySize(keys) \in Nat
<1> DEFINE Worth == {n \in Powers(Highest) :
                       /\ Covered(keys, n) > (IF n = 1 THEN 0 ELSE Covered(keys, n \div 2))
                       /\ n * SlotSize <= Covered(keys, n) * NodeSize}
<1>1. Highest \in Nat
  BY IntegersAssumption
<1>2. Worth \subseteq Nat
  BY <1>1, PowersReach
<1>3. Cardinality(keys) \in Nat
  BY FS_CardinalityType
<1>4. \A n \in Worth : n <= 40 * Cardinality(keys)
  <2> SUFFICES ASSUME NEW n \in Worth PROVE n <= 40 * Cardinality(keys)
    OBVIOUS
  <2>1. n \in Nat
    BY <1>2
  <2>2. n * 16 <= Covered(keys, n) * 40
    BY DEF SlotSize, NodeSize
  <2>3. Covered(keys, n) \in Nat /\ Covered(keys, n) <= Cardinality(keys)
    <3>1. {k \in keys : k <= n} \subseteq keys
      OBVIOUS
    <3>2. /\ IsFiniteSet({k \in keys : k <= n})
          /\ Cardinality({k \in keys : k <= n}) <= Cardinality(keys)
      BY <3>1, FS_Subset
    <3> QED
      BY <3>2, FS_CardinalityType DEF Covered
  <2> HIDE DEF Worth
  <2> QED
    BY <1>3, <2>1, <2>2, <2>3
<1>5. BestArraySize(keys) = IF Worth = {} THEN 0 ELSE CHOOSE n \in Worth : \A m \in Worth : m <= n
  BY DEF BestArraySize
<1> HIDE DEF Worth
<1>6. 40 * Cardinality(keys) \in Nat
  BY <1>3
<1>7. Worth # {} => \E n \in Worth : \A m \in Worth : m <= n
  BY <1>2, <1>4, <1>6, GreatestOf
<1>8. CASE Worth = {}
  BY <1>5, <1>8
<1>9. CASE Worth # {}
  <2> DEFINE best == CHOOSE n \in Worth : \A m \in Worth : m <= n
  <2>1. best \in Worth
    BY <1>7, <1>9
  <2>2. BestArraySize(keys) = best
    BY <1>5, <1>9
  <2> HIDE DEF best
  <2> QED
    BY <2>1, <2>2, <1>2
<1> QED
  BY <1>8, <1>9

-----------------------------------------------------------------------------
(* Places count on from the array part to the nodes.                       *)
LEMMA PlacesCountOn ==
  ASSUME NEW s \in Nat, NEW n \in Nat
  PROVE  /\ \A p \in 1 .. s + n : p \in Nat /\ p <= s + n
         /\ \A p \in 1 .. s + n : p <= s => p \in 1 .. s
         /\ \A p \in 1 .. s + n : ~(p <= s) => p - s \in 1 .. n /\ s + (p - s) = p
         /\ \A i \in 1 .. n : s + i \in 1 .. s + n /\ ~(s + i <= s) /\ s + i - s = i
         /\ \A i \in 1 .. s : i \in 1 .. s + n /\ i <= s
OBVIOUS

(* A table's places, one by one.                                           *)
LEMMA PlacesOf ==
  ASSUME NEW b, BodyOK(b)
  PROVE  /\ Places(b) \in Nat
         /\ \A p \in 1 .. Places(b) : p \in Nat /\ p <= Places(b)
         /\ \A p \in 1 .. Places(b) : p <= Len(b.array) =>
              p \in 1 .. Len(b.array) /\ KeyAt(b, p) = p /\ ValueAt(b, p) = b.array[p]
         /\ \A p \in 1 .. Places(b) : ~(p <= Len(b.array)) =>
              /\ p - Len(b.array) \in 1 .. Len(b.nodes)
              /\ Len(b.array) + (p - Len(b.array)) = p
              /\ KeyAt(b, p) = b.nodes[p - Len(b.array)].key
              /\ ValueAt(b, p) = b.nodes[p - Len(b.array)].value
         /\ \A i \in 1 .. Len(b.nodes) :
              /\ Len(b.array) + i \in 1 .. Places(b) /\ ~(Len(b.array) + i <= Len(b.array))
              /\ KeyAt(b, Len(b.array) + i) = b.nodes[i].key
              /\ ValueAt(b, Len(b.array) + i) = b.nodes[i].value
         /\ \A i \in 1 .. Len(b.array) :
              i \in 1 .. Places(b) /\ KeyAt(b, i) = i /\ ValueAt(b, i) = b.array[i]
<1> DEFINE s == Len(b.array)
           n == Len(b.nodes)
<1>1. s \in Nat /\ n \in Nat
  BY DEF BodyOK, Bodies
<1>2. Places(b) = s + n
  BY DEF Places
<1>3. \A p : KeyAt(b, p) = IF p <= s THEN p ELSE b.nodes[p - s].key
  BY DEF KeyAt
<1>4. \A p : ValueAt(b, p) = IF p <= s THEN b.array[p] ELSE b.nodes[p - s].value
  BY DEF ValueAt
<1> HIDE DEF s, n
<1>5. /\ \A p \in 1 .. s + n : p \in Nat /\ p <= s + n
      /\ \A p \in 1 .. s + n : p <= s => p \in 1 .. s
      /\ \A p \in 1 .. s + n : ~(p <= s) => p - s \in 1 .. n /\ s + (p - s) = p
      /\ \A i \in 1 .. n : s + i \in 1 .. s + n /\ ~(s + i <= s) /\ s + i - s = i
      /\ \A i \in 1 .. s : i \in 1 .. s + n /\ i <= s
  BY <1>1, PlacesCountOn
<1>6. s + n \in Nat
  BY <1>1
<1>7. \A p \in 1 .. Places(b) : p <= s =>
        p \in 1 .. s /\ KeyAt(b, p) = p /\ ValueAt(b, p) = b.array[p]
  BY <1>2, <1>3, <1>4, <1>5
<1>8. \A p \in 1 .. Places(b) : ~(p <= s) =>
        /\ p - s \in 1 .. n /\ s + (p - s) = p
        /\ KeyAt(b, p) = b.nodes[p - s].key
        /\ ValueAt(b, p) = b.nodes[p - s].value
  BY <1>2, <1>3, <1>4, <1>5
<1>9. ASSUME NEW i \in 1 .. n
      PROVE  /\ s + i \in 1 .. Places(b) /\ ~(s + i <= s)
             /\ KeyAt(b, s + i) = b.nodes[i].key
             /\ ValueAt(b, s + i) = b.nodes[i].value
  <2> DEFINE p == s + i
  <2>1. p \in 1 .. s + n /\ ~(p <= s) /\ p - s = i
    BY <1>1
  <2> HIDE DEF p
  <2>2. KeyAt(b, p) = b.nodes[p - s].key /\ ValueAt(b, p) = b.nodes[p - s].value
    BY <2>1, <1>3, <1>4
  <2>3. p \in 1 .. Places(b)
    BY <2>1, <1>2
  <2>4. KeyAt(b, p) = b.nodes[i].key /\ ValueAt(b, p) = b.nodes[i].value
    BY <2>1, <2>2
  <2> QED
    BY <2>1, <2>3, <2>4 DEF p
<1>10. \A i \in 1 .. s : i \in 1 .. Places(b) /\ KeyAt(b, i) = i /\ ValueAt(b, i) = b.array[i]
  BY <1>2, <1>3, <1>4, <1>5
<1>11. Places(b) \in Nat /\ \A p \in 1 .. Places(b) : p \in Nat /\ p <= Places(b)
  BY <1>2, <1>5, <1>6
<1> QED
  BY <1>7, <1>8, <1>9, <1>10, <1>11 DEF s, n

(* What a place that holds something answers for.                          *)
LEMMA PlaceType ==
  ASSUME NEW b, BodyOK(b), NEW p \in 1 .. Places(b), ValueAt(b, p) # Nil
  PROVE  /\ KeyAt(b, p) \in Keys /\ ValueAt(b, p) \in Values
         /\ TableGet(b, KeyAt(b, p)) = ValueAt(b, p)
         /\ InArray(b, KeyAt(b, p)) <=> p <= Len(b.array)
<1>1. /\ b.array \in Seq(Slots) /\ b.nodes \in Seq(NodeRecords)
      /\ Len(b.array) \in Nat /\ Len(b.nodes) \in Nat /\ NodesOK(b.nodes)
  BY DEF BodyOK, Bodies
<1>2. CASE p <= Len(b.array)
  <2>1. p \in 1 .. Len(b.array) /\ KeyAt(b, p) = p /\ ValueAt(b, p) = b.array[p]
    BY <1>2, PlacesOf
  <2>2. p \in Integers /\ b.array[p] \in Slots
    BY <1>1, <2>1 DEF BodyOK
  <2>3. InArray(b, p)
    BY <1>2, <2>2 DEF InArray
  <2> QED
    BY <1>2, <2>1, <2>2, <2>3 DEF TableGet, Slots, Keys
<1>3. CASE ~(p <= Len(b.array))
  <2> DEFINE i == p - Len(b.array)
  <2>1. i \in 1 .. Len(b.nodes) /\ KeyAt(b, p) = b.nodes[i].key /\ ValueAt(b, p) = b.nodes[i].value
    BY <1>3, PlacesOf
  <2> HIDE DEF i
  <2>2. b.nodes[i] \in NodeRecords
    BY <1>1, <2>1
  <2>3. b.nodes[i].key # Nil
    BY <1>1, <2>1 DEF NodesOK
  <2>4. b.nodes[i].key \in Keys /\ b.nodes[i].value \in Values
    BY <2>1, <2>2, <2>3 DEF NodeRecords, Slots
  <2>5. ~InArray(b, b.nodes[i].key)
    BY <2>1, <2>3 DEF BodyOK
  <2>6. <<b.nodes[i].key, b.nodes[i].value>> \in Contents(b.nodes)
    BY <2>1, <2>3 DEF Contents
  <2>7. TableGet(b, b.nodes[i].key) = b.nodes[i].value
    <3> DEFINE key == b.nodes[i].key
               value == b.nodes[i].value
    <3>1. key \in Keys /\ ~InArray(b, key) /\ <<key, value>> \in Contents(b.nodes)
      BY <2>4, <2>5, <2>6
    <3> HIDE DEF key, value
    <3>2. TableGet(b, key) = value
      BY <1>1, <3>1, GetByContents
    <3> QED
      BY <3>2 DEF key, value
  <2> QED
    BY <1>3, <2>1, <2>4, <2>5, <2>7
<1> QED
  BY <1>2, <1>3

(* No two places answer for one key, and every key that reads has one.     *)
LEMMA PlacesOnce ==
  ASSUME NEW b, BodyOK(b)
  PROVE  /\ \A p, q \in 1 .. Places(b) :
              ValueAt(b, p) # Nil /\ ValueAt(b, q) # Nil /\ KeyAt(b, p) = KeyAt(b, q) => p = q
         /\ \A k \in Keys : TableGet(b, k) # Nil =>
              \E p \in 1 .. Places(b) : ValueAt(b, p) # Nil /\ KeyAt(b, p) = k
<1> DEFINE size == Len(b.array)
<1>1. /\ size \in Nat /\ Len(b.nodes) \in Nat /\ NodesOK(b.nodes)
      /\ b.nodes \in Seq(NodeRecords)
  BY DEF BodyOK, Bodies
<1>2. ASSUME NEW p \in 1 .. Places(b), NEW q \in 1 .. Places(b),
             ValueAt(b, p) # Nil, ValueAt(b, q) # Nil, KeyAt(b, p) = KeyAt(b, q)
      PROVE  p = q
  <2>1. p <= size <=> q <= size
    BY <1>2, PlaceType
  <2>2. CASE p <= size
    BY <1>2, <2>1, <2>2, PlacesOf
  <2>3. CASE ~(p <= size)
    <3> DEFINE i == p - size
               j == q - size
    <3>1. /\ i \in 1 .. Len(b.nodes) /\ j \in 1 .. Len(b.nodes)
          /\ size + i = p /\ size + j = q
          /\ KeyAt(b, p) = b.nodes[i].key /\ ValueAt(b, p) = b.nodes[i].value
          /\ KeyAt(b, q) = b.nodes[j].key
      BY <2>1, <2>3, PlacesOf
    <3> HIDE DEF i, j
    <3>2. i = j
      BY <1>1, <1>2, <3>1 DEF NodesOK, KeysOnce
    <3> QED
      BY <3>1, <3>2
  <2> QED
    BY <2>2, <2>3
<1>3. ASSUME NEW k \in Keys, TableGet(b, k) # Nil
      PROVE  \E p \in 1 .. Places(b) : ValueAt(b, p) # Nil /\ KeyAt(b, p) = k
  <2>1. CASE InArray(b, k)
    <3>1. k \in 1 .. size
      BY <1>1, <2>1, IntegersAssumption DEF InArray
    <3> QED
      BY <1>3, <2>1, <3>1, PlacesOf DEF TableGet
  <2>2. CASE ~InArray(b, k)
    <3> DEFINE i == FindNode(b, k)
    <3>1. i # 0 /\ b.nodes[i].value # Nil
      BY <1>3, <2>2 DEF TableGet
    <3>2. i \in 0 .. Len(b.nodes) /\ b.nodes[i].key = k
      BY <1>1, <3>1, FindIsRight
    <3> HIDE DEF i
    <3>3. i \in 1 .. Len(b.nodes)
      BY <1>1, <3>1, <3>2
    <3> QED
      BY <3>1, <3>2, <3>3, PlacesOf
  <2> QED
    BY <2>1, <2>2
<1> QED
  BY <1>2, <1>3

(* A body whose nodes took a new key reads as before but for that key.     *)
TookNode(b, c, key, value) ==
  /\ NodesOK(b.nodes) /\ NodesOK(c.nodes) /\ c.array = b.array
  /\ ~InArray(b, key) /\ FindNode(b, key) = 0
  /\ Contents(c.nodes) = Contents(b.nodes) \cup {<<key, value>>}

(* A key put into the node part reads as its value; nothing else changes.  *)
LEMMA ReadsWithNewNode ==
  ASSUME NEW b, NEW c, NEW key \in Keys, NEW value, TookNode(b, c, key, value)
  PROVE  /\ TableGet(c, key) = value
         /\ \A k \in Keys \ {key} : TableGet(c, k) = TableGet(b, k)
         /\ NodeKeys(c) \subseteq NodeKeys(b) \cup {key}
<1> USE DEF TookNode
<1>1. \A k : InArray(c, k) <=> InArray(b, k)
  BY DEF InArray
<1>2. TableGet(c, key) = value
  BY <1>1, GetByContents
<1>3. ASSUME NEW k \in Keys \ {key}
      PROVE  TableGet(c, k) = TableGet(b, k)
  <2>1. CASE InArray(b, k)
    BY <1>1, <2>1 DEF TableGet
  <2>2. CASE ~InArray(b, k)
    <3>1. \A v : <<k, v>> \in Contents(c.nodes) <=> <<k, v>> \in Contents(b.nodes)
      BY <1>3
    <3>2. CASE FindNode(b, k) # 0
      <4>1. <<k, TableGet(b, k)>> \in Contents(b.nodes)
        BY <2>2, <3>2, GetByContents
      <4> QED
        BY <4>1, <3>1, <1>1, <2>2, GetByContents, ZenonT(40)
    <3>3. CASE FindNode(b, k) = 0
      <4>1. FindNode(c, k) = 0
        <5> SUFFICES ASSUME FindNode(c, k) # 0 PROVE FALSE
          OBVIOUS
        <5>1. <<k, TableGet(c, k)>> \in Contents(b.nodes)
          BY <3>1, <1>1, <2>2, GetByContents
        <5> QED
          BY <5>1, <2>2, <3>3, GetByContents
      <4> QED
        BY <4>1, <3>3, <1>1, <2>2, GetByContents
    <3> QED
      BY <3>2, <3>3
  <2> QED
    BY <2>1, <2>2
<1>4. ASSUME NEW k \in NodeKeys(c)
      PROVE  k \in NodeKeys(b) \cup {key}
  <2>0. PICK i \in 1 .. Len(c.nodes) : c.nodes[i].key # Nil /\ k = c.nodes[i].key
    BY <1>4 DEF NodeKeys
  <2>1. <<k, c.nodes[i].value>> \in Contents(c.nodes)
    BY <2>0 DEF Contents
  <2>2. PICK v : <<k, v>> \in Contents(b.nodes) \cup {<<key, value>>}
    BY <2>1
  <2> QED
    BY <2>2 DEF Contents, NodeKeys
<1> QED
  BY <1>2, <1>3, <1>4

(* An array slot written.                                                  *)
LEMMA SlotIsRight ==
  ASSUME NEW b, BodyOK(b), NEW key, InArray(b, key), NEW value \in Slots,
         NEW c, c = [b EXCEPT !.array[key] = value]
  PROVE  /\ BodyOK(c) /\ Len(c.array) = Len(b.array) /\ c.nodes = b.nodes
         /\ TableGet(c, key) = value
         /\ \A k \in Keys \ {key} : TableGet(c, k) = TableGet(b, k)
         /\ \A k : InArray(c, k) <=> InArray(b, k)
         /\ \A k : FindNode(c, k) = FindNode(b, k)
<1> DEFINE slots == [b.array EXCEPT ![key] = value]
<1>1. /\ b \in Bodies /\ b.array \in Seq(Slots) /\ Len(b.array) \in Nat
      /\ b = [array |-> b.array, nodes |-> b.nodes, free |-> b.free]
  BY DEF BodyOK, Bodies
<1>2. key \in Integers /\ key \in 1 .. Len(b.array)
  BY <1>1, IntegersAssumption DEF InArray
<1>3. /\ slots \in Seq(Slots) /\ Len(slots) = Len(b.array) /\ slots[key] = value
      /\ \A i \in 1 .. Len(b.array) : i # key => slots[i] = b.array[i]
  BY <1>1, <1>2
<1>4. c = [array |-> slots, nodes |-> b.nodes, free |-> b.free]
  BY <1>1
<1> HIDE DEF slots
<1>5. c.array = slots /\ c.nodes = b.nodes /\ c.free = b.free
  BY <1>4
<1>6. \A k : InArray(c, k) <=> InArray(b, k)
  BY <1>3, <1>5 DEF InArray
<1>7. ASSUME NEW k
      PROVE  FindNode(c, k) = FindNode(b, k)
  BY <1>5 DEF FindNode, MainPosition
<1>8. TableGet(c, key) = value
  BY <1>3, <1>5, <1>6 DEF TableGet
<1>9. ASSUME NEW k \in Keys \ {key}
      PROVE  TableGet(c, k) = TableGet(b, k)
  <2>1. CASE InArray(b, k)
    <3>1. k \in 1 .. Len(b.array)
      BY <1>1, <2>1, IntegersAssumption DEF InArray
    <3> QED
      BY <1>3, <1>5, <1>6, <1>9, <2>1, <3>1 DEF TableGet
  <2>2. CASE ~InArray(b, k)
    BY <1>5, <1>6, <1>7, <2>2 DEF TableGet
  <2> QED
    BY <2>1, <2>2
<1>10. c \in Bodies
  <2>1. b.nodes \in Seq(NodeRecords) /\ b.free \in Nat
    BY <1>1 DEF Bodies
  <2> QED
    <3> DEFINE d == [array |-> slots, nodes |-> b.nodes, free |-> b.free]
    <3>1. d \in Bodies
      BY <1>3, <2>1, BodyType
    <3>2. c = d
      BY <1>4
    <3> HIDE DEF d
    <3> QED
      BY <3>1, <3>2
<1>11. Walked(c)
  BY <1>5 DEF BodyOK, Walked
<1>12. \A i \in 1 .. Len(c.array) : c.array[i] # Nil => i \in Integers
  BY <1>2, <1>3, <1>5 DEF BodyOK
<1>13. BodyOK(c)
  BY <1>5, <1>6, <1>10, <1>11, <1>12 DEF BodyOK
<1> QED
  BY <1>3, <1>5, <1>6, <1>7, <1>8, <1>9, <1>13

(* Stored puts a new key where there is room.                              *)
LEMMA StoredIsRight ==
  ASSUME NEW b, BodyOK(b), NEW key \in Keys, NEW value \in Values,
         InArray(b, key) \/ (FindNode(b, key) = 0 /\ HasRoom(b, key)),
         NEW c, c = Stored(b, key, value)
  PROVE  /\ BodyOK(c) /\ Len(c.array) = Len(b.array) /\ Len(c.nodes) = Len(b.nodes)
         /\ TableGet(c, key) = value
         /\ \A k \in Keys \ {key} : TableGet(c, k) = TableGet(b, k)
         /\ NodeKeys(c) \subseteq NodeKeys(b) \cup (IF InArray(b, key) THEN {} ELSE {key})
<1>1. CASE InArray(b, key)
  <2>1. c = [b EXCEPT !.array[key] = value]
    BY <1>1 DEF Stored
  <2>2. value \in Slots
    BY DEF Slots
  <2>3. /\ BodyOK(c) /\ Len(c.array) = Len(b.array) /\ c.nodes = b.nodes
        /\ TableGet(c, key) = value
        /\ \A k \in Keys \ {key} : TableGet(c, k) = TableGet(b, k)
    BY <1>1, <2>1, <2>2, SlotIsRight
  <2> QED
    BY <1>1, <2>3 DEF NodeKeys
<1>2. CASE ~InArray(b, key)
  <2>1. c = Placed(b, key, value)
    BY <1>2 DEF Stored
  <2>2. /\ BodyOK(c) /\ c.array = b.array /\ Len(c.nodes) = Len(b.nodes)
        /\ Contents(c.nodes) = Contents(b.nodes) \cup {<<key, value>>}
    BY <1>2, <2>1, PlacedIsRight
  <2>3. NodesOK(b.nodes) /\ NodesOK(c.nodes)
    BY <2>2 DEF BodyOK
  <2>4. /\ TableGet(c, key) = value
        /\ \A k \in Keys \ {key} : TableGet(c, k) = TableGet(b, k)
        /\ NodeKeys(c) \subseteq NodeKeys(b) \cup {key}
    <3>1. ~InArray(b, key) /\ FindNode(b, key) = 0 /\ c.array = b.array
      BY <1>2, <2>2
    <3>2. TookNode(b, c, key, value)
      BY <2>2, <2>3, <3>1 DEF TookNode
    <3> QED
      BY <3>2, ReadsWithNewNode
  <2> QED
    BY <1>2, <2>2, <2>4
<1> QED
  BY <1>1, <1>2

-----------------------------------------------------------------------------
(* A new node part is all unused.                                          *)
LEMMA NewBody ==
  ASSUME NEW size \in Nat, NEW n \in Nat, NEW c,
         c = [array |-> Blank(size), nodes |-> Nodes(n), free |-> 0]
  PROVE  /\ BodyOK(c) /\ Len(c.array) = size /\ Len(c.nodes) = n /\ NodeKeys(c) = {}
         /\ \A k \in Keys : TableGet(c, k) = Nil
<1>1. c.array = Blank(size) /\ c.nodes = Nodes(n) /\ c.free = 0
  OBVIOUS
<1>2. /\ Blank(size) \in Seq(Slots) /\ Len(Blank(size)) = size
      /\ \A i \in 1 .. size : Blank(size)[i] = Nil
  BY DEF Blank, Slots
<1>3. /\ Nodes(n) \in Seq(NodeRecords) /\ Len(Nodes(n)) = n
      /\ \A i \in 1 .. n : Nodes(n)[i] = Unused
  <2>1. Unused \in NodeRecords
    BY DEF Unused, NodeRecords, Slots
  <2> QED
    BY <2>1 DEF Nodes
<1>4. \A i \in 1 .. n : Nodes(n)[i].key = Nil /\ Nodes(n)[i].next = 0 /\ Nodes(n)[i].value = Nil
  BY <1>3 DEF Unused
<1>5. c \in Bodies
  BY <1>2, <1>3, BodyType
<1>6. NodesOK(c.nodes)
  <2>1. Ranked(Nodes(n))
    <3> DEFINE rank == [i \in 1 .. n |-> 0]
    <3>1. rank \in [1 .. n -> 0 .. 0] /\ Falls(Nodes(n), rank)
      BY <1>3, <1>4 DEF Falls
    <3> HIDE DEF rank
    <3> QED
      BY <3>1, <1>3 DEF Ranked
  <2> QED
    BY <1>1, <1>3, <1>4, <2>1 DEF NodesOK, KeysOnce, Joins, OneBefore, Reached
<1>7. Walked(c)
  BY <1>1, <1>3 DEF Walked
<1>8. BodyOK(c)
  BY <1>1, <1>2, <1>3, <1>4, <1>5, <1>6, <1>7 DEF BodyOK
<1>9. NodeKeys(c) = {}
  BY <1>1, <1>3, <1>4 DEF NodeKeys
<1>10. ASSUME NEW k \in Keys
       PROVE  TableGet(c, k) = Nil
  <2>1. CASE InArray(c, k)
    <3>1. k \in 1 .. size
      BY <1>1, <1>2, <2>1, IntegersAssumption DEF InArray
    <3> QED
      BY <1>1, <1>2, <2>1, <3>1 DEF TableGet
  <2>2. CASE ~InArray(c, k)
    <3>1. FindNode(c, k) = 0
      <4> SUFFICES ASSUME FindNode(c, k) # 0 PROVE FALSE
        OBVIOUS
      <4>1. FindNode(c, k) \in 0 .. n /\ c.nodes[FindNode(c, k)].key = k
        BY <1>1, <1>3, <1>6, FindIsRight
      <4>2. FindNode(c, k) \in 1 .. n
        BY <4>1
      <4> QED
        BY <1>1, <1>4, <4>1, <4>2, NilAssumption
    <3> QED
      BY <2>2, <3>1 DEF TableGet
  <2> QED
    BY <2>1, <2>2
<1> QED
  BY <1>1, <1>2, <1>3, <1>8, <1>9, <1>10

(* The keys a refresh lays the nodes out for.                              *)
Held(b) == {KeyAt(b, p) : p \in LivePlaces(b, 0)}
Wanted(b, key, size) == (Held(b) \cup {key}) \ {k \in Integers : k <= size}

(* The parts a refresh starts from are empty, and hold more nodes than     *)
(* there are keys for them.                                                *)
LEMMA LaidIsRoom ==
  ASSUME NEW b, BodyOK(b), NEW key \in Keys, NEW c, c = Laid(b, key)
  PROVE  /\ BodyOK(c) /\ NodeKeys(c) = {} /\ \A k \in Keys : TableGet(c, k) = Nil
         /\ Len(c.array) \in Nat
         /\ IsFiniteSet(Wanted(b, key, Len(c.array)))
         /\ Wanted(b, key, Len(c.array)) # {} =>
              Cardinality(Wanted(b, key, Len(c.array))) < Len(c.nodes)
<1> DEFINE held == LivePlaces(b, 0)
           all == Held(b) \cup {key}
           integers == all \cap Integers
           size == BestArraySize(integers)
           wanted == Cardinality(held) + 1 - Covered(integers, size)
<1>1. IsFiniteSet(held)
  <2>1. 1 \in Int /\ Places(b) \in Int
    BY PlacesOf
  <2>2. IsFiniteSet(1 .. Places(b))
    BY <2>1, FS_Interval
  <2>3. held \in SUBSET (1 .. Places(b))
    BY DEF LivePlaces
  <2> QED
    BY <2>2, <2>3, FS_Subset
<1>2. /\ IsFiniteSet(Held(b)) /\ Cardinality(Held(b)) <= Cardinality(held)
  <2> DEFINE f == [p \in held |-> KeyAt(b, p)]
  <2>1. Held(b) = {f[p] : p \in held}
    BY DEF Held
  <2>2. f \in Surjection(held, Held(b))
    <3> HIDE DEF held
    <3>1. f \in [held -> Held(b)]
      BY <2>1
    <3> HIDE DEF f
    <3> QED
      BY <2>1, <3>1 DEF Surjection
  <2> HIDE DEF f, held
  <2> QED
    BY <1>1, <2>2, FS_Surjection
<1>3. IsFiniteSet(all) /\ Cardinality(all) <= Cardinality(held) + 1
  <2>1. Cardinality(Held(b)) \in Nat /\ Cardinality(held) \in Nat
    BY <1>1, <1>2, FS_CardinalityType
  <2>2. /\ IsFiniteSet(all)
        /\ Cardinality(all) = IF key \in Held(b) THEN Cardinality(Held(b)) ELSE Cardinality(Held(b)) + 1
    BY <1>2, FS_AddElement
  <2> HIDE DEF held, all
  <2> QED
    BY <1>2, <2>1, <2>2
<1> HIDE DEF all, held
<1>4. integers \in SUBSET all
  OBVIOUS
<1>5. IsFiniteSet(integers)
  BY <1>3, <1>4, FS_Subset
<1>6. size \in Nat
  <2> HIDE DEF integers
  <2> QED
    BY <1>5, BestArraySizeType
<1> DEFINE covered == {k \in integers : k <= size}
<1>7. /\ Wanted(b, key, size) = all \ covered
      /\ Covered(integers, size) = Cardinality(covered)
      /\ all \cap covered = covered
  <2> HIDE DEF size
  <2> QED
    BY DEF Wanted, Covered, all
<1> HIDE DEF integers, size, covered
<1>8. /\ IsFiniteSet(Wanted(b, key, size))
      /\ Cardinality(Wanted(b, key, size)) = Cardinality(all) - Covered(integers, size)
  BY <1>3, <1>7, FS_Difference
<1>9. /\ Cardinality(all) \in Nat /\ Cardinality(held) \in Nat
      /\ Cardinality(Wanted(b, key, size)) \in Nat
  BY <1>1, <1>3, <1>8, FS_CardinalityType
<1>10. Covered(integers, size) \in Nat
  <2>1. covered \in SUBSET all
    BY <1>7
  <2> QED
    BY <1>3, <1>7, <2>1, FS_Subset, FS_CardinalityType
<1>11. wanted \in Nat /\ Cardinality(Wanted(b, key, size)) <= wanted
  BY <1>3, <1>8, <1>9, <1>10
<1>12. c = [array |-> Blank(size), nodes |-> Nodes(NodesFor(wanted)), free |-> 0]
  BY DEF Laid, Held, all, held, integers, size
<1> HIDE DEF wanted
<1>13. NodesFor(wanted) \in Nat /\ (wanted # 0 => NodesFor(wanted) > wanted)
  BY <1>11, NodesForIsRoom
<1>14. /\ BodyOK(c) /\ Len(c.array) = size /\ Len(c.nodes) = NodesFor(wanted)
       /\ NodeKeys(c) = {} /\ \A k \in Keys : TableGet(c, k) = Nil
  BY <1>6, <1>12, <1>13, NewBody
<1>15. ASSUME Wanted(b, key, size) # {}
       PROVE  Cardinality(Wanted(b, key, size)) < NodesFor(wanted)
  <2>1. Cardinality(Wanted(b, key, size)) # 0
    BY <1>8, <1>15, FS_EmptySet
  <2> QED
    BY <2>1, <1>9, <1>11, <1>13
<1> QED
  BY <1>6, <1>8, <1>14, <1>15

IsRestoring(f, b, laid) ==
  f = [p \in 0 .. Places(b) |->
         IF p = 0 THEN laid
         ELSE IF ValueAt(b, p) = Nil THEN f[p - 1]
         ELSE Stored(f[p - 1], KeyAt(b, p), ValueAt(b, p))]

(* Putting the entries back one by one is defined.                         *)
LEMMA RestoringExists ==
  ASSUME NEW b, NEW laid, Places(b) \in Nat
  PROVE  \E f : IsRestoring(f, b, laid)
<1> DEFINE Step(g, p) == IF p = 0 THEN laid
                         ELSE IF ValueAt(b, p) = Nil THEN g[p - 1]
                         ELSE Stored(g[p - 1], KeyAt(b, p), ValueAt(b, p))
           Part(g, r) == g = [p \in 0 .. r |-> Step(g, p)]
           S == {r \in Nat : \E g : Part(g, r)}
<1>1. 0 \in S
  <2> DEFINE g == [p \in 0 .. 0 |-> laid]
  <2>1. \A p \in 0 .. 0 : p = 0
    OBVIOUS
  <2>2. Part(g, 0)
    BY <2>1
  <2> HIDE DEF g, Part
  <2>3. \E g1 : Part(g1, 0)
    BY <2>2
  <2> QED
    BY <2>3
<1>2. ASSUME NEW r \in Nat, r \in S
      PROVE  r + 1 \in S
  <2>1. PICK g : Part(g, r)
    BY <1>2
  <2> DEFINE h == [p \in 0 .. r + 1 |-> Step(g, p)]
  <2>2. ASSUME NEW p \in 0 .. r + 1
        PROVE  Step(g, p) = Step(h, p)
    <3> SUFFICES ASSUME p # 0 PROVE g[p - 1] = h[p - 1]
      OBVIOUS
    <3>1. p - 1 \in 0 .. r /\ p - 1 \in 0 .. r + 1
      OBVIOUS
    <3> DEFINE q == p - 1
    <3> HIDE DEF q
    <3>2. g[q] = Step(g, q)
      BY <2>1, <3>1 DEF q
    <3>3. h[q] = Step(g, q)
      BY <3>1 DEF q
    <3> QED
      BY <3>2, <3>3 DEF q
  <2>3. Part(h, r + 1)
    <3> HIDE DEF Step
    <3> QED
      BY <2>2
  <2> HIDE DEF h, Part
  <2>4. \E g1 : Part(g1, r + 1)
    BY <2>3
  <2> QED
    BY <2>4
<1>3. Places(b) \in S
  <2> HIDE DEF S
  <2> QED
    BY <1>1, <1>2, Induction
<1>4. PICK g : Part(g, Places(b))
  BY <1>3
<1> QED
  BY <1>4 DEF IsRestoring

(* What the first places of b hold, and nothing else, is in c.             *)
PutBack(b, c, upto) ==
  \A k \in Keys :
    \/ \E p \in 1 .. upto :
         ValueAt(b, p) # Nil /\ KeyAt(b, p) = k /\ TableGet(c, k) = ValueAt(b, p)
    \/ /\ TableGet(c, k) = Nil
       /\ \A p \in 1 .. upto : ValueAt(b, p) # Nil => KeyAt(b, p) # k

(* A refresh loses nothing: the entries go back where they are found, and  *)
(* there is room for every one.                                            *)
LEMMA RestoredIsRight ==
  ASSUME NEW b, BodyOK(b), NEW key \in Keys, NEW c, c = Restored(b, Laid(b, key))
  PROVE  /\ BodyOK(c) /\ PutBack(b, c, Places(b))
         /\ Len(c.array) = Len(Laid(b, key).array) /\ Len(c.nodes) = Len(Laid(b, key).nodes)
         /\ NodeKeys(c) \subseteq Held(b) \cap Wanted(b, key, Len(c.array))
<1> DEFINE laid == Laid(b, key)
           n == Places(b)
           f == CHOOSE g : IsRestoring(g, b, laid)
           size == Len(laid.array)
           W == Wanted(b, key, size)
           Earlier(p) == {KeyAt(b, q) : q \in {r \in 1 .. p : ValueAt(b, r) # Nil}}
           OK(d, p) == /\ BodyOK(d) /\ PutBack(b, d, p)
                       /\ Len(d.array) = size /\ Len(d.nodes) = Len(laid.nodes)
                       /\ NodeKeys(d) \subseteq Earlier(p) \cap W
           S == {p \in Nat : p <= n => OK(f[p], p)}
<1>1. /\ BodyOK(laid) /\ NodeKeys(laid) = {} /\ \A k \in Keys : TableGet(laid, k) = Nil
      /\ size \in Nat /\ IsFiniteSet(W)
      /\ W # {} => Cardinality(W) < Len(laid.nodes)
  BY LaidIsRoom
<1>2. n \in Nat
  BY PlacesOf
<1>3. IsRestoring(f, b, laid)
  BY <1>2, RestoringExists
<1>4. Restored(b, laid) = f[n]
  BY DEF Restored, IsRestoring
<1> HIDE DEF f, laid, n
<1>5. /\ f[0] = laid
      /\ \A p \in 1 .. n : f[p] = IF ValueAt(b, p) = Nil THEN f[p - 1]
                                  ELSE Stored(f[p - 1], KeyAt(b, p), ValueAt(b, p))
  BY <1>2, <1>3 DEF IsRestoring, n
<1>6. 0 \in S
  <2>1. PutBack(b, laid, 0)
    BY <1>1 DEF PutBack
  <2> QED
    BY <1>1, <1>5, <2>1
<1>7. ASSUME NEW r \in Nat, r \in S
      PROVE  r + 1 \in S
  <2> SUFFICES ASSUME r + 1 <= n PROVE OK(f[r + 1], r + 1)
    OBVIOUS
  <2> DEFINE p == r + 1
             d == f[r]
             e == f[r + 1]
             k == KeyAt(b, p)
             v == ValueAt(b, p)
  <2>1. OK(d, r)
    BY <1>2, <1>7
  <2>2. p \in 1 .. n /\ p - 1 = r
    BY <1>2
  <2>3. \A q \in 1 .. p : q \in 1 .. r \/ q = p
    OBVIOUS
  <2>4. 1 .. r \subseteq 1 .. p /\ p \in 1 .. p /\ \A q \in 1 .. r : q # p
    OBVIOUS
  <2>8. \A q \in 1 .. p : q \in 1 .. n
    BY <1>2, <2>2
  <2>5. e = IF v = Nil THEN d ELSE Stored(d, k, v)
    BY <1>5, <2>2
  <2> HIDE DEF d, e, k, v, p
  <2>6. CASE v = Nil
    <3>1. Earlier(p) = Earlier(r)
      BY <2>3, <2>4, <2>6 DEF v
    <3>2. PutBack(b, d, p)
      BY <2>1, <2>3, <2>4, <2>6 DEF PutBack, v
    <3> HIDE DEF Earlier, W, size
    <3>3. OK(e, p)
      BY <2>1, <2>5, <2>6, <3>1, <3>2
    <3> QED
      BY <3>3 DEF e, p
  <2>7. CASE v # Nil
    <3>1. k \in Keys /\ v \in Values /\ k \in Held(b)
      <4>1. p \in LivePlaces(b, 0)
        BY <2>2, <2>7 DEF LivePlaces, v, n
      <4> QED
        BY <2>2, <2>7, <4>1, PlaceType DEF k, v, n, Held
    <3>2. k \notin Earlier(r)
      <4> SUFFICES ASSUME NEW q \in 1 .. r, ValueAt(b, q) # Nil, KeyAt(b, q) = k PROVE FALSE
        OBVIOUS
      <4>1. q \in 1 .. n /\ q # p
        BY <2>4, <2>8
      <4> QED
        BY <4>1, <2>2, <2>7, PlacesOnce DEF k, v, n
    <3>3. e = Stored(d, k, v)
      BY <2>5, <2>7
    <3>4. InArray(d, k) => k \notin W
      BY <2>1 DEF InArray, Wanted
    <3>5. ~InArray(d, k) => k \in W
      BY <2>1, <3>1 DEF InArray, Wanted
    <3>6. InArray(d, k) \/ (FindNode(d, k) = 0 /\ HasRoom(d, k))
      <4> SUFFICES ASSUME ~InArray(d, k) PROVE FindNode(d, k) = 0 /\ HasRoom(d, k)
        OBVIOUS
      <4>1. FindNode(d, k) = 0
        <5> SUFFICES ASSUME FindNode(d, k) # 0 PROVE FALSE
          OBVIOUS
        <5>1. NodesOK(d.nodes) /\ Len(d.nodes) \in Nat
          BY <2>1 DEF BodyOK, Bodies
        <5>2. FindNode(d, k) \in 0 .. Len(d.nodes) /\ d.nodes[FindNode(d, k)].key = k
          BY <3>1, <5>1, FindIsRight
        <5>3. FindNode(d, k) \in 1 .. Len(d.nodes) /\ k # Nil
          BY <3>1, <5>1, <5>2, NilAssumption
        <5>4. k \in NodeKeys(d)
          BY <5>2, <5>3 DEF NodeKeys
        <5> QED
          BY <5>4, <2>1, <3>2
      <4>2. Cardinality(W) < Len(d.nodes)
        BY <1>1, <2>1, <3>5
      <4>3. BodyOK(d) /\ NodeKeys(d) \subseteq W
        BY <2>1
      <4> HIDE DEF W, OK
      <4>4. HasRoom(d, k)
        BY <1>1, <3>1, <4>2, <4>3, RoomIfFew
      <4> QED
        BY <4>1, <4>4
    <3>7. /\ BodyOK(e) /\ Len(e.array) = Len(d.array) /\ Len(e.nodes) = Len(d.nodes)
          /\ TableGet(e, k) = v
          /\ \A m \in Keys \ {k} : TableGet(e, m) = TableGet(d, m)
          /\ NodeKeys(e) \subseteq NodeKeys(d) \cup (IF InArray(d, k) THEN {} ELSE {k})
      <4>1. BodyOK(d)
        BY <2>1
      <4> HIDE DEF OK
      <4> QED
        BY <4>1, <3>1, <3>3, <3>6, StoredIsRight
    <3>8. Earlier(p) = Earlier(r) \cup {k}
      BY <2>3, <2>4, <2>7 DEF k, v
    <3>9. PutBack(b, e, p)
      <4> SUFFICES ASSUME NEW m \in Keys
                   PROVE  \/ \E q \in 1 .. p :
                               ValueAt(b, q) # Nil /\ KeyAt(b, q) = m /\ TableGet(e, m) = ValueAt(b, q)
                          \/ /\ TableGet(e, m) = Nil
                             /\ \A q \in 1 .. p : ValueAt(b, q) # Nil => KeyAt(b, q) # m
        BY DEF PutBack
      <4>1. CASE m = k
        BY <4>1, <2>4, <2>7, <3>7 DEF k, v
      <4>2. CASE m # k
        <5>1. TableGet(e, m) = TableGet(d, m)
          BY <4>2, <3>7
        <5>2. \/ \E q \in 1 .. r :
                   ValueAt(b, q) # Nil /\ KeyAt(b, q) = m /\ TableGet(d, m) = ValueAt(b, q)
              \/ /\ TableGet(d, m) = Nil
                 /\ \A q \in 1 .. r : ValueAt(b, q) # Nil => KeyAt(b, q) # m
          BY <2>1 DEF PutBack
        <5>3. KeyAt(b, p) # m
          BY <4>2 DEF k
        <5> QED
          BY <5>1, <5>2, <5>3, <2>3, <2>4
      <4> QED
        BY <4>1, <4>2
    <3> HIDE DEF Earlier, W, size
    <3>10. NodeKeys(e) \subseteq Earlier(p) \cap W
      BY <2>1, <3>5, <3>7, <3>8
    <3>11. OK(e, p)
      BY <2>1, <3>7, <3>9, <3>10
    <3> QED
      BY <3>11 DEF e, p
  <2> QED
    BY <2>6, <2>7
<1>8. OK(f[n], n)
  <2> HIDE DEF S
  <2>1. n \in S
    BY <1>2, <1>6, <1>7, Induction
  <2> QED
    BY <1>2, <2>1 DEF S
<1>9. Earlier(n) = Held(b)
  BY DEF Held, LivePlaces, n
<1>10. c = f[n]
  BY <1>4 DEF laid
<1> QED
  BY <1>8, <1>9, <1>10 DEF laid, n

(* After a refresh the table reads as before, and holds the new key.       *)
LEMMA RefreshedIsRight ==
  ASSUME NEW b, BodyOK(b), NEW key \in Keys, NEW value \in Values,
         ~InArray(b, key), FindNode(b, key) = 0,
         NEW c, c = Refreshed(b, key, value)
  PROVE  /\ BodyOK(c)
         /\ TableGet(c, key) = value
         /\ \A k \in Keys \ {key} : TableGet(c, k) = TableGet(b, k)
<1> DEFINE laid == Laid(b, key)
           d == Restored(b, laid)
           W == Wanted(b, key, Len(d.array))
<1>1. /\ BodyOK(d) /\ PutBack(b, d, Places(b))
      /\ Len(d.array) = Len(laid.array) /\ Len(d.nodes) = Len(laid.nodes)
      /\ NodeKeys(d) \subseteq Held(b) \cap W
  BY RestoredIsRight
<1>2. IsFiniteSet(W) /\ (W # {} => Cardinality(W) < Len(d.nodes))
  BY <1>1, LaidIsRoom
<1>3. c = Stored(d, key, value)
  BY DEF Refreshed
<1> HIDE DEF d, laid
<1>4. ASSUME NEW k \in Keys
      PROVE  TableGet(d, k) = TableGet(b, k)
  <2>1. CASE \E p \in 1 .. Places(b) :
               ValueAt(b, p) # Nil /\ KeyAt(b, p) = k /\ TableGet(d, k) = ValueAt(b, p)
    <3>1. PICK p \in 1 .. Places(b) :
            ValueAt(b, p) # Nil /\ KeyAt(b, p) = k /\ TableGet(d, k) = ValueAt(b, p)
      BY <2>1
    <3>2. TableGet(b, KeyAt(b, p)) = ValueAt(b, p)
      BY <3>1, PlaceType
    <3> QED
      BY <3>1, <3>2
  <2>2. CASE /\ TableGet(d, k) = Nil
             /\ \A p \in 1 .. Places(b) : ValueAt(b, p) # Nil => KeyAt(b, p) # k
    BY <2>2, PlacesOnce
  <2> QED
    BY <1>1, <2>1, <2>2 DEF PutBack
<1>5. TableGet(b, key) = Nil
  BY DEF TableGet
<1>6. key \notin Held(b)
  <2> SUFFICES ASSUME NEW p \in LivePlaces(b, 0), KeyAt(b, p) = key PROVE FALSE
    BY DEF Held
  <2>1. p \in 1 .. Places(b) /\ ValueAt(b, p) # Nil
    BY DEF LivePlaces
  <2>2. TableGet(b, KeyAt(b, p)) = ValueAt(b, p)
    BY <2>1, PlaceType
  <2> QED
    BY <1>5, <2>1, <2>2
<1>7. InArray(d, key) \/ (FindNode(d, key) = 0 /\ HasRoom(d, key))
  <2> SUFFICES ASSUME ~InArray(d, key) PROVE FindNode(d, key) = 0 /\ HasRoom(d, key)
    OBVIOUS
  <2>1. FindNode(d, key) = 0
    <3> SUFFICES ASSUME FindNode(d, key) # 0 PROVE FALSE
      OBVIOUS
    <3>1. NodesOK(d.nodes) /\ Len(d.nodes) \in Nat
      BY <1>1 DEF BodyOK, Bodies
    <3>2. FindNode(d, key) \in 0 .. Len(d.nodes) /\ d.nodes[FindNode(d, key)].key = key
      BY <3>1, FindIsRight
    <3>3. FindNode(d, key) \in 1 .. Len(d.nodes) /\ key # Nil
      BY <3>1, <3>2, NilAssumption
    <3>4. key \in NodeKeys(d)
      BY <3>2, <3>3 DEF NodeKeys
    <3> QED
      BY <3>4, <1>1, <1>6
  <2>2. key \in W
    BY DEF Wanted, InArray
  <2>3. NodeKeys(d) \subseteq W /\ Cardinality(W) < Len(d.nodes)
    BY <1>1, <1>2, <2>2
  <2> HIDE DEF W
  <2>4. HasRoom(d, key)
    BY <1>1, <1>2, <2>3, RoomIfFew
  <2> QED
    BY <2>1, <2>4
<1>8. /\ BodyOK(c) /\ TableGet(c, key) = value
      /\ \A k \in Keys \ {key} : TableGet(c, k) = TableGet(d, k)
  BY <1>1, <1>3, <1>7, StoredIsRight
<1> QED
  BY <1>4, <1>8

-----------------------------------------------------------------------------
(* A table whose keys stay where they are, and one of them is given value. *)
Stays(b, c, key, value) ==
  /\ Len(c.array) = Len(b.array) /\ Len(c.nodes) = Len(b.nodes)
  /\ \A k \in Keys : FindNode(c, k) = FindNode(b, k)
  /\ \A p \in 1 .. Places(b) :
       /\ KeyAt(c, p) = KeyAt(b, p)
       /\ ValueAt(c, p) = IF HasPlace(b, key) /\ p = Place(b, key) THEN value ELSE ValueAt(b, p)

(* A node's value written.                                                 *)
LEMMA NodeValueIsRight ==
  ASSUME NEW b, BodyOK(b), NEW key \in Keys, ~InArray(b, key), FindNode(b, key) # 0,
         NEW value \in Slots,
         NEW c, c = [b EXCEPT !.nodes[FindNode(b, key)].value = value]
  PROVE  /\ BodyOK(c) /\ c.array = b.array /\ Len(c.nodes) = Len(b.nodes)
         /\ TableGet(c, key) = value
         /\ \A k \in Keys \ {key} : TableGet(c, k) = TableGet(b, k)
         /\ \A k \in Keys : FindNode(c, k) = FindNode(b, k)
         /\ \A i \in 1 .. Len(b.nodes) :
              /\ c.nodes[i].key = b.nodes[i].key
              /\ c.nodes[i].value = IF i = FindNode(b, key) THEN value ELSE b.nodes[i].value
<1> DEFINE ns == b.nodes
           n == Len(ns)
           at == FindNode(b, key)
           held == [ns[at] EXCEPT !.value = value]
           after == [ns EXCEPT ![at] = held]
<1>1. /\ ns \in Seq(NodeRecords) /\ n \in Nat /\ b.array \in Seq(Slots) /\ b.free \in Nat
      /\ b = [array |-> b.array, nodes |-> ns, free |-> b.free] /\ NodesOK(ns)
  BY DEF BodyOK, Bodies
<1>2. at \in 1 .. n /\ ns[at].key = key /\ \A i \in 1 .. n : ns[i].key = key => i = at
  <2>1. at \in 0 .. n /\ ns[at].key = key /\ \A i \in 1 .. n : ns[i].key = key => i = at
    BY <1>1, FindIsRight
  <2> QED
    BY <1>1, <2>1
<1>3. c = [array |-> b.array, nodes |-> after, free |-> b.free]
  BY <1>1
<1> HIDE DEF at
<1>4. ns[at] \in NodeRecords
  BY <1>1, <1>2
<1>5. held = Node(ns[at].key, value, ns[at].next) /\ held \in NodeRecords
  BY <1>4 DEF NodeRecords, Node
<1> HIDE DEF held
<1>6. /\ after \in Seq(NodeRecords) /\ Len(after) = n /\ after[at] = held
      /\ \A i \in 1 .. n : i # at => after[i] = ns[i]
  BY <1>1, <1>2, <1>5
<1> HIDE DEF after
<1>7. \A i \in 1 .. n : /\ after[i].key = ns[i].key /\ after[i].next = ns[i].next
                        /\ after[i].value = IF i = at THEN value ELSE ns[i].value
  BY <1>5, <1>6 DEF Node
<1>8. \A k : Main(after, k) = Main(ns, k)
  BY <1>6 DEF Main
<1>9. NodesOK(after)
  <2>1. Ranked(after)
    <3>0. PICK top \in Nat : \E rank \in [1 .. n -> 0 .. top] : Falls(ns, rank)
      BY <1>1 DEF NodesOK, Ranked
    <3>1. PICK rank \in [1 .. n -> 0 .. top] : Falls(ns, rank)
      BY <3>0
    <3>2. Falls(after, rank)
      BY <3>1, <1>6, <1>7 DEF Falls
    <3> QED
      BY <3>2, <1>6 DEF Ranked
  <2>2. Joins(after)
    <3> SUFFICES ASSUME NEW i \in 1 .. n, after[i].next # 0
                 PROVE  /\ after[i].next \in 1 .. n
                        /\ after[i].key # Nil /\ after[after[i].next].key # Nil
                        /\ Main(after, after[after[i].next].key) = Main(after, after[i].key)
      BY <1>6 DEF Joins
    <3> DEFINE j == ns[i].next
    <3>1. after[i].next = j /\ j # 0 /\ after[i].key = ns[i].key
      BY <1>7
    <3>2. /\ j \in 1 .. n /\ ns[i].key # Nil /\ ns[j].key # Nil
          /\ Main(ns, ns[j].key) = Main(ns, ns[i].key)
      BY <1>1, <3>1 DEF NodesOK, Joins
    <3> HIDE DEF j
    <3> QED
      BY <3>1, <3>2, <1>7, <1>8
  <2>3. OneBefore(after)
    BY <1>1, <1>6, <1>7 DEF NodesOK, OneBefore
  <2>4. Reached(after)
    <3> SUFFICES ASSUME NEW i \in 1 .. n, after[i].key # Nil, Main(ns, after[i].key) # i
                 PROVE  \E p \in 1 .. n : after[p].next = i
      BY <1>6, <1>8 DEF Reached
    <3>1. PICK p \in 1 .. n : ns[p].next = i
      BY <1>1, <1>7 DEF NodesOK, Reached
    <3> QED
      BY <3>1, <1>7
  <2>5. KeysOnce(after)
    BY <1>1, <1>6, <1>7 DEF NodesOK, KeysOnce
  <2>6. \A i \in 1 .. n : after[i].value # Nil => after[i].key # Nil
    BY <1>1, <1>2, <1>7, NilAssumption DEF NodesOK
  <2> QED
    BY <1>6, <2>1, <2>2, <2>3, <2>4, <2>5, <2>6 DEF NodesOK
<1>10. c.array = b.array /\ c.nodes = after /\ c.free = b.free
  BY <1>3
<1>11. \A k : InArray(c, k) <=> InArray(b, k)
  BY <1>10 DEF InArray
<1>12. ASSUME NEW k \in Keys
       PROVE  FindNode(c, k) = FindNode(b, k)
  <2>1. /\ FindNode(b, k) \in 0 .. n
        /\ FindNode(b, k) # 0 => ns[FindNode(b, k)].key = k
        /\ \A i \in 1 .. n : ns[i].key = k => FindNode(b, k) = i
    BY <1>1, FindIsRight
  <2>2. /\ FindNode(c, k) \in 0 .. n
        /\ FindNode(c, k) # 0 => after[FindNode(c, k)].key = k
        /\ \A i \in 1 .. n : after[i].key = k => FindNode(c, k) = i
    <3>1. NodesOK(c.nodes)
      BY <1>9, <1>10
    <3> QED
      BY <3>1, <1>6, <1>10, FindIsRight, ZenonT(40)
  <2>3. FindNode(b, k) = 0 \/ FindNode(b, k) \in 1 .. n
    BY <1>1, <2>1
  <2>4. FindNode(c, k) = 0 \/ FindNode(c, k) \in 1 .. n
    BY <1>1, <2>2
  <2> QED
    BY <2>1, <2>2, <2>3, <2>4, <1>7
<1>13. TableGet(c, key) = value
  BY <1>2, <1>7, <1>10, <1>11, <1>12 DEF TableGet, at
<1>14. ASSUME NEW k \in Keys \ {key}
       PROVE  TableGet(c, k) = TableGet(b, k)
  <2>1. CASE InArray(b, k)
    BY <2>1, <1>10, <1>11 DEF TableGet
  <2>2. CASE ~InArray(b, k)
    <3>1. FindNode(b, k) \in 0 .. n /\ FindNode(b, k) # at
      BY <1>1, <1>2, <1>14, FindIsRight
    <3>2. FindNode(b, k) = 0 \/ FindNode(b, k) \in 1 .. n
      BY <1>1, <3>1
    <3> QED
      BY <2>2, <3>1, <3>2, <1>7, <1>10, <1>11, <1>12 DEF TableGet
  <2> QED
    BY <2>1, <2>2
<1>15. BodyOK(c)
  <2>1. c \in Bodies
    <3> DEFINE d == [array |-> b.array, nodes |-> after, free |-> b.free]
    <3>1. d \in Bodies
      BY <1>1, <1>6, BodyType
    <3>2. c = d
      BY <1>3
    <3> HIDE DEF d
    <3> QED
      BY <3>1, <3>2
  <2>2. Walked(c)
    BY <1>6, <1>7, <1>10 DEF BodyOK, Walked
  <2>3. \A i \in 1 .. Len(c.nodes) : c.nodes[i].key # Nil => ~InArray(c, c.nodes[i].key)
    BY <1>6, <1>7, <1>10, <1>11 DEF BodyOK
  <2>4. \A i \in 1 .. Len(c.array) : c.array[i] # Nil => i \in Integers
    BY <1>10 DEF BodyOK
  <2> QED
    BY <2>1, <2>2, <2>3, <2>4, <1>9, <1>10 DEF BodyOK
<1> QED
  BY <1>6, <1>7, <1>10, <1>12, <1>13, <1>14, <1>15 DEF at

(* An assignment or an erasure keeps the body right and changes what one   *)
(* key reads; if it adds no key, every key stays where it is.              *)
LEMMA SetInIsRight ==
  ASSUME NEW b, BodyOK(b), NEW key \in Keys, NEW value \in Slots,
         NEW c, c = SetIn(b, key, value)
  PROVE  /\ BodyOK(c)
         /\ TableGet(c, key) = value
         /\ \A k \in Keys \ {key} : TableGet(c, k) = TableGet(b, k)
         /\ value = Nil \/ TableGet(b, key) # Nil => Stays(b, c, key, value)
<1>1. /\ NodesOK(b.nodes) /\ Len(b.nodes) \in Nat /\ Len(b.array) \in Nat
      /\ Places(b) = Len(b.array) + Len(b.nodes)
  BY DEF BodyOK, Bodies, Places
<1>2. key # Nil
  BY NilAssumption
<1>3. CASE InArray(b, key)
  <2>1. c = [b EXCEPT !.array[key] = value]
    BY <1>3 DEF SetIn
  <2>2. /\ BodyOK(c) /\ Len(c.array) = Len(b.array) /\ c.nodes = b.nodes
        /\ TableGet(c, key) = value
        /\ \A k \in Keys \ {key} : TableGet(c, k) = TableGet(b, k)
        /\ \A k : FindNode(c, k) = FindNode(b, k)
    BY <1>3, <2>1, SlotIsRight
  <2>3. HasPlace(b, key) /\ Place(b, key) = key
    BY <1>2, <1>3 DEF HasPlace, Place
  <2>4. ASSUME NEW p \in 1 .. Places(b)
        PROVE  /\ KeyAt(c, p) = KeyAt(b, p)
               /\ ValueAt(c, p) = IF p = key THEN value ELSE ValueAt(b, p)
    <3>1. CASE p <= Len(b.array)
      <4>1. p \in 1 .. Len(b.array)
        BY <3>1, PlacesOf
      <4>2. c.array[p] = IF p = key THEN value ELSE b.array[p]
        <5>1. b.array \in Seq(Slots) /\ b \in Bodies
          BY DEF BodyOK, Bodies
        <5>2. c.array = [b.array EXCEPT ![key] = value]
          BY <2>1, <5>1 DEF Bodies
        <5> QED
          BY <4>1, <5>1, <5>2
      <4> QED
        BY <2>2, <3>1, <4>2 DEF KeyAt, ValueAt
    <3>2. CASE ~(p <= Len(b.array))
      <4>1. p # key
        BY <1>3, <3>2 DEF InArray
      <4> QED
        BY <2>2, <3>2, <4>1 DEF KeyAt, ValueAt
    <3> QED
      BY <3>1, <3>2
  <2> QED
    BY <2>2, <2>3, <2>4 DEF Stays
<1>4. CASE ~InArray(b, key) /\ FindNode(b, key) # 0
  <2> DEFINE at == FindNode(b, key)
             size == Len(b.array)
  <2>1. c = [b EXCEPT !.nodes[at].value = value]
    BY <1>4 DEF SetIn
  <2>2. /\ BodyOK(c) /\ c.array = b.array /\ Len(c.nodes) = Len(b.nodes)
        /\ TableGet(c, key) = value
        /\ \A k \in Keys \ {key} : TableGet(c, k) = TableGet(b, k)
        /\ \A k \in Keys : FindNode(c, k) = FindNode(b, k)
        /\ \A i \in 1 .. Len(b.nodes) :
              /\ c.nodes[i].key = b.nodes[i].key
              /\ c.nodes[i].value = IF i = at THEN value ELSE b.nodes[i].value
    BY <1>4, <2>1, NodeValueIsRight
  <2>3. HasPlace(b, key) /\ Place(b, key) = size + at
    BY <1>2, <1>4 DEF HasPlace, Place
  <2>4. at \in 1 .. Len(b.nodes)
    <3>1. at \in 0 .. Len(b.nodes)
      BY <1>1, FindIsRight
    <3> QED
      BY <1>1, <1>4, <3>1
  <2> HIDE DEF at
  <2>5. ASSUME NEW p \in 1 .. Places(b)
        PROVE  /\ KeyAt(c, p) = KeyAt(b, p)
               /\ ValueAt(c, p) = IF p = size + at THEN value ELSE ValueAt(b, p)
    <3>1. CASE p <= size
      <4>1. p # size + at
        BY <2>4, <3>1, PlacesOf
      <4> QED
        BY <2>2, <3>1, <4>1 DEF KeyAt, ValueAt
    <3>2. CASE ~(p <= size)
      <4> DEFINE i == p - size
      <4>1. i \in 1 .. Len(b.nodes) /\ size + i = p
        BY <3>2, PlacesOf
      <4>2. p = size + at <=> i = at
        BY <1>1, <2>4, <4>1
      <4>3. KeyAt(b, p) = b.nodes[i].key /\ ValueAt(b, p) = b.nodes[i].value
        BY <3>2 DEF KeyAt, ValueAt
      <4>4. KeyAt(c, p) = c.nodes[i].key /\ ValueAt(c, p) = c.nodes[i].value
        BY <2>2, <3>2 DEF KeyAt, ValueAt
      <4> HIDE DEF i, size
      <4> QED
        BY <2>2, <4>1, <4>2, <4>3, <4>4
    <3> QED
      BY <3>1, <3>2
  <2> QED
    BY <2>2, <2>3, <2>5 DEF Stays
<1>5. CASE ~InArray(b, key) /\ FindNode(b, key) = 0
  <2>1. TableGet(b, key) = Nil
    BY <1>5 DEF TableGet
  <2>2. CASE value = Nil
    <3>1. c = b
      BY <1>5, <2>2 DEF SetIn
    <3>2. ~HasPlace(b, key)
      BY <1>2, <1>5 DEF HasPlace
    <3> QED
      BY <2>1, <2>2, <3>1, <3>2 DEF Stays
  <2>3. CASE value # Nil
    <3>1. value \in Values
      BY <2>3 DEF Slots
    <3>2. CASE HasRoom(b, key)
      <4>1. c = Placed(b, key, value) /\ c = Stored(b, key, value)
        BY <1>5, <2>3, <3>2 DEF SetIn, Stored
      <4> QED
        BY <1>5, <2>1, <2>3, <3>1, <3>2, <4>1, StoredIsRight
    <3>3. CASE ~HasRoom(b, key)
      <4>1. c = Refreshed(b, key, value)
        BY <1>5, <2>3, <3>3 DEF SetIn
      <4> QED
        BY <1>5, <2>1, <2>3, <3>1, <4>1, RefreshedIsRight
    <3> QED
      BY <3>2, <3>3
  <2> QED
    BY <2>2, <2>3
<1> QED
  BY <1>3, <1>4, <1>5

-----------------------------------------------------------------------------
(* The table starts out with two empty parts.                              *)
LEMMA InitIsRight ==
  Init => IInv
<1> SUFFICES ASSUME Init PROVE IInv
  OBVIOUS
<1>1. PICK a \in ArrayHints : \E h \in HashHints : array = Blank(a) /\ nodes = Nodes(NodesFor(h))
  BY DEF Init
<1>2. PICK h \in HashHints : array = Blank(a) /\ nodes = Nodes(NodesFor(h))
  BY <1>1
<1>3. a \in Nat /\ NodesFor(h) \in Nat
  BY HintsAssumption, NodesForIsRoom
<1>4. body = [array |-> Blank(a), nodes |-> Nodes(NodesFor(h)), free |-> 0]
  BY <1>2 DEF body, Init
<1>5. BodyOK(body)
  BY <1>3, <1>4, NewBody
<1> QED
  BY <1>5 DEF IInv, Init, CursorHasPlace

(* The body after a step, as a record.                                     *)
LEMMA BodyAfter ==
  ASSUME NEW b, BodyOK(b), array' = b.array, nodes' = b.nodes, free' = b.free
  PROVE  body' = b
<1>1. b \in Bodies
  BY DEF BodyOK
<1> QED
  BY <1>1 DEF body, Bodies

(* Where every key stays, a key keeps its place.                           *)
LEMMA StaysPut ==
  ASSUME NEW b, NEW c, NEW key, NEW value, Stays(b, c, key, value), NEW k \in Keys \cup {Nil}
  PROVE  (HasPlace(c, k) <=> HasPlace(b, k)) /\ Place(c, k) = Place(b, k)
BY DEF Stays, HasPlace, Place, InArray

(* A key that reads is found again at its place.                           *)
LEMMA PlaceOfLive ==
  ASSUME NEW b, BodyOK(b), NEW p \in 1 .. Places(b), ValueAt(b, p) # Nil
  PROVE  HasPlace(b, KeyAt(b, p)) /\ Place(b, KeyAt(b, p)) = p
<1> DEFINE k == KeyAt(b, p)
           size == Len(b.array)
<1>1. /\ k \in Keys /\ (InArray(b, k) <=> p <= size) /\ k # Nil
  BY PlaceType, NilAssumption
<1>2. CASE p <= size
  <2>1. k = p
    BY <1>2, PlacesOf
  <2> QED
    BY <1>1, <1>2, <2>1 DEF HasPlace, Place
<1>3. CASE ~(p <= size)
  <2> DEFINE i == p - size
  <2>1. i \in 1 .. Len(b.nodes) /\ size + i = p /\ b.nodes[i].key = k
    BY <1>3, PlacesOf
  <2>2. NodesOK(b.nodes) /\ Len(b.nodes) \in Nat
    BY DEF BodyOK, Bodies
  <2> HIDE DEF i, k
  <2>3. FindNode(b, k) = i /\ i # 0
    BY <1>1, <2>1, <2>2, FindIsRight
  <2> HIDE DEF size
  <2>4. HasPlace(b, k) /\ Place(b, k) = Len(b.array) + i
    BY <1>1, <1>3, <2>3 DEF HasPlace, Place
  <2> QED
    BY <2>1, <2>4 DEF k, size
<1> QED
  BY <1>2, <1>3

(* A traversal stands before the table or on one of its places.            *)
LEMMA PlaceIsNat ==
  ASSUME NEW b, BodyOK(b), NEW k \in Keys \cup {Nil}, HasPlace(b, k)
  PROVE  Place(b, k) \in Nat
<1>1. /\ NodesOK(b.nodes) /\ Len(b.nodes) \in Nat /\ Len(b.array) \in Nat
  BY DEF BodyOK, Bodies
<1>2. CASE k = Nil
  BY <1>2 DEF Place
<1>3. CASE k # Nil /\ InArray(b, k)
  BY <1>3, IntegersAssumption DEF Place, InArray
<1>4. CASE k # Nil /\ ~InArray(b, k)
  <2>1. k \in Keys /\ FindNode(b, k) \in 0 .. Len(b.nodes)
    BY <1>1, <1>4, FindIsRight
  <2>2. Place(b, k) = Len(b.array) + FindNode(b, k)
    BY <1>4 DEF Place
  <2> QED
    BY <1>1, <2>1, <2>2
<1> QED
  BY <1>2, <1>3, <1>4

(* next answers the first place after the last one that holds something.   *)
LEMMA EntryIsNext ==
  ASSUME NEW b, BodyOK(b), NEW k \in Keys \cup {Nil}, HasPlace(b, k),
         NEW after, after = Place(b, k), LivePlaces(b, after) # {},
         NEW p, p = EntryFrom(b, after)
  PROVE  /\ p \in LivePlaces(b, after) /\ \A q \in LivePlaces(b, after) : p <= q
         /\ p \in 1 .. Places(b) /\ ValueAt(b, p) # Nil /\ p > after
         /\ KeyAt(b, p) \in Keys
         /\ HasPlace(b, KeyAt(b, p)) /\ Place(b, KeyAt(b, p)) = p
<1>1. after \in Nat /\ Places(b) \in Nat
  BY PlaceIsNat, PlacesOf
<1>2. LivePlaces(b, after) \subseteq Nat
  BY <1>1 DEF LivePlaces
<1>3. \E q \in LivePlaces(b, after) : \A r \in LivePlaces(b, after) : q <= r
  BY <1>2, LeastOf
<1>4. p \in LivePlaces(b, after) /\ \A q \in LivePlaces(b, after) : p <= q
  BY <1>3 DEF EntryFrom
<1>5. p \in 1 .. Places(b) /\ p > after /\ ValueAt(b, p) # Nil
  BY <1>1, <1>4 DEF LivePlaces
<1> QED
  BY <1>4, <1>5, PlaceType, PlaceOfLive

(* Every step keeps the invariant.                                         *)
LEMMA StepIsRight ==
  IInv /\ [Next]_vars => IInv'
<1> SUFFICES ASSUME IInv, [Next]_vars PROVE IInv'
  OBVIOUS
<1>0. BodyOK(body) /\ cursor \in Keys \cup {Nil, Idle} /\ CursorHasPlace
  BY DEF IInv
<1>1. CASE UNCHANGED vars
  <2>1. body' = body
    BY <1>1 DEF vars, body
  <2>2. cursor' = cursor
    BY <1>1 DEF vars
  <2> QED
    BY <1>0, <2>1, <2>2 DEF IInv, CursorHasPlace
<1>2. ASSUME NEW key \in Keys, NEW value \in Slots, TableSet(key, value)
      PROVE  IInv'
  <2> DEFINE c == SetIn(body, key, value)
  <2>1. /\ BodyOK(c)
        /\ value = Nil \/ TableGet(body, key) # Nil => Stays(body, c, key, value)
    BY <1>0, SetInIsRight
  <2>2. /\ array' = c.array /\ nodes' = c.nodes /\ free' = c.free
        /\ cursor' = IF value # Nil /\ TableGet(body, key) = Nil THEN Idle ELSE cursor
    BY <1>2 DEF TableSet, Become
  <2> HIDE DEF c
  <2>3. body' = c
    BY <2>1, <2>2, BodyAfter
  <2>4. cursor' # Idle => cursor' = cursor /\ Stays(body, c, key, value)
    BY <2>1, <2>2
  <2>5. cursor' # Idle => HasPlace(c, cursor')
    BY <1>0, <2>4, StaysPut DEF CursorHasPlace
  <2> QED
    BY <1>0, <2>1, <2>2, <2>3, <2>5 DEF IInv, CursorHasPlace
<1>3. CASE Pairs
  <2>1. body' = body /\ cursor' = Nil
    BY <1>3 DEF Pairs, body
  <2> QED
    BY <1>0, <2>1 DEF IInv, CursorHasPlace, HasPlace
<1>4. CASE TableNext
  <2>1. body' = body
    BY <1>4 DEF TableNext, body
  <2> DEFINE after == Place(body, cursor)
             live == LivePlaces(body, after)
  <2>2. CASE live = {}
    <3>1. cursor' = Idle
      BY <1>4, <2>2 DEF TableNext
    <3> QED
      BY <1>0, <2>1, <3>1 DEF IInv, CursorHasPlace
  <2>3. CASE live # {}
    <3> DEFINE p == EntryFrom(body, after)
    <3>1. cursor' = KeyAt(body, p)
      BY <1>4, <2>3 DEF TableNext
    <3>2. HasPlace(body, cursor)
      BY <1>4 DEF TableNext
    <3>3. cursor \in Keys \cup {Nil}
      BY <1>0, <1>4 DEF TableNext
    <3> HIDE DEF p, after
    <3>4. KeyAt(body, p) \in Keys /\ HasPlace(body, KeyAt(body, p))
      BY <1>0, <2>3, <3>2, <3>3, EntryIsNext DEF p, after
    <3> QED
      BY <1>0, <2>1, <3>1, <3>4 DEF IInv, CursorHasPlace
  <2> QED
    BY <2>2, <2>3
<1> QED
  BY <1>1, <1>2, <1>3, <1>4 DEF Next, Slots

-----------------------------------------------------------------------------
(* A loop: from x to next[x] until it is done, with base[x] as its answer. *)
IsLoop(f, D, done, next, base) ==
  f = [x \in D |-> IF x \in done THEN base[x] ELSE f[next[x]]]

LoopOK(D, done, next, rank, top) ==
  /\ top \in Nat /\ rank \in [D -> 0 .. top]
  /\ \A x \in D \ done : next[x] \in D /\ rank[next[x]] < rank[x]

(* A loop in which some rank falls comes to an end.                        *)
LEMMA LoopExists ==
  ASSUME NEW D, NEW done, NEW next, NEW base, NEW rank, NEW top,
         LoopOK(D, done, next, rank, top)
  PROVE  \E f : IsLoop(f, D, done, next, base)
<1> DEFINE Low(r) == {x \in D : rank[x] < r}
           Step(g, x) == IF x \in done THEN base[x] ELSE g[next[x]]
           Part(g, r) == g = [x \in Low(r) |-> Step(g, x)]
           S == {r \in Nat : \E g : Part(g, r)}
<1>1. 0 \in S
  <2>1. Low(0) = {}
    BY DEF LoopOK
  <2> DEFINE g == [x \in {} |-> 0]
  <2>2. Part(g, 0)
    BY <2>1
  <2> HIDE DEF g, Part
  <2>3. \E g1 : Part(g1, 0)
    BY <2>2
  <2> QED
    BY <2>3
<1>2. ASSUME NEW r \in Nat, r \in S
      PROVE  r + 1 \in S
  <2>1. PICK g : Part(g, r)
    BY <1>2
  <2> DEFINE h == [x \in Low(r + 1) |-> Step(g, x)]
  <2>2. ASSUME NEW x \in Low(r + 1) PROVE Step(g, x) = Step(h, x)
    <3> SUFFICES ASSUME x \notin done PROVE g[next[x]] = h[next[x]]
      OBVIOUS
    <3> DEFINE y == next[x]
    <3>1. y \in D /\ rank[y] < rank[x] /\ rank[y] \in Nat /\ rank[x] \in Nat
      BY DEF LoopOK
    <3> HIDE DEF y
    <3>2. y \in Low(r) /\ y \in Low(r + 1)
      BY <3>1
    <3>3. g[y] = Step(g, y)
      BY <2>1, <3>2
    <3>4. h[y] = Step(g, y)
      BY <3>2
    <3> QED
      BY <3>3, <3>4 DEF y
  <2>3. Part(h, r + 1)
    <3> HIDE DEF Step
    <3> QED
      BY <2>2
  <2> HIDE DEF h, Part
  <2>4. \E g1 : Part(g1, r + 1)
    BY <2>3
  <2> QED
    BY <2>4
<1>3. Nat \subseteq S
  <2> HIDE DEF S
  <2> QED
    BY <1>1, <1>2, Induction
<1>4. Low(top + 1) = D
  BY DEF LoopOK
<1>5. top + 1 \in S
  <2> HIDE DEF S
  <2> QED
    BY <1>3 DEF LoopOK
<1>6. PICK f : Part(f, top + 1)
  BY <1>5
<1> QED
  BY <1>4, <1>6 DEF IsLoop

(* From a good start the loop stays with what is good, to its answer.      *)
LEMMA LoopResult ==
  ASSUME NEW D, NEW done, NEW next, NEW base, NEW rank, NEW top,
         LoopOK(D, done, next, rank, top),
         NEW f, IsLoop(f, D, done, next, base),
         NEW good, good \subseteq D, \A x \in good \ done : next[x] \in good,
         NEW start \in good
  PROVE  \E y \in good \cap done : f[start] = base[y]
<1> DEFINE Same == {x \in good : f[x] = f[start]}
           R == {rank[x] : x \in Same}
<1>1. Same \subseteq D /\ rank \in [D -> 0 .. top] /\ top \in Nat
  BY DEF LoopOK
<1>2. R \subseteq Nat /\ R # {}
  BY <1>1
<1>3. PICK r \in R : \A q \in R : r <= q
  <2> HIDE DEF R
  <2> QED
    BY <1>2, LeastOf
<1>4. PICK y \in Same : r = rank[y]
  BY DEF R
<1>5. y \in done
  <2> SUFFICES ASSUME y \notin done PROVE FALSE
    OBVIOUS
  <2>1. f[y] = f[next[y]] /\ next[y] \in good
    BY <1>1 DEF IsLoop
  <2>2. next[y] \in Same
    BY <2>1
  <2>3. rank[next[y]] < rank[y] /\ rank[y] \in Nat /\ rank[next[y]] \in Nat
    BY <1>1, <2>2 DEF LoopOK
  <2>4. rank[next[y]] \in R
    BY <2>2
  <2> HIDE DEF R, Same
  <2> QED
    BY <1>3, <1>4, <2>3, <2>4
<1>6. f[y] = base[y]
  BY <1>1, <1>5 DEF IsLoop
<1> QED
  BY <1>5, <1>6

(* Halving the gap between a filled index, or 0, and an empty one ends at  *)
(* a filled index, or 0, that an empty one follows.                        *)
LEMMA HalvedIsBorder ==
  ASSUME NEW low \in Nat, NEW high \in Nat, low < high,
         NEW filled, low = 0 \/ low \in filled, high \notin filled
  PROVE  /\ Halved(low, high, filled) \in Nat
         /\ Halved(low, high, filled) = 0 \/ Halved(low, high, filled) \in filled
         /\ Halved(low, high, filled) + 1 \notin filled
<1> DEFINE D == (0 .. high) \X (0 .. high)
           done == {r \in D : r[2] - r[1] <= 1}
           Middle(r) == r[1] + (r[2] - r[1]) \div 2
           next == [r \in D |-> IF Middle(r) \in filled THEN <<Middle(r), r[2]>>
                                ELSE <<r[1], Middle(r)>>]
           base == [r \in D |-> r[1]]
           rank == [r \in D |-> IF r[1] < r[2] THEN r[2] - r[1] ELSE 0]
           good == {r \in D : /\ r[1] < r[2] /\ r[2] \notin filled
                              /\ r[1] = 0 \/ r[1] \in filled}
           Is(f) == f = [r \in D |-> IF r[2] - r[1] <= 1 THEN r[1]
                          ELSE IF Middle(r) \in filled THEN f[<<Middle(r), r[2]>>]
                               ELSE f[<<r[1], Middle(r)>>]]
           f == CHOOSE g : Is(g)
           start == <<low, high>>
<1>1. Halved(low, high, filled) = f[start]
  BY DEF Halved
<1>2. ASSUME NEW r \in D, r \notin done
      PROVE  /\ r[1] \in Nat /\ r[2] \in Nat /\ Middle(r) \in Nat
             /\ r[1] < Middle(r) /\ Middle(r) < r[2]
             /\ next[r] = IF Middle(r) \in filled THEN <<Middle(r), r[2]>>
                          ELSE <<r[1], Middle(r)>>
             /\ next[r] \in D /\ rank[next[r]] < rank[r]
             /\ r \in good => next[r] \in good
  <2>1. r[1] \in 0 .. high /\ r[2] \in 0 .. high /\ r[2] - r[1] > 1
    BY <1>2
  <2>2. Middle(r) \in Nat /\ r[1] < Middle(r) /\ Middle(r) < r[2]
    BY <2>1
  <2>3. next[r] = IF Middle(r) \in filled THEN <<Middle(r), r[2]>> ELSE <<r[1], Middle(r)>>
    OBVIOUS
  <2> HIDE DEF Middle, next
  <2>4. <<Middle(r), r[2]>> \in D /\ <<r[1], Middle(r)>> \in D
    BY <2>1, <2>2
  <2>5. /\ rank[r] = r[2] - r[1]
        /\ rank[<<Middle(r), r[2]>>] = r[2] - Middle(r)
        /\ rank[<<r[1], Middle(r)>>] = Middle(r) - r[1]
    BY <2>1, <2>2, <2>4
  <2>6. next[r] \in D /\ rank[next[r]] < rank[r]
    BY <2>1, <2>2, <2>3, <2>4, <2>5
  <2>7. r \in good => next[r] \in good
    BY <2>2, <2>3, <2>4
  <2> QED
    BY <2>1, <2>2, <2>3, <2>6, <2>7
<1>3. LoopOK(D, done, next, rank, high)
  <2>1. rank \in [D -> 0 .. high]
    OBVIOUS
  <2> HIDE DEF D, done, next, rank
  <2> QED
    BY <1>2, <2>1 DEF LoopOK
<1>4. ASSUME NEW g
      PROVE  Is(g) <=> IsLoop(g, D, done, next, base)
  <2> DEFINE Left(r) == IF r[2] - r[1] <= 1 THEN r[1]
                        ELSE IF Middle(r) \in filled THEN g[<<Middle(r), r[2]>>]
                             ELSE g[<<r[1], Middle(r)>>]
             Right(r) == IF r \in done THEN base[r] ELSE g[next[r]]
  <2>1. ASSUME NEW r \in D PROVE Left(r) = Right(r)
    <3>1. r \in done <=> r[2] - r[1] <= 1
      OBVIOUS
    <3>2. base[r] = r[1]
      OBVIOUS
    <3>3. next[r] = IF Middle(r) \in filled THEN <<Middle(r), r[2]>> ELSE <<r[1], Middle(r)>>
      OBVIOUS
    <3> HIDE DEF D, done, next, base, Middle
    <3> QED
      BY <3>1, <3>2, <3>3
  <2>2. [r \in D |-> Left(r)] = [r \in D |-> Right(r)]
    <3> HIDE DEF Left, Right, D
    <3> QED
      BY <2>1
  <2> QED
    BY <2>2 DEF IsLoop
<1>5. \E g : IsLoop(g, D, done, next, base)
  <2> HIDE DEF D, done, next, base, rank
  <2> QED
    BY <1>3, LoopExists
<1>6. IsLoop(f, D, done, next, base)
  <2>1. PICK g : Is(g)
    <3> HIDE DEF Is, D, done, next, base
    <3> QED
      BY <1>4, <1>5
  <2>2. Is(f)
    <3> HIDE DEF Is
    <3> QED
      BY <2>1
  <2> HIDE DEF Is, f, D, done, next, base
  <2> QED
    BY <1>4, <2>2
<1>7. start \in good
  OBVIOUS
<1>8. PICK y \in good \cap done : f[start] = base[y]
  <2>1. good \subseteq D /\ \A x \in good \ done : next[x] \in good
    <3>1. good \subseteq D
      OBVIOUS
    <3> HIDE DEF good, D, done, next, Middle, rank
    <3> QED
      BY <1>2, <3>1
  <2> HIDE DEF good, D, done, next, base, rank, f, start, Is
  <2> QED
    BY <1>3, <1>6, <1>7, <2>1, LoopResult
<1>9. /\ y[1] \in Nat /\ y[2] \in Nat /\ y[1] < y[2] /\ y[2] - y[1] <= 1
      /\ y[2] \notin filled /\ (y[1] = 0 \/ y[1] \in filled) /\ base[y] = y[1]
  BY <1>8
<1>10. y[2] = y[1] + 1
  BY <1>9
<1> HIDE DEF good, D, done, next, base, rank, f, start, Is
<1> QED
  BY <1>1, <1>8, <1>9, <1>10

(* One by one, or by doubling: the two loops of table_length beyond the    *)
(* array part, and the answer each comes to.                               *)
IsOne(f, filled) ==
  f = [n \in 0 .. Highest |-> IF n + 1 \in filled THEN f[n + 1] ELSE n]
IsTwice(f, filled, one) ==
  f = [n \in 0 .. Highest |->
         IF 2 * n > Highest THEN one[n]
         ELSE IF 2 * n \in filled THEN f[2 * n] ELSE Halved(n, 2 * n, filled)]

IsBorder(n, filled) ==
  n \in Nat /\ (n = 0 \/ n \in filled) /\ n + 1 \notin filled

(* Counting one by one from a filled index comes to a border.              *)
LEMMA OneIsBorder ==
  ASSUME NEW filled, filled \subseteq 1 .. Highest
  PROVE  LET one == CHOOSE f : IsOne(f, filled)
         IN  \A n \in filled : IsBorder(one[n], filled)
<1> DEFINE D == 0 .. Highest
           done == {n \in D : n + 1 \notin filled}
           next == [n \in D |-> n + 1]
           base == [n \in D |-> n]
           rank == [n \in D |-> Highest - n]
           one == CHOOSE f : IsOne(f, filled)
<1>0. Highest \in Nat
  BY IntegersAssumption
<1>1. LoopOK(D, done, next, rank, Highest)
  BY <1>0 DEF LoopOK
<1>2. ASSUME NEW f
      PROVE  IsOne(f, filled) <=> IsLoop(f, D, done, next, base)
  <2> DEFINE Right(n) == IF n \in done THEN base[n] ELSE f[next[n]]
             Left(n) == IF n + 1 \in filled THEN f[n + 1] ELSE n
  <2>1. \A n \in D : Left(n) = Right(n)
    OBVIOUS
  <2>2. [n \in D |-> Left(n)] = [n \in D |-> Right(n)]
    <3> HIDE DEF Left, Right, D
    <3> QED
      BY <2>1
  <2> QED
    BY <2>2 DEF IsOne, IsLoop
<1>3. IsLoop(one, D, done, next, base)
  <2>1. \E f : IsLoop(f, D, done, next, base)
    <3> HIDE DEF D, done, next, base, rank
    <3> QED
      BY <1>1, LoopExists
  <2>2. \E f : IsOne(f, filled)
    <3> HIDE DEF D, done, next, base
    <3> QED
      BY <1>2, <2>1
  <2>3. IsOne(one, filled)
    BY <2>2
  <2> HIDE DEF one, D, done, next, base
  <2> QED
    BY <1>2, <2>3
<1>4. SUFFICES ASSUME NEW n \in filled PROVE IsBorder(one[n], filled)
  BY DEF one
<1>5. PICK y \in filled \cap done : one[n] = base[y]
  <2>1. filled \subseteq D /\ \A x \in filled \ done : next[x] \in filled
    BY <1>0
  <2> DEFINE start == n
             good == filled
  <2>2. start \in good /\ good \subseteq D /\ \A x \in good \ done : next[x] \in good
    BY <2>1
  <2>3. start = n /\ good = filled
    OBVIOUS
  <2> HIDE DEF one, D, done, next, base, rank, start, good
  <2>4. \E y \in good \cap done : one[start] = base[y]
    BY <1>1, <1>3, <2>2, LoopResult
  <2> QED
    BY <2>3, <2>4
<1>6. one[n] = y /\ y \in Nat /\ y + 1 \notin filled
  BY <1>0, <1>5
<1> HIDE DEF one
<1> QED
  BY <1>6, <1>5 DEF IsBorder

(* Doubling from a filled index, and what follows it, comes to a border.   *)
LEMMA TwiceIsBorder ==
  ASSUME NEW filled, filled \subseteq 1 .. Highest
  PROVE  LET one == CHOOSE f : IsOne(f, filled)
             twice == CHOOSE f : IsTwice(f, filled, one)
         IN  \A n \in filled : IsBorder(twice[n], filled)
<1> DEFINE one == CHOOSE f : IsOne(f, filled)
           twice == CHOOSE f : IsTwice(f, filled, one)
           D == 0 .. Highest
           done == {n \in D : 2 * n > Highest \/ 2 * n \notin filled}
           next == [n \in D |-> 2 * n]
           base == [n \in D |-> IF 2 * n > Highest THEN one[n] ELSE Halved(n, 2 * n, filled)]
           rank == [n \in D |-> Highest - n]
<1>0. Highest \in Nat
  BY IntegersAssumption
<1>1. LoopOK(D, done, next, rank, Highest)
  <2>1. rank \in [D -> 0 .. Highest]
    BY <1>0
  <2>2. ASSUME NEW n \in D \ done PROVE next[n] \in D /\ rank[next[n]] < rank[n]
    <3>1. n \in Nat /\ n <= Highest /\ 2 * n \in filled /\ n # 0
      BY <1>0
    <3>2. 2 * n \in D /\ next[n] = 2 * n /\ n < 2 * n
      BY <3>1, <1>0
    <3>3. rank[2 * n] = Highest - 2 * n /\ rank[n] = Highest - n
      BY <3>2
    <3> QED
      BY <3>1, <3>2, <3>3, <1>0
  <2> HIDE DEF D, done, next, rank
  <2> QED
    BY <1>0, <2>1, <2>2 DEF LoopOK
<1>2. ASSUME NEW f
      PROVE  IsTwice(f, filled, one) <=> IsLoop(f, D, done, next, base)
  <2> HIDE DEF one
  <2> DEFINE Right(n) == IF n \in done THEN base[n] ELSE f[next[n]]
             Left(n) == IF 2 * n > Highest THEN one[n]
                        ELSE IF 2 * n \in filled THEN f[2 * n] ELSE Halved(n, 2 * n, filled)
  <2>1. \A n \in D : Left(n) = Right(n)
    BY <1>0
  <2>2. [n \in D |-> Left(n)] = [n \in D |-> Right(n)]
    <3> HIDE DEF Left, Right, D
    <3> QED
      BY <2>1
  <2> QED
    BY <2>2 DEF IsTwice, IsLoop
<1>3. IsLoop(twice, D, done, next, base)
  <2> HIDE DEF one
  <2>1. \E f : IsLoop(f, D, done, next, base)
    <3> HIDE DEF D, done, next, base, rank
    <3> QED
      BY <1>1, LoopExists
  <2>2. \E f : IsTwice(f, filled, one)
    <3> HIDE DEF D, done, next, base
    <3> QED
      BY <1>2, <2>1
  <2>3. IsTwice(twice, filled, one)
    BY <2>2
  <2> HIDE DEF twice, D, done, next, base
  <2> QED
    BY <1>2, <2>3
<1>4. \A n \in filled : IsBorder(one[n], filled)
  BY OneIsBorder
<1>5. SUFFICES ASSUME NEW n \in filled PROVE IsBorder(twice[n], filled)
  BY DEF one, twice
<1> HIDE DEF one
<1>6. PICK y \in filled \cap done : twice[n] = base[y]
  <2>1. filled \subseteq D /\ \A x \in filled \ done : next[x] \in filled
    BY <1>0
  <2> DEFINE start == n
             good == filled
  <2>2. start \in good /\ good \subseteq D /\ \A x \in good \ done : next[x] \in good
    BY <2>1
  <2>3. start = n /\ good = filled
    OBVIOUS
  <2> HIDE DEF twice, D, done, next, base, rank, start, good
  <2>4. \E y \in good \cap done : twice[start] = base[y]
    BY <1>1, <1>3, <2>2, LoopResult
  <2> QED
    BY <2>3, <2>4
<1>7. /\ y \in Nat /\ y # 0 /\ y <= Highest
      /\ twice[n] = IF 2 * y > Highest THEN one[y] ELSE Halved(y, 2 * y, filled)
      /\ 2 * y > Highest \/ 2 * y \notin filled
  BY <1>0, <1>6
<1> HIDE DEF twice
<1>8. CASE 2 * y > Highest
  BY <1>4, <1>6, <1>7, <1>8
<1>9. CASE ~(2 * y > Highest)
  <2>1. 2 * y \in Nat /\ y < 2 * y /\ 2 * y \notin filled
    BY <1>7, <1>9
  <2>2. IsBorder(Halved(y, 2 * y, filled), filled)
    BY <1>6, <1>7, <2>1, HalvedIsBorder DEF IsBorder
  <2> QED
    BY <1>7, <1>9, <2>2
<1> QED
  BY <1>8, <1>9

(* The length is a border: the array part's, or one beyond it.             *)
LEMMA BorderIsRight ==
  ASSUME NEW b, BodyOK(b), NEW n, n = TableLength(b)
  PROVE  (n = 0 \/ HasInteger(b, n)) /\ ~HasInteger(b, n + 1)
<1> DEFINE size == Len(b.array)
<1>1. /\ size \in Nat /\ b.array \in Seq(Slots)
      /\ \A i \in 1 .. size : b.array[i] # Nil => i \in Integers
  BY DEF BodyOK, Bodies
<1>2. \A i \in 1 .. size : HasInteger(b, i) <=> b.array[i] # Nil
  BY <1>1 DEF HasInteger, TableGet, InArray
<1>3. b.array # <<>> <=> size # 0
  BY <1>1
<1>4. CASE b.array # <<>> /\ b.array[size] = Nil
  <2> DEFINE filled == {i \in 1 .. size : b.array[i] # Nil}
  <2>1. n = Halved(0, size, filled)
    BY <1>4 DEF TableLength, ArrayBorder
  <2>2. 0 < size /\ size \notin filled
    BY <1>1, <1>3, <1>4
  <2>3. filled \subseteq 1 .. size
    OBVIOUS
  <2> HIDE DEF size
  <2>4. \A i \in 1 .. size : i \in filled <=> HasInteger(b, i)
    BY <1>2 DEF size
  <2> HIDE DEF filled
  <2>5. n \in Nat /\ (n = 0 \/ n \in filled) /\ n + 1 \notin filled
    BY <1>1, <2>1, <2>2, HalvedIsBorder
  <2>6. n + 1 \in 1 .. size
    BY <1>1, <2>2, <2>3, <2>5
  <2> QED
    BY <2>3, <2>4, <2>5, <2>6
<1>5. CASE ~(b.array # <<>> /\ b.array[size] = Nil)
  <2> DEFINE filled == {i \in Integers : HasInteger(b, i)}
             one == CHOOSE f : IsOne(f, filled)
             twice == CHOOSE f : IsTwice(f, filled, one)
  <2>1. n = IF size + 1 \in filled THEN twice[size + 1] ELSE size
    BY <1>5 DEF TableLength, Beyond, IsOne, IsTwice
  <2>2. filled \subseteq 1 .. Highest
    BY IntegersAssumption
  <2>3. \A i : HasInteger(b, i) <=> i \in filled
    BY DEF HasInteger
  <2>4. size = 0 \/ HasInteger(b, size)
    BY <1>1, <1>2, <1>3, <1>5
  <2> HIDE DEF filled
  <2>5. \A i \in filled : IsBorder(twice[i], filled)
    BY <2>2, TwiceIsBorder
  <2> HIDE DEF one, twice, size
  <2> QED
    BY <2>1, <2>3, <2>4, <2>5 DEF IsBorder
<1> QED
  BY <1>4, <1>5

-----------------------------------------------------------------------------
(* A key with a place stands there, with what reads of it answer.          *)
LEMMA KeyOfPlace ==
  ASSUME NEW b, BodyOK(b), NEW k \in Keys, HasPlace(b, k)
  PROVE  /\ Place(b, k) \in 1 .. Places(b) /\ KeyAt(b, Place(b, k)) = k
         /\ ValueAt(b, Place(b, k)) = TableGet(b, k)
<1>1. /\ NodesOK(b.nodes) /\ Len(b.nodes) \in Nat /\ Len(b.array) \in Nat /\ k # Nil
  BY NilAssumption DEF BodyOK, Bodies
<1>2. CASE InArray(b, k)
  <2>1. Place(b, k) = k /\ TableGet(b, k) = b.array[k]
    BY <1>1, <1>2 DEF Place, TableGet
  <2>2. k \in 1 .. Len(b.array)
    BY <1>1, <1>2, IntegersAssumption DEF InArray
  <2>3. k \in 1 .. Places(b) /\ KeyAt(b, k) = k /\ ValueAt(b, k) = b.array[k]
    BY <2>2, PlacesOf DEF KeyAt, ValueAt
  <2> QED
    BY <2>1, <2>3
<1>3. CASE ~InArray(b, k)
  <2> DEFINE i == FindNode(b, k)
  <2>1. i # 0 /\ Place(b, k) = Len(b.array) + i /\ TableGet(b, k) = b.nodes[i].value
    BY <1>1, <1>3 DEF HasPlace, Place, TableGet
  <2>2. i \in 1 .. Len(b.nodes) /\ b.nodes[i].key = k
    BY <1>1, <2>1, FindIsRight
  <2> HIDE DEF i
  <2> QED
    BY <2>1, <2>2, PlacesOf
<1> QED
  BY <1>2, <1>3

(* What the abstract map sees of a table and of a traversal.               *)
LiveOf(b) == {k \in Keys : TableGet(b, k) # Nil}
EntriesOf(b) == [k \in LiveOf(b) |-> TableGet(b, k)]
AheadOf(b, at) ==
  IF at = Idle THEN {} ELSE {KeyAt(b, p) : p \in LivePlaces(b, Place(b, at))}

(* A traversal still answers what it would have, but not a key erased.     *)
LEMMA AheadAfterSet ==
  ASSUME NEW b, BodyOK(b), NEW c, NEW key \in Keys, NEW value,
         Stays(b, c, key, value), value = Nil \/ TableGet(b, key) # Nil,
         NEW at \in Keys \cup {Nil, Idle}, at # Idle => HasPlace(b, at)
  PROVE  AheadOf(c, at) = IF value = Nil THEN AheadOf(b, at) \ {key} ELSE AheadOf(b, at)
<1>1. CASE at = Idle
  BY <1>1 DEF AheadOf
<1>2. CASE at # Idle
  <2> DEFINE after == Place(b, at)
  <2>1. Place(c, at) = after /\ after \in Nat
    BY <1>2, StaysPut, PlaceIsNat
  <2>2. Places(c) = Places(b) /\ Places(b) \in Nat
    BY PlacesOf DEF Stays, Places
  <2>3. ASSUME NEW p \in 1 .. Places(b)
        PROVE  /\ KeyAt(c, p) = KeyAt(b, p)
               /\ ValueAt(c, p) # Nil <=> ValueAt(b, p) # Nil /\ (value = Nil => KeyAt(b, p) # key)
    <3>1. /\ KeyAt(c, p) = KeyAt(b, p)
          /\ ValueAt(c, p) = IF HasPlace(b, key) /\ p = Place(b, key) THEN value ELSE ValueAt(b, p)
      BY DEF Stays
    <3>2. CASE HasPlace(b, key) /\ p = Place(b, key)
      BY <3>1, <3>2, KeyOfPlace
    <3>3. CASE ~(HasPlace(b, key) /\ p = Place(b, key))
      <4>1. ValueAt(b, p) # Nil => KeyAt(b, p) # key
        BY <3>3, PlaceOfLive
      <4> QED
        BY <3>1, <3>3, <4>1
    <3> QED
      BY <3>1, <3>2, <3>3
  <2>4. \A p : p \in LivePlaces(c, after) <=>
               p \in LivePlaces(b, after) /\ (value = Nil => KeyAt(b, p) # key)
    <3>1. \A p \in after + 1 .. Places(b) : p \in 1 .. Places(b)
      BY <2>1, <2>2
    <3> HIDE DEF after
    <3> QED
      BY <2>2, <2>3, <3>1 DEF LivePlaces
  <2>5. \A p \in LivePlaces(b, after) : KeyAt(c, p) = KeyAt(b, p)
    <3>1. \A p \in after + 1 .. Places(b) : p \in 1 .. Places(b)
      BY <2>1, <2>2
    <3> HIDE DEF after
    <3> QED
      BY <2>3, <3>1 DEF LivePlaces
  <2>6. /\ AheadOf(b, at) = {KeyAt(b, p) : p \in LivePlaces(b, after)}
        /\ AheadOf(c, at) = {KeyAt(c, p) : p \in LivePlaces(c, after)}
    BY <1>2, <2>1 DEF AheadOf
  <2> HIDE DEF after
  <2> QED
    BY <2>4, <2>5, <2>6
<1> QED
  BY <1>1, <1>2

(* A traversal that starts has every key ahead that reads.                 *)
LEMMA AheadAtFirst ==
  ASSUME NEW b, BodyOK(b)
  PROVE  AheadOf(b, Nil) = LiveOf(b)
<1>1. Place(b, Nil) = 0 /\ Nil # Idle
  BY NilAssumption DEF Place
<1>2. LivePlaces(b, 0) = {p \in 1 .. Places(b) : ValueAt(b, p) # Nil}
  BY DEF LivePlaces
<1>3. AheadOf(b, Nil) = {KeyAt(b, p) : p \in {q \in 1 .. Places(b) : ValueAt(b, q) # Nil}}
  BY <1>1, <1>2 DEF AheadOf
<1>4. \A p \in 1 .. Places(b) : ValueAt(b, p) # Nil =>
        KeyAt(b, p) \in Keys /\ TableGet(b, KeyAt(b, p)) # Nil
  BY PlaceType
<1>5. \A k \in Keys : TableGet(b, k) # Nil =>
        \E p \in 1 .. Places(b) : ValueAt(b, p) # Nil /\ KeyAt(b, p) = k
  BY PlacesOnce
<1> QED
  BY <1>3, <1>4, <1>5 DEF LiveOf

(* A traversal that goes on leaves behind the key it answers, and no other. *)
LEMMA AheadAfterNext ==
  ASSUME NEW b, BodyOK(b), NEW at \in Keys \cup {Nil}, HasPlace(b, at),
         LivePlaces(b, Place(b, at)) # {},
         NEW k, k = KeyAt(b, EntryFrom(b, Place(b, at)))
  PROVE  k \in Keys /\ k \in AheadOf(b, at) /\ AheadOf(b, k) = AheadOf(b, at) \ {k}
<1> DEFINE after == Place(b, at)
           p == EntryFrom(b, after)
<1>1. /\ p \in LivePlaces(b, after) /\ \A q \in LivePlaces(b, after) : p <= q
      /\ p \in 1 .. Places(b) /\ ValueAt(b, p) # Nil /\ p > after
      /\ k \in Keys /\ Place(b, k) = p
  BY EntryIsNext
<1>2. after \in Nat /\ Places(b) \in Nat /\ at # Idle /\ k # Idle
  BY <1>1, PlaceIsNat, PlacesOf, NilAssumption
<1> HIDE DEF after, p
<1>3. LivePlaces(b, p) = LivePlaces(b, after) \ {p}
  <2>1. \A q \in LivePlaces(b, after) : q \in Nat /\ (q # p => q > p)
    BY <1>1, <1>2 DEF LivePlaces
  <2> QED
    BY <1>1, <1>2, <2>1 DEF LivePlaces
<1>4. \A q \in LivePlaces(b, after) : q # p => KeyAt(b, q) # KeyAt(b, p)
  <2>1. \A q \in LivePlaces(b, after) : q \in 1 .. Places(b) /\ ValueAt(b, q) # Nil
    BY <1>2 DEF LivePlaces
  <2> QED
    BY <1>1, <2>1, PlacesOnce
<1>5. /\ AheadOf(b, at) = {KeyAt(b, q) : q \in LivePlaces(b, after)}
      /\ AheadOf(b, k) = {KeyAt(b, q) : q \in LivePlaces(b, p)}
      /\ k = KeyAt(b, p)
  BY <1>1, <1>2 DEF AheadOf, after, p
<1> QED
  BY <1>1, <1>3, <1>4, <1>5

-----------------------------------------------------------------------------
(* Whatever is stored, erased or traversed: chains stay sound, each key is *)
(* once in the table, and the walk for unused nodes has passed only used   *)
(* ones.                                                                   *)
THEOREM IInvTheorem == Spec => []IInv
  BY InitIsRight, StepIsRight, PTL DEF Spec

(* The parts stay sequences of slots and of nodes, links stay inside them, *)
(* the walk for unused nodes never passes the first one, and a traversal   *)
(* stands on a key.                                                        *)
THEOREM TypeOKTheorem == Spec => []TypeOK
<1>1. ASSUME IInv
      PROVE  TypeOK
  <2>1. /\ body.array = array /\ body.nodes = nodes /\ body.free = free
        /\ BodyOK(body) /\ cursor \in Keys \cup {Nil, Idle}
    BY <1>1 DEF IInv, body
  <2>2. /\ array \in Seq(Slots) /\ nodes \in Seq(NodeRecords) /\ free \in Nat
        /\ free <= Len(nodes) /\ Len(nodes) \in Nat /\ Joins(nodes)
    BY <2>1 DEF BodyOK, Bodies, NodesOK, Walked
  <2> DEFINE Linked == [key : Keys \cup {Nil}, value : Slots, next : 0 .. Len(nodes)]
  <2>3. \A i \in 1 .. Len(nodes) : nodes[i] \in Linked
    <3>1. \A i \in 1 .. Len(nodes) : nodes[i] \in NodeRecords /\ nodes[i].next \in 0 .. Len(nodes)
      <4>1. \A i \in 1 .. Len(nodes) : nodes[i] \in NodeRecords
        BY <2>2
      <4>2. \A i \in 1 .. Len(nodes) : nodes[i].next # 0 => nodes[i].next \in 1 .. Len(nodes)
        BY <2>2 DEF Joins
      <4> HIDE DEF Linked
      <4> QED
        BY <2>2, <4>1, <4>2
    <3> HIDE DEF Slots
    <3> QED
      BY <3>1 DEF NodeRecords
  <2>4. nodes \in Seq(Linked)
    <3> HIDE DEF Linked
    <3> QED
      BY <2>2, <2>3
  <2> QED
    BY <2>1, <2>2, <2>4 DEF TypeOK, Slots
<1> QED
  BY <1>1, IInvTheorem, PTL

(* A search finds the one node that holds a key, whatever collided with it *)
(* and whatever was displaced or erased since, and never a key that the    *)
(* array part answers for.                                                 *)
THEOREM EveryKeyIsFoundTheorem == Spec => []EveryKeyIsFound
<1>1. ASSUME IInv
      PROVE  EveryKeyIsFound
  <2>1. body.nodes = nodes /\ BodyOK(body)
    BY <1>1 DEF IInv, body
  <2>2. NodesOK(body.nodes) /\ nodes \in Seq(NodeRecords)
    BY <2>1 DEF BodyOK, NodesOK
  <2>3. \A i \in 1 .. Len(nodes) : nodes[i].key \in Keys \cup {Nil}
    <3>1. \A i \in 1 .. Len(nodes) : nodes[i] \in NodeRecords
      BY <2>2
    <3> QED
      BY <3>1 DEF NodeRecords
  <2> QED
    BY <2>1, <2>2, <2>3, FindIsRight DEF EveryKeyIsFound, BodyOK
<1> QED
  BY <1>1, IInvTheorem, PTL

(* A traversal that only assigns to and erases keys that are there never   *)
(* meets `invalid key to 'next'`.                                          *)
THEOREM CursorHasPlaceTheorem == Spec => []CursorHasPlace
<1>1. IInv => CursorHasPlace
  BY DEF IInv
<1> QED
  BY <1>1, IInvTheorem, PTL

(* The length is a border of the sequence, whatever holes it has and       *)
(* however its keys are split between the two parts.                       *)
THEOREM LengthIsABorderTheorem == Spec => []LengthIsABorder
<1>1. IInv => LengthIsABorder
  BY BorderIsRight DEF IInv, LengthIsABorder
<1> QED
  BY <1>1, IInvTheorem, PTL

-----------------------------------------------------------------------------
(* What a step of the table is to the map.                                 *)
LEMMA TableSetMaps ==
  ASSUME IInv, NEW key \in Keys, NEW value \in Slots, TableSet(key, value)
  PROVE  Map!MapNext
<1> DEFINE b == body
           c == SetIn(body, key, value)
<1>1. BodyOK(b) /\ cursor \in Keys \cup {Nil, Idle} /\ (cursor # Idle => HasPlace(b, cursor))
  BY DEF IInv, CursorHasPlace
<1>2. /\ BodyOK(c) /\ TableGet(c, key) = value
      /\ \A k \in Keys \ {key} : TableGet(c, k) = TableGet(b, k)
      /\ value = Nil \/ TableGet(b, key) # Nil => Stays(b, c, key, value)
  BY <1>1, SetInIsRight
<1>3. cursor' = IF value # Nil /\ TableGet(b, key) = Nil THEN Idle ELSE cursor
  BY DEF TableSet
<1>4. body' = c
  BY <1>2, BodyAfter DEF TableSet, Become
<1>5. /\ [k \in LiveKeys |-> TableGet(body, k)] = EntriesOf(b)
      /\ [k \in LiveKeys |-> TableGet(body, k)]' = EntriesOf(c)
      /\ Ahead = AheadOf(b, cursor) /\ Ahead' = AheadOf(c, cursor')
  BY <1>4 DEF LiveKeys, EntriesOf, LiveOf, Ahead, AheadOf
<1>6. Nil \notin Values /\ Idle \notin Keys
  BY NilAssumption
<1> HIDE DEF b, c
<1>7. CASE value # Nil /\ TableGet(b, key) = Nil
  <2>1. key \notin LiveOf(b) /\ LiveOf(c) = LiveOf(b) \cup {key}
    BY <1>2, <1>7 DEF LiveOf
  <2>2. EntriesOf(c) = [k \in LiveOf(b) \cup {key} |-> IF k = key THEN value ELSE EntriesOf(b)[k]]
    <3>1. \A k \in LiveOf(b) \cup {key} :
            TableGet(c, k) = IF k = key THEN value ELSE EntriesOf(b)[k]
      BY <1>2 DEF LiveOf, EntriesOf
    <3> QED
      BY <2>1, <3>1 DEF EntriesOf
  <2>3. DOMAIN EntriesOf(b) = LiveOf(b)
    BY DEF EntriesOf
  <2>4. (cursor # Idle)' = FALSE /\ AheadOf(c, cursor') = {}
    BY <1>3, <1>7 DEF AheadOf
  <2>5. Map!Add(key, value)
    BY <1>5, <2>1, <2>2, <2>3, <2>4 DEF Map!Add
  <2>6. value \in Values
    BY <1>7 DEF Slots
  <2> QED
    BY <2>5, <2>6 DEF Map!MapNext
<1>8. CASE value # Nil /\ TableGet(b, key) # Nil
  <2>1. key \in LiveOf(b) /\ LiveOf(c) = LiveOf(b)
    BY <1>2, <1>8 DEF LiveOf
  <2>2. EntriesOf(c) = [EntriesOf(b) EXCEPT ![key] = value]
    BY <1>2, <2>1 DEF EntriesOf, LiveOf
  <2>3. DOMAIN EntriesOf(b) = LiveOf(b)
    BY DEF EntriesOf
  <2>4. cursor' = cursor /\ AheadOf(c, cursor) = AheadOf(b, cursor)
    BY <1>1, <1>2, <1>3, <1>8, AheadAfterSet
  <2>5. Map!Assign(key, value)
    BY <1>5, <2>1, <2>2, <2>3, <2>4 DEF Map!Assign
  <2>6. value \in Values
    BY <1>8 DEF Slots
  <2> QED
    BY <2>5, <2>6 DEF Map!MapNext
<1>9. CASE value = Nil
  <2>1. LiveOf(c) = LiveOf(b) \ {key}
    BY <1>2, <1>9 DEF LiveOf
  <2>2. EntriesOf(c) = [k \in LiveOf(b) \ {key} |-> EntriesOf(b)[k]]
    BY <1>2, <2>1 DEF EntriesOf, LiveOf
  <2>3. DOMAIN EntriesOf(b) = LiveOf(b)
    BY DEF EntriesOf
  <2>4. cursor' = cursor /\ AheadOf(c, cursor) = AheadOf(b, cursor) \ {key}
    BY <1>1, <1>2, <1>3, <1>9, AheadAfterSet
  <2>5. Map!Erase(key)
    BY <1>5, <2>2, <2>3, <2>4 DEF Map!Erase
  <2> QED
    BY <2>5 DEF Map!MapNext
<1> QED
  BY <1>7, <1>8, <1>9

(* A traversal's steps are the map's: begin, answer a key, come to an end. *)
LEMMA TraversalMaps ==
  ASSUME IInv, Pairs \/ TableNext
  PROVE  Map!MapNext
<1> DEFINE b == body
<1>1. BodyOK(b) /\ cursor \in Keys \cup {Nil, Idle} /\ (cursor # Idle => HasPlace(b, cursor))
  BY DEF IInv, CursorHasPlace
<1>2. body' = body
  BY DEF Pairs, TableNext, body
<1>3. /\ [k \in LiveKeys |-> TableGet(body, k)] = EntriesOf(b)
      /\ [k \in LiveKeys |-> TableGet(body, k)]' = EntriesOf(b)
      /\ Ahead = AheadOf(b, cursor) /\ Ahead' = AheadOf(b, cursor')
  BY <1>2 DEF LiveKeys, EntriesOf, LiveOf, Ahead, AheadOf
<1>4. DOMAIN EntriesOf(b) = LiveOf(b)
  BY DEF EntriesOf
<1>5. Idle \notin Keys \cup {Nil}
  BY NilAssumption
<1>6. CASE Pairs
  <2>1. cursor = Idle /\ cursor' = Nil
    BY <1>6 DEF Pairs
  <2> HIDE DEF b
  <2>2. AheadOf(b, cursor') = LiveOf(b)
    BY <1>1, <2>1, AheadAtFirst
  <2>3. Map!Begin
    BY <1>3, <1>4, <1>5, <2>1, <2>2 DEF Map!Begin
  <2> QED
    BY <2>3 DEF Map!MapNext
<1>7. CASE TableNext
  <2> DEFINE live == LivePlaces(b, Place(b, cursor))
             k == KeyAt(b, EntryFrom(b, Place(b, cursor)))
  <2>1. cursor # Idle /\ cursor' = IF live = {} THEN Idle ELSE k
    BY <1>7 DEF TableNext
  <2> HIDE DEF b
  <2>2. CASE live = {}
    <3>1. AheadOf(b, cursor) = {} /\ AheadOf(b, Idle) = {}
      BY <2>1, <2>2 DEF AheadOf
    <3>2. Map!Finish
      BY <1>3, <2>1, <2>2, <3>1 DEF Map!Finish
    <3> QED
      BY <3>2 DEF Map!MapNext
  <2>3. CASE live # {}
    <3>1. k \in Keys /\ k \in AheadOf(b, cursor) /\ AheadOf(b, k) = AheadOf(b, cursor) \ {k}
      BY <1>1, <2>1, <2>3, AheadAfterNext
    <3>2. cursor' = k /\ k # Idle
      BY <1>5, <2>1, <2>3, <3>1
    <3> HIDE DEF k
    <3>3. Map!Visit(k)
      BY <1>3, <2>1, <3>1, <3>2 DEF Map!Visit
    <3> QED
      BY <3>1, <3>3 DEF Map!MapNext
  <2> QED
    BY <2>2, <2>3
<1> QED
  BY <1>6, <1>7

(* A table is a map: a read answers what was last written, through          *)
(* collisions, displaced nodes and refreshes, and a traversal answers every *)
(* key it started with once, unless it was erased before its turn.          *)
THEOREM ImplementsTableMapTheorem == Spec => ImplementsTableMap
<1>1. Init => Map!MapInit
  <2> SUFFICES ASSUME Init PROVE Map!MapInit
    OBVIOUS
  <2>1. PICK a \in ArrayHints : \E h \in HashHints : array = Blank(a) /\ nodes = Nodes(NodesFor(h))
    BY DEF Init
  <2>2. PICK h \in HashHints : array = Blank(a) /\ nodes = Nodes(NodesFor(h))
    BY <2>1
  <2>3. a \in Nat /\ NodesFor(h) \in Nat
    BY HintsAssumption, NodesForIsRoom
  <2>4. body = [array |-> Blank(a), nodes |-> Nodes(NodesFor(h)), free |-> 0]
    BY <2>2 DEF body, Init
  <2>5. \A k \in Keys : TableGet(body, k) = Nil
    BY <2>3, <2>4, NewBody
  <2>6. LiveKeys = {}
    BY <2>5 DEF LiveKeys
  <2>7. cursor = Idle
    BY DEF Init
  <2> QED
    BY <2>6, <2>7 DEF Map!MapInit, Ahead
<1>2. IInv /\ [Next]_vars => [Map!MapNext]_(Map!mapVars)
  <2> SUFFICES ASSUME IInv, [Next]_vars PROVE [Map!MapNext]_(Map!mapVars)
    OBVIOUS
  <2>1. CASE UNCHANGED vars
    <3>1. body' = body /\ cursor' = cursor
      BY <2>1 DEF vars, body
    <3> QED
      BY <3>1 DEF Map!mapVars, LiveKeys, Ahead
  <2>2. ASSUME NEW key \in Keys, NEW value \in Slots, TableSet(key, value)
        PROVE  Map!MapNext
    BY <2>2, TableSetMaps
  <2>3. CASE Pairs \/ TableNext
    BY <2>3, TraversalMaps
  <2> QED
    BY <2>1, <2>2, <2>3 DEF Next, Slots
<1> QED
  BY <1>1, <1>2, IInvTheorem, PTL DEF Spec, ImplementsTableMap, Map!MapSpec
==============================================================================
