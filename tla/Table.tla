-------------------------------- MODULE Table --------------------------------
(***************************************************************************)
(* A Lua table: an array part, and a node part that is a chained scatter   *)
(* table with Brent's variation (heap/table/store.rs, access.rs, key.rs).  *)
(*                                                                         *)
(* Keys are normalized (a float with an integer's value is that integer,   *)
(* nil and NaN were refused).  Indices count from 1, and 0 is None.        *)
(***************************************************************************)
EXTENDS Naturals, Sequences, FiniteSets

CONSTANTS
  Integers,        (* the integer keys in play, all at least 1              *)
  Others,          (* the other keys in play                                *)
  Hash,            (* key -> its hash                                       *)
  Values, Nil,     (* what an entry holds; no key and no value              *)
  Idle,            (* no traversal is under way                             *)
  ArrayHints, HashHints,   (* what constructors announce                    *)
  Highest          (* the highest integer, i64::MAX in the code             *)

Keys == Integers \cup Others

ASSUME IntegersAssumption == Highest \in Nat /\ Integers \subseteq 1 .. Highest
ASSUME HashAssumption == DOMAIN Hash = Keys /\ \A k \in Keys : Hash[k] \in Nat
ASSUME NilAssumption == Nil \notin Keys \cup Values /\ Idle \notin Keys \cup {Nil}
ASSUME HintsAssumption == ArrayHints \subseteq Nat /\ HashHints \subseteq Nat

VARIABLES
  array,      (* Table.array                                               *)
  nodes,      (* Table.nodes                                               *)
  free,       (* Table.free: how far the walk for an unused node came      *)
  cursor      (* the key a running traversal passes to next                *)

vars == <<array, nodes, free, cursor>>
body == [array |-> array, nodes |-> nodes, free |-> free]

Unused == [key |-> Nil, value |-> Nil, next |-> 0]
Blank(n) == [i \in 1 .. n |-> Nil]
Nodes(n) == [i \in 1 .. n |-> Unused]

(* The powers of two, from 1 to past n.                                    *)
Powers(n) ==
  LET power[p \in 0 .. n] == IF p = 0 THEN 1 ELSE 2 * power[p - 1]
  IN  {power[p] : p \in 0 .. n}

(* nodes_for: room for one more than is wanted, rounded up to a power of 2. *)
NodesFor(wanted) ==
  IF wanted = 0 THEN 0
  ELSE CHOOSE n \in Powers(wanted) :
         n > wanted /\ \A m \in Powers(wanted) : m > wanted => n <= m

InArray(b, key) == key \in Integers /\ key <= Len(b.array)

(* The length is a power of two: the mask is a remainder.                  *)
MainPosition(b, key) == (Hash[key] % Len(b.nodes)) + 1

(* find_node: along the chain that starts at the key's main position.      *)
FindNode(b, key) ==
  LET at[i \in 1 .. Len(b.nodes)] ==
        IF b.nodes[i].key = key THEN i
        ELSE IF b.nodes[i].next = 0 THEN 0 ELSE at[b.nodes[i].next]
  IN  IF b.nodes = <<>> THEN 0 ELSE at[MainPosition(b, key)]

TableGet(b, key) ==
  IF InArray(b, key) THEN b.array[key]
  ELSE IF FindNode(b, key) = 0 THEN Nil ELSE b.nodes[FindNode(b, key)].value

-----------------------------------------------------------------------------
(* take_free: the walk goes down from the last node and never back up.     *)
FreeNodes(b) == {i \in 1 .. Len(b.nodes) - b.free : b.nodes[i].key = Nil}
TakeFree(b) == CHOOSE i \in FreeNodes(b) : \A j \in FreeNodes(b) : j <= i

HasRoom(b, key) ==
  b.nodes # <<>> /\ (b.nodes[MainPosition(b, key)].key = Nil \/ FreeNodes(b) # {})

Node(key, value, next) == [key |-> key, value |-> value, next |-> next]

(* Mutant: the new key starts a chain of its own and cuts the old one.     *)
Chained_Cuts(b, at, main, key, value) ==
  [b EXCEPT !.nodes = [@ EXCEPT ![at] = Node(key, value, 0), ![main].next = at],
            !.free = Len(b.nodes) - at + 1]

(* The node in the way belongs here: the new key chains right after it.    *)
Chained(b, at, main, key, value) ==
  [b EXCEPT !.nodes = [@ EXCEPT ![at] = Node(key, value, b.nodes[main].next), ![main].next = at],
            !.free = Len(b.nodes) - at + 1]

(* Mutant: the chain still passes through the old place.                   *)
Displaced_LinksStay(b, at, main, key, value) ==
  [b EXCEPT !.nodes = [@ EXCEPT ![at] = b.nodes[main], ![main] = Node(key, value, 0)],
            !.free = Len(b.nodes) - at + 1]

(* It is only passing through: it moves to the free node, its chain with   *)
(* it, and the new key takes its place.                                    *)
Displaced(b, at, main, key, value) ==
  LET previous == CHOOSE i \in 1 .. Len(b.nodes) : b.nodes[i].next = main
  IN  [b EXCEPT !.nodes = [@ EXCEPT ![previous].next = at, ![at] = b.nodes[main],
                                    ![main] = Node(key, value, 0)],
                !.free = Len(b.nodes) - at + 1]

(* insert_new where there is room.                                         *)
Placed(b, key, value) ==
  LET main == MainPosition(b, key)
      squatter == b.nodes[main].key
  IN  IF squatter = Nil THEN [b EXCEPT !.nodes[main] = Node(key, value, 0)]
      ELSE IF MainPosition(b, squatter) = main
           THEN Chained(b, TakeFree(b), main, key, value)
           ELSE Displaced(b, TakeFree(b), main, key, value)

(* entry_from: places count through the array part and on through nodes.   *)
Places(b) == Len(b.array) + Len(b.nodes)
KeyAt(b, place) ==
  IF place <= Len(b.array) THEN place ELSE b.nodes[place - Len(b.array)].key
ValueAt(b, place) ==
  IF place <= Len(b.array) THEN b.array[place] ELSE b.nodes[place - Len(b.array)].value

LivePlaces(b, after) == {p \in after + 1 .. Places(b) : ValueAt(b, p) # Nil}
EntryFrom(b, after) ==
  CHOOSE p \in LivePlaces(b, after) : \A q \in LivePlaces(b, after) : p <= q

(* size_of::<Value>() and size_of::<Node>().                               *)
SlotSize == 16
NodeSize == 40

(* best_array_size: the largest power of two whose top half holds a key    *)
(* and whose slots cost no more than the nodes they save.                  *)
Covered(keys, size) == Cardinality({k \in keys : k <= size})
BestArraySize(keys) ==
  LET worth == {n \in Powers(Highest) :
                  /\ Covered(keys, n) > (IF n = 1 THEN 0 ELSE Covered(keys, n \div 2))
                  /\ n * SlotSize <= Covered(keys, n) * NodeSize}
  IN  IF worth = {} THEN 0 ELSE CHOOSE n \in worth : \A m \in worth : m <= n

(* rebuild: both parts laid out anew for the entries and the key that did  *)
(* not fit.                                                                *)
Laid(b, key) ==
  LET held == LivePlaces(b, 0)
      integers == ({KeyAt(b, p) : p \in held} \cup {key}) \cap Integers
      size == BestArraySize(integers)
  IN  [array |-> Blank(size), free |-> 0,
       nodes |-> Nodes(NodesFor(Cardinality(held) + 1 - Covered(integers, size)))]

(* One entry of a refresh.  Without room the code would refresh again;     *)
(* here the entry would be lost, and ImplementsTableMap would say so.      *)
Stored(b, key, value) ==
  IF InArray(b, key) THEN [b EXCEPT !.array[key] = value]
  ELSE IF HasRoom(b, key) THEN Placed(b, key, value) ELSE b

(* drain_all's entries, in order: the array part's, then the nodes'.       *)
Restored(b, laid) ==
  LET upTo[p \in 0 .. Places(b)] ==
        IF p = 0 THEN laid
        ELSE IF ValueAt(b, p) = Nil THEN upTo[p - 1]
        ELSE Stored(upTo[p - 1], KeyAt(b, p), ValueAt(b, p))
  IN  upTo[Places(b)]

(* Mutant: the walk for an unused node goes on from where it was.          *)
Refreshed_KeepsFree(b, key, value) ==
  Stored(Restored(b, [Laid(b, key) EXCEPT !.free = b.free]), key, value)

(* refresh: everything the table holds, and the key that did not fit.      *)
Refreshed(b, key, value) == Stored(Restored(b, Laid(b, key)), key, value)

(* Mutant: erasing frees the node.                                         *)
SetIn_FreesNode(b, key, value) ==
  IF InArray(b, key) THEN [b EXCEPT !.array[key] = value]
  ELSE IF FindNode(b, key) # 0
       THEN LET i == FindNode(b, key)
            IN  [b EXCEPT !.nodes[i] = Node(IF value = Nil THEN Nil ELSE key, value, @.next)]
  ELSE IF value = Nil THEN b
  ELSE IF HasRoom(b, key) THEN Placed(b, key, value)
  ELSE Refreshed(b, key, value)

(* set_in.  Erasing keeps the node and its key, for a traversal standing   *)
(* on it and for the chain that runs through it.                           *)
SetIn(b, key, value) ==
  IF InArray(b, key) THEN [b EXCEPT !.array[key] = value]
  ELSE IF FindNode(b, key) # 0 THEN [b EXCEPT !.nodes[FindNode(b, key)].value = value]
  ELSE IF value = Nil THEN b
  ELSE IF HasRoom(b, key) THEN Placed(b, key, value)
  ELSE Refreshed(b, key, value)

-----------------------------------------------------------------------------
(* Where table_next resumes after a key; it fails if the key has no place. *)
HasPlace(b, key) == key # Nil => InArray(b, key) \/ FindNode(b, key) # 0
Place(b, key) ==
  IF key = Nil THEN 0
  ELSE IF InArray(b, key) THEN key ELSE Len(b.array) + FindNode(b, key)

HasInteger(b, key) == key \in Integers /\ TableGet(b, key) # Nil

(* Halving the gap between a filled index and an empty one.                *)
Halved(low, high, filled) ==
  LET gap[r \in (0 .. high) \X (0 .. high)] ==
        LET middle == r[1] + (r[2] - r[1]) \div 2
        IN  IF r[2] - r[1] <= 1 THEN r[1]
            ELSE IF middle \in filled THEN gap[<<middle, r[2]>>] ELSE gap[<<r[1], middle>>]
  IN  gap[<<low, high>>]

(* table_length: inside the array part if it ends on an empty slot,        *)
(* otherwise beyond it by doubling, and one by one when doubling overflows. *)
ArrayBorder(b) == Halved(0, Len(b.array), {i \in 1 .. Len(b.array) : b.array[i] # Nil})
Beyond(b) ==
  LET filled == {i \in Integers : HasInteger(b, i)}
      one[n \in 0 .. Highest] == IF n + 1 \in filled THEN one[n + 1] ELSE n
      twice[n \in 0 .. Highest] ==
        IF 2 * n > Highest THEN one[n]
        ELSE IF 2 * n \in filled THEN twice[2 * n] ELSE Halved(n, 2 * n, filled)
  IN  IF Len(b.array) + 1 \in filled THEN twice[Len(b.array) + 1] ELSE Len(b.array)

(* Mutant: a full array part is the whole sequence.                        *)
TableLength_ArrayOnly(b) ==
  IF b.array # <<>> /\ b.array[Len(b.array)] = Nil THEN ArrayBorder(b) ELSE Len(b.array)

TableLength(b) ==
  IF b.array # <<>> /\ b.array[Len(b.array)] = Nil THEN ArrayBorder(b) ELSE Beyond(b)

-----------------------------------------------------------------------------
(* with_hints.                                                             *)
Init ==
  /\ \E a \in ArrayHints, h \in HashHints :
       array = Blank(a) /\ nodes = Nodes(NodesFor(h))
  /\ free = 0
  /\ cursor = Idle

Become(b) == array' = b.array /\ nodes' = b.nodes /\ free' = b.free

(* table_set.  A program that adds a key has no use for a traversal it had *)
(* under way: Lua leaves its outcome open.                                 *)
TableSet(key, value) ==
  /\ Become(SetIn(body, key, value))
  /\ cursor' = IF value # Nil /\ TableGet(body, key) = Nil THEN Idle ELSE cursor

(* pairs hands out next with nil for the key.                              *)
Pairs == cursor = Idle /\ cursor' = Nil /\ UNCHANGED <<array, nodes, free>>

(* table_next, from the key it last answered.                              *)
TableNext ==
  /\ cursor # Idle /\ HasPlace(body, cursor)
  /\ LET after == Place(body, cursor)
     IN  cursor' = IF LivePlaces(body, after) = {} THEN Idle
                   ELSE KeyAt(body, EntryFrom(body, after))
  /\ UNCHANGED <<array, nodes, free>>

Next ==
  \/ \E key \in Keys, value \in Values \cup {Nil} : TableSet(key, value)
  \/ Pairs
  \/ TableNext

Spec == Init /\ [][Next]_vars

-----------------------------------------------------------------------------
TypeOK ==
  /\ array \in Seq(Values \cup {Nil})
  /\ nodes \in Seq([key : Keys \cup {Nil}, value : Values \cup {Nil}, next : 0 .. Len(nodes)])
  /\ free \in 0 .. Len(nodes)
  /\ cursor \in Keys \cup {Nil, Idle}

(* Every key in the node part, erased ones too, is on the chain from its   *)
(* main position, in one node only, and not in the array part's range:     *)
(* a search finds the one node that answers for it.                        *)
EveryKeyIsFound ==
  \A i \in 1 .. Len(nodes) :
    nodes[i].key # Nil => FindNode(body, nodes[i].key) = i /\ ~InArray(body, nodes[i].key)

(* `#t` is a border, whatever holes the program left.                      *)
LengthIsABorder ==
  LET n == TableLength(body)
  IN  (n = 0 \/ HasInteger(body, n)) /\ ~HasInteger(body, n + 1)

(* A traversal that only assigns to and erases keys that are there never   *)
(* meets `invalid key to 'next'`.                                          *)
CursorHasPlace == cursor # Idle => HasPlace(body, cursor)

(* A read answers what was last written, through collisions, displaced     *)
(* nodes and refreshes; a traversal misses nothing and repeats nothing.    *)
LiveKeys == {k \in Keys : TableGet(body, k) # Nil}
Ahead ==
  IF cursor = Idle THEN {}
  ELSE {KeyAt(body, p) : p \in LivePlaces(body, Place(body, cursor))}

Map == INSTANCE TableMap WITH
  entries <- [k \in LiveKeys |-> TableGet(body, k)],
  walking <- cursor # Idle, ahead <- Ahead

ImplementsTableMap == Map!MapSpec
==============================================================================
