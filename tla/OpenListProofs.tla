--------------------------- MODULE OpenListProofs ---------------------------
(***************************************************************************)
(* The open list is ordered and agrees with the arena, for every number of *)
(* slots, values and cells.  The three parts are inductive together: the   *)
(* insertion keeps the order only because the search point splits the      *)
(* list, and the cut closes the right cells only because each listed cell  *)
(* points at the slot it is listed under.                                  *)
(***************************************************************************)
EXTENDS OpenList, TLAPS

IInv == TypeOK /\ OpenIsSorted /\ ListMatchesArena

(* A partition point answers a place in the list or just past its end.     *)
LEMMA InsertedType ==
  ASSUME NEW S, NEW seq \in Seq(S), NEW at \in 1 .. Len(seq) + 1, NEW e \in S
  PROVE  /\ Inserted(seq, at, e) \in Seq(S)
         /\ Len(Inserted(seq, at, e)) = Len(seq) + 1
         /\ \A i \in 1 .. Len(seq) + 1 :
              Inserted(seq, at, e)[i] =
                IF i < at THEN seq[i] ELSE IF i = at THEN e ELSE seq[i - 1]
<1> DEFINE f == Inserted(seq, at, e)
<1>1. Len(seq) \in Nat
  OBVIOUS
<1>2. f \in [1 .. Len(seq) + 1 -> S]
  <2> SUFFICES ASSUME NEW i \in 1 .. Len(seq) + 1
               PROVE  (IF i < at THEN seq[i] ELSE IF i = at THEN e ELSE seq[i - 1]) \in S
    BY DEF Inserted
  <2> QED
    BY <1>1
<1>3. f \in Seq(S) /\ Len(f) = Len(seq) + 1
  BY <1>1, <1>2
<1> QED
  BY <1>3 DEF Inserted

(* No upvalue is open at first.                                            *)
LEMMA InitIInv == Init => IInv
BY NilAssumption DEF Init, IInv, TypeOK, OpenIsSorted, ListMatchesArena

(* An unlisted slot's cell goes where the order is kept.                   *)
LEMMA CaptureNewIInv ==
  ASSUME IInv, NEW slot \in Slots, CaptureNew(slot)
  PROVE  IInv'
<1> DEFINE c == Len(cells) + 1
           e == [slot |-> slot, cell |-> c]
           R == [slot : Slots, cell : Nat]
<1>1. PICK at \in 1 .. Len(open) + 1 :
        /\ PartitionPoint(slot, at)
        /\ open' = Inserted(open, at, e)
  BY DEF CaptureNew
<1>2. /\ cells' = Append(cells, Open(slot))
      /\ values' = values
      /\ \A i \in 1 .. Len(open) : open[i].slot # slot
  BY DEF CaptureNew
<1>3. /\ open \in Seq(R) /\ cells \in Seq(Upvalue) /\ values \in [Slots -> Values]
      /\ Len(open) \in Nat /\ Len(cells) \in Nat
  BY DEF TypeOK, IInv
<1>4. e \in R /\ e.slot = slot /\ e.cell = c /\ Open(slot) \in Upvalue
  BY <1>3 DEF Upvalue
<1> HIDE DEF e, R
<1>5. /\ open' \in Seq(R)
      /\ Len(open') = Len(open) + 1
      /\ \A i \in 1 .. Len(open) + 1 :
           open'[i] = IF i < at THEN open[i] ELSE IF i = at THEN e ELSE open[i - 1]
  <2>1. open \in Seq(R) /\ at \in 1 .. Len(open) + 1 /\ e \in R
    BY <1>3, <1>4
  <2>2. /\ Inserted(open, at, e) \in Seq(R)
        /\ Len(Inserted(open, at, e)) = Len(open) + 1
        /\ \A i \in 1 .. Len(open) + 1 :
             Inserted(open, at, e)[i] =
               IF i < at THEN open[i] ELSE IF i = at THEN e ELSE open[i - 1]
    BY ONLY <2>1, InsertedType
  <2> QED
    BY <2>2, <1>1
<1>6. /\ cells' \in Seq(Upvalue)
      /\ Len(cells') = c
      /\ cells'[c] = Open(slot)
      /\ \A d \in 1 .. Len(cells) : cells'[d] = cells[d]
  BY <1>2, <1>3, <1>4
<1>7. TypeOK'
  BY <1>2, <1>3, <1>5, <1>6 DEF TypeOK, R
<1>8. OpenIsSorted'
  <2> SUFFICES ASSUME NEW i \in 1 .. Len(open) + 1, NEW j \in 1 .. Len(open) + 1, i < j
               PROVE  open'[i].slot < open'[j].slot
    BY <1>5 DEF OpenIsSorted
  <2>1. slot \in Nat /\ \A k \in 1 .. Len(open) : open[k].slot \in Nat
    <3>1. \A k \in 1 .. Len(open) : open[k] \in R
      BY <1>3
    <3> QED
      BY <3>1, SlotsAssumption DEF R
  <2>2. \A k \in 1 .. Len(open) : /\ k < at => open[k].slot < slot
                                  /\ k >= at => slot < open[k].slot
    BY <1>1, <1>2, <2>1 DEF PartitionPoint
  <2>3. \A k, l \in 1 .. Len(open) : k < l => open[k].slot < open[l].slot
    BY DEF IInv, OpenIsSorted
  <2>4. CASE j < at
    <3>1. open'[i] = open[i] /\ open'[j] = open[j] /\ i \in 1 .. Len(open) /\ j \in 1 .. Len(open)
      BY <2>4, <1>5, <1>3
    <3> QED
      BY <3>1, <2>3
  <2>5. CASE j = at
    BY <2>5, <2>2, <1>5, <1>3, <1>4
  <2>6. CASE j > at
    <3>1. j - 1 \in 1 .. Len(open) /\ open'[j] = open[j - 1] /\ j - 1 >= at
      BY <2>6, <1>5, <1>3
    <3>2. CASE i < at
      BY <3>1, <3>2, <2>3, <1>5, <1>3, SMTT(30)
    <3>3. CASE i = at
      BY <3>1, <3>3, <2>2, <1>5, <1>3, <1>4
    <3>4. CASE i > at
      <4>1. i - 1 \in 1 .. Len(open) /\ open'[i] = open[i - 1] /\ i - 1 < j - 1
        BY <3>4, <3>1, <1>5, <1>3
      <4> QED
        BY <4>1, <3>1, <2>3
    <3> QED
      BY <3>2, <3>3, <3>4, <1>3
  <2> QED
    BY <2>4, <2>5, <2>6, <1>3
<1>9. ListMatchesArena'
  <2>1. ASSUME NEW k \in 1 .. Len(open)
        PROVE  /\ open[k].cell \in 1 .. Len(cells)
               /\ cells'[open[k].cell] = Open(open[k].slot)
    BY <1>6 DEF IInv, ListMatchesArena
  <2>2. ASSUME NEW i \in 1 .. Len(open) + 1
        PROVE  /\ open'[i].cell \in 1 .. c
               /\ cells'[open'[i].cell] = Open(open'[i].slot)
    <3>1. CASE i = at
      BY <3>1, <1>3, <1>4, <1>5, <1>6
    <3>2. CASE i < at
      BY <3>2, <2>1, <1>3, <1>5
    <3>3. CASE i > at
      <4>1. i - 1 \in 1 .. Len(open) /\ open'[i] = open[i - 1]
        BY <3>3, <1>5, <1>3
      <4> QED
        BY <4>1, <2>1, <1>3
    <3> QED
      BY <3>1, <3>2, <3>3, <1>3
  <2>3. ASSUME NEW d \in 1 .. c, cells'[d].kind = "Open"
        PROVE  \E i \in 1 .. Len(open) + 1 : open'[i].cell = d
    <3>1. CASE d = c
      <4>1. open'[at].cell = d
        BY <3>1, <1>4, <1>5
      <4> QED
        BY <4>1
    <3>2. CASE d # c
      <4>1. d \in 1 .. Len(cells) /\ IsOpen(d)
        BY <3>2, <1>3, <1>6, <2>3 DEF IsOpen
      <4>2. PICK i \in 1 .. Len(open) : open[i].cell = d
        BY <4>1 DEF IInv, ListMatchesArena
      <4>3. CASE i < at
        <5>1. i \in 1 .. Len(open) + 1 /\ open'[i].cell = d
          BY <4>2, <4>3, <1>3, <1>5
        <5> QED
          BY <5>1
      <4>4. CASE i >= at
        <5>1. i + 1 \in 1 .. Len(open) + 1 /\ open'[i + 1] = open[i]
          BY <4>4, <1>3, <1>5
        <5> QED
          BY <5>1, <4>2
      <4> QED
        BY <4>3, <4>4, <1>3
    <3> QED
      BY <3>1, <3>2
  <2> QED
    BY <2>2, <2>3, <1>5, <1>6 DEF ListMatchesArena, IsOpen
<1> QED
  BY <1>7, <1>8, <1>9 DEF IInv

(* What the cut leaves: the entries below it, and the cells of the others  *)
(* closed on their slots' values.                                          *)
LEMMA CloseIInv ==
  ASSUME IInv, NEW from \in Slots, Close(from)
  PROVE  IInv'
<1> DEFINE R == [slot : Slots, cell : Nat]
<1>1. PICK at \in 1 .. Len(open) + 1 :
        /\ PartitionPoint(from, at)
        /\ cells' = [c \in 1 .. Len(cells) |->
                       IF \E i \in at .. Len(open) : open[i].cell = c
                       THEN LET i == CHOOSE j \in at .. Len(open) : open[j].cell = c
                            IN  Closed(values[open[i].slot])
                       ELSE cells[c]]
        /\ open' = SubSeq(open, 1, at - 1)
        /\ values' = values
  BY DEF Close
<1>2. /\ open \in Seq(R) /\ cells \in Seq(Upvalue) /\ values \in [Slots -> Values]
      /\ Len(open) \in Nat /\ Len(cells) \in Nat
  BY DEF TypeOK, IInv
<1> HIDE DEF R
<1>3. \A i \in 1 .. Len(open) : open[i] \in R /\ open[i].slot \in Slots
  <2>1. \A i \in 1 .. Len(open) : open[i] \in R
    BY <1>2
  <2> QED
    BY <2>1 DEF R
<1>4. /\ open' \in Seq(R)
      /\ Len(open') = at - 1
      /\ \A i \in 1 .. at - 1 : open'[i] = open[i] /\ i \in 1 .. Len(open)
  BY <1>1, <1>2
<1>5. ASSUME NEW c \in 1 .. Len(cells)
      PROVE  /\ cells'[c] \in Upvalue
             /\ \/ /\ \A i \in at .. Len(open) : open[i].cell # c
                   /\ cells'[c] = cells[c]
                \/ /\ \E i \in at .. Len(open) : open[i].cell = c
                   /\ cells'[c].kind = "Closed"
  <2>1. CASE \A i \in at .. Len(open) : open[i].cell # c
    <3>1. cells'[c] = cells[c]
      BY <2>1, <1>1
    <3>2. cells[c] \in Upvalue
      BY <1>2
    <3> QED
      BY <2>1, <3>1, <3>2
  <2>2. CASE \E i \in at .. Len(open) : open[i].cell = c
    <3> DEFINE k == CHOOSE j \in at .. Len(open) : open[j].cell = c
    <3>1. k \in at .. Len(open)
      BY <2>2
    <3>2. cells'[c] = Closed(values[open[k].slot])
      BY <2>2, <1>1
    <3> HIDE DEF k
    <3>3. values[open[k].slot] \in Values
      BY <3>1, <1>2, <1>3
    <3>4. cells'[c] \in Upvalue
      BY <3>2, <3>3 DEF Upvalue
    <3> QED
      BY <2>2, <3>2, <3>4 DEF Closed
  <2> QED
    BY <2>1, <2>2
<1>6. cells' \in Seq(Upvalue) /\ Len(cells') = Len(cells)
  <2>1. DOMAIN cells' = 1 .. Len(cells) /\ cells' = [c \in DOMAIN cells' |-> cells'[c]]
    BY <1>1
  <2>2. cells' \in [1 .. Len(cells) -> Upvalue]
    BY <2>1, <1>5
  <2> QED
    BY <2>2, <1>2
<1>7. TypeOK'
  BY <1>1, <1>2, <1>4, <1>6 DEF TypeOK, R
<1>8. OpenIsSorted'
  BY <1>4, <1>2 DEF OpenIsSorted, IInv
<1>9. ListMatchesArena'
  <2>1. ASSUME NEW i \in 1 .. at - 1
        PROVE  /\ open'[i].cell \in 1 .. Len(cells)
               /\ cells'[open'[i].cell] = Open(open'[i].slot)
    <3>1. i \in 1 .. Len(open) /\ open'[i] = open[i]
      BY <1>4
    <3>2. open[i].cell \in 1 .. Len(cells) /\ cells[open[i].cell] = Open(open[i].slot)
      BY <3>1 DEF IInv, ListMatchesArena
    <3>3. \A j \in at .. Len(open) : open[j].cell # open[i].cell
      <4> SUFFICES ASSUME NEW j \in at .. Len(open), open[j].cell = open[i].cell
                   PROVE  FALSE
        OBVIOUS
      <4>1. j \in 1 .. Len(open) /\ i < j
        BY <1>2
      <4>2. Open(open[j].slot) = Open(open[i].slot)
        BY <4>1, <3>1, <3>2 DEF IInv, ListMatchesArena
      <4>3. open[j].slot = open[i].slot
        BY <4>2 DEF Open
      <4>4. open[i].slot < open[j].slot /\ open[i].slot \in Nat
        BY <4>1, <3>1, <1>3, SlotsAssumption DEF IInv, OpenIsSorted
      <4> QED
        BY <4>3, <4>4
    <3> QED
      BY <3>1, <3>2, <3>3, <1>5
  <2>2. ASSUME NEW c \in 1 .. Len(cells), cells'[c].kind = "Open"
        PROVE  \E i \in 1 .. at - 1 : open'[i].cell = c
    <3>1. cells'[c] = cells[c] /\ \A i \in at .. Len(open) : open[i].cell # c
      BY <1>5, <2>2
    <3>2. PICK i \in 1 .. Len(open) : open[i].cell = c
      BY <3>1, <2>2 DEF IInv, ListMatchesArena, IsOpen
    <3>3. i \in 1 .. at - 1
      BY <3>1, <3>2, <1>2
    <3> QED
      BY <3>2, <3>3, <1>4
  <2> QED
    BY <2>1, <2>2, <1>4, <1>6 DEF ListMatchesArena, IsOpen
<1> QED
  BY <1>7, <1>8, <1>9 DEF IInv

(* A write through a cell leaves what is open, and where, as it was.       *)
LEMMA SetUpvalIInv ==
  ASSUME IInv, NEW c \in 1 .. Len(cells), NEW v \in Values, SetUpval(c, v)
  PROVE  IInv'
<1>1. /\ values \in [Slots -> Values] /\ cells \in Seq(Upvalue)
      /\ cells[c] \in Upvalue /\ Len(cells) \in Nat
  BY DEF IInv, TypeOK
<1>2. open' = open
  BY DEF SetUpval
<1>3. CASE IsOpen(c)
  <2>1. cells' = cells /\ values' = [values EXCEPT ![cells[c].slot] = v]
    BY <1>3 DEF SetUpval
  <2>2. values' \in [Slots -> Values]
    BY <2>1, <1>1
  <2> QED
    BY <1>2, <2>1, <2>2 DEF IInv, TypeOK, OpenIsSorted, ListMatchesArena, IsOpen
<1>4. CASE ~IsOpen(c)
  <2>1. values' = values /\ cells' = [cells EXCEPT ![c] = Closed(v)]
    BY <1>4 DEF SetUpval
  <2>2. Closed(v) \in Upvalue /\ Closed(v).kind = "Closed"
    BY DEF Upvalue, Closed
  <2>3. /\ cells' \in Seq(Upvalue) /\ Len(cells') = Len(cells)
        /\ cells'[c].kind = "Closed"
        /\ \A d \in 1 .. Len(cells) : d # c => cells'[d] = cells[d]
    BY <2>1, <2>2, <1>1
  <2>4. ASSUME NEW i \in 1 .. Len(open) PROVE open[i].cell # c
    <3>1. cells[open[i].cell].kind = "Open"
      <4>1. cells[open[i].cell] = Open(open[i].slot)
        BY DEF IInv, ListMatchesArena
      <4> QED
        BY <4>1 DEF Open
    <3> QED
      BY <3>1, <1>4 DEF IsOpen
  <2>5. ListMatchesArena'
    BY <1>2, <2>3, <2>4 DEF IInv, ListMatchesArena, IsOpen
  <2> QED
    BY <1>2, <2>1, <2>3, <2>5 DEF IInv, TypeOK, OpenIsSorted
<1> QED
  BY <1>3, <1>4

(* Every step keeps the invariant.                                         *)
LEMMA NextIInv == IInv /\ [Next]_vars => IInv'
<1> SUFFICES ASSUME IInv, [Next]_vars PROVE IInv'
  OBVIOUS
<1>1. ASSUME NEW slot \in Slots, CaptureHeld(slot) PROVE IInv'
  BY <1>1 DEF CaptureHeld, vars, IInv, TypeOK, OpenIsSorted, ListMatchesArena, IsOpen
<1>2. ASSUME NEW slot \in Slots, CaptureNew(slot) PROVE IInv'
  BY <1>2, CaptureNewIInv
<1>3. ASSUME NEW slot \in Slots, Close(slot) PROVE IInv'
  BY <1>3, CloseIInv
<1>4. ASSUME NEW c \in 1 .. Len(cells), NEW v \in Values, SetUpval(c, v) PROVE IInv'
  BY <1>4, SetUpvalIInv
<1>5. ASSUME NEW slot \in Slots, NEW v \in Values, Put(slot, v) PROVE IInv'
  BY <1>5 DEF Put, IInv, TypeOK, OpenIsSorted, ListMatchesArena, IsOpen
<1>6. CASE UNCHANGED vars
  BY <1>6 DEF vars, IInv, TypeOK, OpenIsSorted, ListMatchesArena, IsOpen
<1> QED
  BY <1>1, <1>2, <1>3, <1>4, <1>5, <1>6 DEF Next

(* vm/state.rs:22 "ordered by slot": in every state of every run.          *)
THEOREM OpenIsSortedTheorem == Spec => []OpenIsSorted
<1>1. Spec => []IInv
  BY InitIInv, NextIInv, PTL DEF Spec
<1>2. IInv => OpenIsSorted
  BY DEF IInv
<1> QED
  BY <1>1, <1>2, PTL

(* No cell stays open behind the list's back, and none is listed closed or *)
(* under another slot.                                                     *)
THEOREM ListMatchesArenaTheorem == Spec => []ListMatchesArena
<1>1. Spec => []IInv
  BY InitIInv, NextIInv, PTL DEF Spec
<1>2. IInv => ListMatchesArena
  BY DEF IInv
<1> QED
  BY <1>1, <1>2, PTL

-----------------------------------------------------------------------------
(* The vector stays sorted, lists exactly the open cells and holds what    *)
(* the type says, after every capture, write and close.                    *)
THEOREM IInvTheorem == Spec => []IInv
  BY InitIInv, NextIInv, PTL DEF Spec

(* Slots hold values, entries name slots and cells, and a cell is open on a *)
(* slot or closed on a value, after every capture, write and close.         *)
THEOREM TypeOKTheorem == Spec => []TypeOK
<1>1. IInv => TypeOK
  BY DEF IInv
<1> QED
  BY <1>1, IInvTheorem, PTL

(* An open cell is open on one slot.                                       *)
LEMMA OpenOnce ==
  ASSUME NEW s, NEW t, Open(s) = Open(t)
  PROVE  s = t
<1>1. Open(s).slot = s /\ Open(t).slot = t
  BY DEF Open
<1> QED
  BY <1>1

(* A cell is open on a slot, or closed on a value.                         *)
LEMMA CellIs ==
  ASSUME IInv, NEW c \in 1 .. Len(cells)
  PROVE  /\ IsOpen(c) => cells[c].slot \in Slots /\ cells[c] = Open(cells[c].slot)
         /\ ~IsOpen(c) => cells[c].value \in Values /\ cells[c] = Closed(cells[c].value)
         /\ \A s : cells[c] = Open(s) => IsOpen(c) /\ cells[c].slot = s
<1>1. cells[c] \in Upvalue
  BY DEF IInv, TypeOK
<1> QED
  BY <1>1 DEF Upvalue, Open, Closed, IsOpen

(* What a close does to each cell: those at or above `from` keep the value *)
(* their slot held, the others stay as they are.                           *)
LEMMA CloseCells ==
  ASSUME IInv, NEW from \in Slots, Close(from)
  PROVE  /\ values' = values /\ Len(cells') = Len(cells)
         /\ \A c \in 1 .. Len(cells) :
              cells'[c] = IF IsOpen(c) /\ cells[c].slot >= from
                          THEN Closed(values[cells[c].slot]) ELSE cells[c]
<1>1. PICK at \in 1 .. Len(open) + 1 :
        /\ PartitionPoint(from, at)
        /\ cells' = [c \in 1 .. Len(cells) |->
                       IF \E i \in at .. Len(open) : open[i].cell = c
                       THEN LET i == CHOOSE j \in at .. Len(open) : open[j].cell = c
                            IN  Closed(values[open[i].slot])
                       ELSE cells[c]]
        /\ values' = values
  BY DEF Close
<1>2. Len(open) \in Nat /\ Len(cells) \in Nat
  BY DEF IInv, TypeOK
<1>3. \A i \in 1 .. Len(open) : open[i].slot \in Slots /\ open[i].slot \in Nat
  <2> DEFINE R == [slot : Slots, cell : Nat]
  <2>1. open \in Seq(R)
    BY DEF IInv, TypeOK
  <2> HIDE DEF R
  <2>2. \A i \in 1 .. Len(open) : open[i] \in R
    BY <2>1
  <2> QED
    BY <2>2, SlotsAssumption DEF R
<1>4. \A i \in 1 .. Len(open) : i >= at <=> open[i].slot >= from
  BY <1>1, <1>2, <1>3, SlotsAssumption DEF PartitionPoint
<1>5. ASSUME NEW c \in 1 .. Len(cells)
      PROVE  cells'[c] = IF IsOpen(c) /\ cells[c].slot >= from
                         THEN Closed(values[cells[c].slot]) ELSE cells[c]
  <2>1. \A i \in 1 .. Len(open) : open[i].cell = c => IsOpen(c) /\ cells[c].slot = open[i].slot
    BY CellIs DEF IInv, ListMatchesArena
  <2>2. IsOpen(c) => \E i \in 1 .. Len(open) : open[i].cell = c
    BY DEF IInv, ListMatchesArena
  <2>3. CASE IsOpen(c) /\ cells[c].slot >= from
    <3>1. \E i \in at .. Len(open) : open[i].cell = c
      BY <1>2, <1>4, <2>1, <2>2, <2>3
    <3> DEFINE k == CHOOSE j \in at .. Len(open) : open[j].cell = c
    <3>2. k \in at .. Len(open) /\ open[k].cell = c
      BY <3>1
    <3>3. cells'[c] = Closed(values[open[k].slot])
      BY <1>1, <3>1
    <3> HIDE DEF k
    <3> QED
      BY <1>2, <2>1, <2>3, <3>2, <3>3
  <2>4. CASE ~(IsOpen(c) /\ cells[c].slot >= from)
    <3>1. ~\E i \in at .. Len(open) : open[i].cell = c
      BY <1>2, <1>4, <2>1, <2>4
    <3> QED
      BY <1>1, <2>4, <3>1
  <2> QED
    BY <2>3, <2>4
<1>6. Len(cells') = Len(cells)
  BY <1>1, <1>2, CloseIInv DEF IInv, TypeOK
<1> QED
  BY <1>1, <1>5, <1>6

(* A cell that closed stays closed, and one that is open keeps its slot    *)
(* until it closes on the value that slot held.                            *)
THEOREM ClosedForGoodTheorem == Spec => ClosedForGood
<1> DEFINE Kept == \A c \in 1 .. Len(cells) :
                     /\ ~IsOpen(c) => ~IsOpen(c)'
                     /\ IsOpen(c) => \/ cells'[c] = cells[c]
                                     \/ cells'[c] = Closed(values[cells[c].slot])
<1>1. ASSUME IInv, [Next]_vars
      PROVE  [Kept]_vars
  <2>1. Len(cells) \in Nat /\ cells \in Seq(Upvalue)
    BY <1>1 DEF IInv, TypeOK
  <2>2. CASE cells' = cells
    BY <2>2 DEF IsOpen
  <2>3. ASSUME NEW slot \in Slots, CaptureNew(slot) PROVE Kept
    <3>1. \A c \in 1 .. Len(cells) : cells'[c] = cells[c]
      BY <2>1, <2>3 DEF CaptureNew
    <3> QED
      BY <3>1 DEF IsOpen
  <2>4. ASSUME NEW slot \in Slots, Close(slot) PROVE Kept
    <3>1. \A c \in 1 .. Len(cells) :
            cells'[c] = IF IsOpen(c) /\ cells[c].slot >= slot
                        THEN Closed(values[cells[c].slot]) ELSE cells[c]
      BY <1>1, <2>4, CloseCells
    <3> QED
      BY <3>1 DEF IsOpen
  <2>5. ASSUME NEW d \in 1 .. Len(cells), NEW v \in Values, SetUpval(d, v) PROVE Kept
    <3>1. CASE IsOpen(d)
      BY <2>5, <3>1 DEF SetUpval, IsOpen
    <3>2. CASE ~IsOpen(d)
      <4>1. cells' = [cells EXCEPT ![d] = Closed(v)]
        BY <2>5, <3>2 DEF SetUpval
      <4>2. Closed(v).kind = "Closed"
        BY DEF Closed
      <4> QED
        BY <2>1, <3>2, <4>1, <4>2 DEF IsOpen
    <3> QED
      BY <3>1, <3>2
  <2>6. CASE UNCHANGED vars
    BY <2>6 DEF vars
  <2> QED
    BY <1>1, <2>2, <2>3, <2>4, <2>5, <2>6 DEF Next, CaptureHeld, Put, vars
<1> QED
  BY <1>1, IInvTheorem, PTL DEF Spec, ClosedForGood

-----------------------------------------------------------------------------
(* The cell a slot has is the open cell on that slot, if there is one.     *)
HoldersRight ==
  \A s \in Slots :
    /\ HolderOf(s) \in 0 .. Len(cells)
    /\ \A c \in 1 .. Len(cells) : HolderOf(s) = c <=> cells[c] = Open(s)

(* HolderOf finds the open cell on a slot whenever there is one.           *)
LEMMA HolderIs == IInv => HoldersRight
<1> SUFFICES ASSUME IInv, NEW s \in Slots
             PROVE  /\ HolderOf(s) \in 0 .. Len(cells)
                    /\ \A c \in 1 .. Len(cells) : HolderOf(s) = c <=> cells[c] = Open(s)
  BY DEF HoldersRight
<1>1. Len(open) \in Nat /\ Len(cells) \in Nat
  BY DEF IInv, TypeOK
<1>2. \A i \in 1 .. Len(open) : open[i].cell \in 1 .. Len(cells) /\ cells[open[i].cell] = Open(open[i].slot)
  BY DEF IInv, ListMatchesArena
<1>3. \A c \in 1 .. Len(cells) : cells[c] = Open(s) =>
        \E i \in 1 .. Len(open) : open[i].cell = c /\ open[i].slot = s
  <2> SUFFICES ASSUME NEW c \in 1 .. Len(cells), cells[c] = Open(s)
               PROVE  \E i \in 1 .. Len(open) : open[i].cell = c /\ open[i].slot = s
    OBVIOUS
  <2>1. IsOpen(c)
    BY DEF IsOpen, Open
  <2>2. PICK i \in 1 .. Len(open) : open[i].cell = c
    BY <2>1 DEF IInv, ListMatchesArena
  <2>3. open[i].slot = s
    BY <1>2, <2>2, OpenOnce
  <2> QED
    BY <2>2, <2>3
<1>4. CASE ~\E i \in 1 .. Len(open) : open[i].slot = s
  BY <1>1, <1>3, <1>4 DEF HolderOf
<1>5. CASE \E i \in 1 .. Len(open) : open[i].slot = s
  <2> DEFINE k == CHOOSE i \in 1 .. Len(open) : open[i].slot = s
  <2>1. k \in 1 .. Len(open) /\ open[k].slot = s
    BY <1>5
  <2>2. HolderOf(s) = open[k].cell
    BY <1>5 DEF HolderOf
  <2> HIDE DEF k
  <2>3. \A i \in 1 .. Len(open) : open[i].slot = s => i = k
    <3> SUFFICES ASSUME NEW i \in 1 .. Len(open), open[i].slot = s, i # k PROVE FALSE
      OBVIOUS
    <3>1. s \in Nat
      BY SlotsAssumption
    <3>2. i < k \/ k < i
      BY <1>1, <2>1
    <3> QED
      BY <2>1, <3>1, <3>2 DEF IInv, OpenIsSorted
  <2> QED
    BY <1>1, <1>2, <1>3, <2>1, <2>2, <2>3
<1> QED
  BY <1>4, <1>5

(* It does so after every step as well.                                    *)
LEMMA HoldersAfter == IInv /\ [Next]_vars => HoldersRight'
BY HolderIs, NextIInv, PTL

(* The number of cells stays within its bound.                             *)
LEMMA CellsBounded == Spec => [](IInv /\ Len(cells) <= MaxCells)
<1> DEFINE Few == Len(cells) <= MaxCells
<1>1. Init => Few
  BY MaxCellsAssumption DEF Init
<1>2. ASSUME IInv, Few, [Next]_vars
      PROVE  Few'
  <2>1. Len(cells) \in Nat /\ cells \in Seq(Upvalue)
    BY <1>2 DEF IInv, TypeOK
  <2>2. CASE cells' = cells
    BY <1>2, <2>2
  <2>3. ASSUME NEW slot \in Slots, CaptureNew(slot) PROVE Few'
    <3>1. cells' = Append(cells, Open(slot)) /\ Len(cells) < MaxCells
      BY <2>3 DEF CaptureNew
    <3> QED
      BY <2>1, <3>1, MaxCellsAssumption
  <2>4. ASSUME NEW slot \in Slots, Close(slot) PROVE Few'
    BY <1>2, <2>4, CloseCells
  <2>5. ASSUME NEW d \in 1 .. Len(cells), NEW v \in Values, SetUpval(d, v) PROVE Few'
    <3>1. Len(cells') = Len(cells)
      BY <2>1, <2>5 DEF SetUpval
    <3> QED
      BY <1>2, <3>1
  <2> QED
    BY <1>2, <2>2, <2>3, <2>4, <2>5 DEF Next, CaptureHeld, Put, vars
<1> QED
  BY <1>1, <1>2, InitIInv, NextIInv, PTL DEF Spec

(* Capturing a slot that no cell is open on shares it with a new cell.     *)
LEMMA CaptureNewShares ==
  ASSUME IInv, Len(cells) <= MaxCells, NEW slot \in Slots, CaptureNew(slot), HoldersRight'
  PROVE  Shared!SharedNext
<1>1. /\ Len(cells) \in Nat /\ cells \in Seq(Upvalue) /\ HoldersRight
  BY HolderIs DEF IInv, TypeOK
<1>0. PICK c \in Nat : c = Len(cells) + 1
  BY <1>1
<1> USE <1>0
<1>2. /\ cells' = Append(cells, Open(slot)) /\ Len(cells) < MaxCells
      /\ values' = values /\ \A i \in 1 .. Len(open) : open[i].slot # slot
  BY DEF CaptureNew
<1>3. /\ Len(cells') = c /\ cells'[c] = Open(slot)
      /\ \A d \in 1 .. Len(cells) : cells'[d] = cells[d]
  BY <1>1, <1>2
<1>4. HolderOf(slot) = 0
  BY <1>2 DEF HolderOf
<1>5. \A s \in Slots : HolderOf(s)' = IF s = slot THEN c ELSE HolderOf(s)
  <2> SUFFICES ASSUME NEW s \in Slots
               PROVE  HolderOf(s)' = IF s = slot THEN c ELSE HolderOf(s)
    OBVIOUS
  <2>1. /\ HolderOf(s)' \in 0 .. c
        /\ \A d \in 1 .. c : HolderOf(s)' = d <=> cells'[d] = Open(s)
    BY <1>3 DEF HoldersRight
  <2>2. /\ HolderOf(s) \in 0 .. Len(cells)
        /\ \A d \in 1 .. Len(cells) : HolderOf(s) = d <=> cells[d] = Open(s)
    BY <1>1 DEF HoldersRight
  <2>3. Open(s) = Open(slot) => s = slot
    BY DEF Open
  <2> QED
    BY <1>1, <1>3, <2>1, <2>2, <2>3
<1>6. /\ GetUpval(c)' = values[slot]
      /\ \A d \in 1 .. Len(cells) : GetUpval(d)' = GetUpval(d)
  <2>1. GetUpval(c)' = values[slot]
    <3>1. cells'[c].kind = "Open" /\ cells'[c].slot = slot
      BY <1>3 DEF Open
    <3> QED
      BY <1>2, <3>1 DEF GetUpval, IsOpen
  <2>2. \A d \in 1 .. Len(cells) : GetUpval(d)' = GetUpval(d)
    BY <1>2, <1>3 DEF GetUpval, IsOpen
  <2> QED
    BY <2>1, <2>2
<1>7. c \in (1 .. MaxCells) \ (1 .. Len(cells))
  BY <1>1, <1>2, MaxCellsAssumption
<1> DEFINE holder == [s \in Slots |-> HolderOf(s)]
           content == [d \in 1 .. Len(cells) |-> GetUpval(d)]
<1>8. [s \in Slots |-> HolderOf(s)]' = [holder EXCEPT ![slot] = c]
  BY <1>5
<1>9. [d \in 1 .. Len(cells) |-> GetUpval(d)]'
        = [d \in 1 .. Len(cells) \cup {c} |-> IF d = c THEN values[slot] ELSE content[d]]
  <2>1. 1 .. Len(cells') = 1 .. Len(cells) \cup {c}
    BY <1>1, <1>3
  <2>2. \A d \in 1 .. Len(cells) \cup {c} :
          GetUpval(d)' = IF d = c THEN values[slot] ELSE content[d]
    <3>1. c \notin 1 .. Len(cells)
      BY <1>1
    <3>2. \A d \in 1 .. Len(cells) : content[d] = GetUpval(d)
      OBVIOUS
    <3> HIDE DEF content
    <3> QED
      BY <1>6, <3>1, <3>2
  <2> HIDE DEF content
  <2> QED
    BY <2>1, <2>2
<1>10. Shared!Share(slot)
  <2>1. holder[slot] = 0 /\ DOMAIN content = 1 .. Len(cells)
    BY <1>4
  <2> DEFINE Shares(d) == /\ [s \in Slots |-> HolderOf(s)]' = [holder EXCEPT ![slot] = d]
                          /\ [e \in 1 .. Len(cells) |-> GetUpval(e)]'
                               = [e \in DOMAIN content \cup {d} |->
                                    IF e = d THEN values[slot] ELSE content[e]]
  <2>2. Shares(c)
    <3> HIDE DEF holder, content
    <3> QED
      BY <1>8, <1>9, <2>1
  <2>3. c \in (1 .. MaxCells) \ DOMAIN content
    BY <1>7, <2>1
  <2>4. \E d \in (1 .. MaxCells) \ DOMAIN content : Shares(d)
    <3> HIDE DEF Shares, content
    <3> QED
      BY <2>2, <2>3
  <2> QED
    BY <1>2, <2>1, <2>4, Zenon DEF Shared!Share
<1> QED
  BY <1>10 DEF Shared!SharedNext

(* A close parts the cells from their slots and changes nothing they read. *)
LEMMA CloseParts ==
  ASSUME IInv, NEW from \in Slots, Close(from), HoldersRight'
  PROVE  Shared!SharedNext
<1>1. /\ Len(cells) \in Nat /\ HoldersRight
  BY HolderIs DEF IInv, TypeOK
<1>2. /\ values' = values /\ Len(cells') = Len(cells)
      /\ \A c \in 1 .. Len(cells) :
           cells'[c] = IF IsOpen(c) /\ cells[c].slot >= from
                       THEN Closed(values[cells[c].slot]) ELSE cells[c]
  BY CloseCells
<1>3. \A s \in Slots : HolderOf(s)' = IF s >= from THEN 0 ELSE HolderOf(s)
  <2> SUFFICES ASSUME NEW s \in Slots
               PROVE  HolderOf(s)' = IF s >= from THEN 0 ELSE HolderOf(s)
    OBVIOUS
  <2>1. /\ HolderOf(s)' \in 0 .. Len(cells)
        /\ \A c \in 1 .. Len(cells) : HolderOf(s)' = c <=> cells'[c] = Open(s)
    BY <1>2 DEF HoldersRight
  <2>2. /\ HolderOf(s) \in 0 .. Len(cells)
        /\ \A c \in 1 .. Len(cells) : HolderOf(s) = c <=> cells[c] = Open(s)
    BY <1>1 DEF HoldersRight
  <2>3. \A c \in 1 .. Len(cells) : cells'[c] = Open(s) <=> cells[c] = Open(s) /\ ~(s >= from)
    <3> SUFFICES ASSUME NEW c \in 1 .. Len(cells)
                 PROVE  cells'[c] = Open(s) <=> cells[c] = Open(s) /\ ~(s >= from)
      OBVIOUS
    <3>1. \A v : Closed(v) # Open(s)
      BY DEF Open, Closed
    <3>2. cells[c] = Open(s) => IsOpen(c) /\ cells[c].slot = s
      BY CellIs
    <3>3. IsOpen(c) => cells[c] = Open(cells[c].slot)
      BY CellIs
    <3> QED
      BY <1>2, <3>1, <3>2, <3>3
  <2> QED
    BY <1>1, <2>1, <2>2, <2>3
<1>4. \A c \in 1 .. Len(cells) : GetUpval(c)' = GetUpval(c)
  <2> SUFFICES ASSUME NEW c \in 1 .. Len(cells) PROVE GetUpval(c)' = GetUpval(c)
    OBVIOUS
  <2>1. CASE IsOpen(c) /\ cells[c].slot >= from
    <3>1. cells'[c] = Closed(values[cells[c].slot])
      BY <1>2, <2>1
    <3> QED
      BY <2>1, <3>1 DEF GetUpval, IsOpen, Closed
  <2>2. CASE ~(IsOpen(c) /\ cells[c].slot >= from)
    BY <1>2, <2>2 DEF GetUpval, IsOpen
  <2> QED
    BY <2>1, <2>2
<1> DEFINE holder == [s \in Slots |-> HolderOf(s)]
<1>5. [s \in Slots |-> HolderOf(s)]' = [s \in Slots |-> IF s >= from THEN 0 ELSE holder[s]]
  BY <1>3
<1>6. [c \in 1 .. Len(cells) |-> GetUpval(c)]' = [c \in 1 .. Len(cells) |-> GetUpval(c)]
  BY <1>2, <1>4
<1>7. Shared!Part(from)
  BY <1>2, <1>5, <1>6 DEF Shared!Part
<1> QED
  BY <1>7 DEF Shared!SharedNext

(* A write through a cell is seen by the slot it is open on, and by no     *)
(* other.                                                                  *)
LEMMA SetUpvalWrites ==
  ASSUME IInv, Len(cells) <= MaxCells, NEW c \in 1 .. Len(cells), NEW v \in Values,
         SetUpval(c, v), HoldersRight'
  PROVE  Shared!SharedNext
<1> DEFINE holder == [s \in Slots |-> HolderOf(s)]
           content == [d \in 1 .. Len(cells) |-> GetUpval(d)]
<1>1. /\ Len(cells) \in Nat /\ cells \in Seq(Upvalue) /\ values \in [Slots -> Values]
      /\ HoldersRight
  BY HolderIs DEF IInv, TypeOK
<1>2. \A s \in Slots : HolderOf(s) = c <=> cells[c] = Open(s)
  BY <1>1 DEF HoldersRight
<1>3. open' = open
  BY DEF SetUpval
<1>4. \A s \in Slots : HolderOf(s)' = HolderOf(s)
  BY <1>3 DEF HolderOf
<1>5. [s \in Slots |-> HolderOf(s)]' = holder
  BY <1>4
<1>6. /\ Len(cells') = Len(cells)
      /\ \A d \in 1 .. Len(cells) : GetUpval(d)' = IF d = c THEN v ELSE GetUpval(d)
      /\ values' = [s \in Slots |-> IF holder[s] = c THEN v ELSE values[s]]
  <2>1. CASE IsOpen(c)
    <3> DEFINE slot == cells[c].slot
    <3>1. /\ cells' = cells /\ values' = [values EXCEPT ![slot] = v]
          /\ slot \in Slots /\ cells[c] = Open(slot)
      BY <2>1, CellIs DEF SetUpval
    <3> HIDE DEF slot
    <3>2. \A s \in Slots : holder[s] = c <=> s = slot
      BY <1>2, <3>1, OpenOnce
    <3>3. \A d \in 1 .. Len(cells) : IsOpen(d) /\ d # c => cells[d].slot \in Slots /\ cells[d].slot # slot
      <4> SUFFICES ASSUME NEW d \in 1 .. Len(cells), IsOpen(d), d # c
                   PROVE  cells[d].slot \in Slots /\ cells[d].slot # slot
        OBVIOUS
      <4>1. cells[d].slot \in Slots /\ cells[d] = Open(cells[d].slot)
        BY CellIs
      <4>2. HolderOf(cells[d].slot) = d
        BY <1>1, <4>1 DEF HoldersRight
      <4>3. HolderOf(slot) = c
        BY <1>2, <3>1
      <4> QED
        BY <4>1, <4>2, <4>3
    <3>4. \A d \in 1 .. Len(cells) : GetUpval(d)' = IF d = c THEN v ELSE GetUpval(d)
      BY <1>1, <2>1, <3>1, <3>3 DEF GetUpval, IsOpen, slot
    <3>5. values' = [s \in Slots |-> IF holder[s] = c THEN v ELSE values[s]]
      BY <1>1, <3>1, <3>2
    <3> QED
      BY <3>1, <3>4, <3>5
  <2>2. CASE ~IsOpen(c)
    <3>1. cells' = [cells EXCEPT ![c] = Closed(v)] /\ values' = values
      BY <2>2 DEF SetUpval
    <3>2. /\ Len(cells') = Len(cells) /\ cells'[c] = Closed(v)
          /\ \A d \in 1 .. Len(cells) : d # c => cells'[d] = cells[d]
      BY <1>1, <3>1
    <3>3. \A s \in Slots : holder[s] # c
      BY <1>2, <2>2, CellIs
    <3>4. \A d \in 1 .. Len(cells) : GetUpval(d)' = IF d = c THEN v ELSE GetUpval(d)
      BY <3>1, <3>2 DEF GetUpval, IsOpen, Closed
    <3>5. values' = [s \in Slots |-> IF holder[s] = c THEN v ELSE values[s]]
      BY <1>1, <3>1, <3>3
    <3> QED
      BY <3>2, <3>4, <3>5
  <2> QED
    BY <2>1, <2>2
<1>7. [d \in 1 .. Len(cells) |-> GetUpval(d)]' = [content EXCEPT ![c] = v]
  BY <1>6
<1>8. c \in 1 .. MaxCells
  BY <1>1, MaxCellsAssumption
<1>9. Shared!WriteShared(c, v)
  <2>1. c \in DOMAIN content
    OBVIOUS
  <2> QED
    BY <1>5, <1>6, <1>7, <2>1 DEF Shared!WriteShared
<1> QED
  BY <1>8, <1>9 DEF Shared!SharedNext

(* A write to a slot is seen by the cell that is open on it.               *)
LEMMA PutWrites ==
  ASSUME IInv, NEW slot \in Slots, NEW v \in Values, Put(slot, v)
  PROVE  Shared!SharedNext
<1> DEFINE holder == [s \in Slots |-> HolderOf(s)]
           content == [d \in 1 .. Len(cells) |-> GetUpval(d)]
<1>1. /\ Len(cells) \in Nat /\ values \in [Slots -> Values] /\ HoldersRight
  BY HolderIs DEF IInv, TypeOK
<1>2. values' = [values EXCEPT ![slot] = v] /\ open' = open /\ cells' = cells
  BY DEF Put
<1>3. \A s \in Slots : HolderOf(s)' = HolderOf(s)
  BY <1>2 DEF HolderOf
<1>4. \A d \in 1 .. Len(cells) : GetUpval(d)' = IF holder[slot] = d THEN v ELSE content[d]
  <2> SUFFICES ASSUME NEW d \in 1 .. Len(cells)
               PROVE  GetUpval(d)' = IF HolderOf(slot) = d THEN v ELSE GetUpval(d)
    OBVIOUS
  <2>1. HolderOf(slot) = d <=> cells[d] = Open(slot)
    BY <1>1 DEF HoldersRight
  <2>2. CASE IsOpen(d)
    <3>1. cells[d].slot \in Slots /\ cells[d] = Open(cells[d].slot)
      BY <2>2, CellIs
    <3>2. cells[d] = Open(slot) <=> cells[d].slot = slot
      BY <3>1 DEF Open
    <3> QED
      BY <1>1, <1>2, <2>1, <2>2, <3>1, <3>2 DEF GetUpval, IsOpen
  <2>3. CASE ~IsOpen(d)
    <3>1. cells[d] # Open(slot)
      BY <2>3, CellIs
    <3> QED
      BY <1>2, <2>1, <2>3, <3>1 DEF GetUpval, IsOpen
  <2> QED
    BY <2>2, <2>3
<1>5. [s \in Slots |-> HolderOf(s)]' = holder
  BY <1>3
<1>6. [d \in 1 .. Len(cells) |-> GetUpval(d)]'
        = [d \in DOMAIN content |-> IF holder[slot] = d THEN v ELSE content[d]]
  <2>1. DOMAIN content = 1 .. Len(cells)
    OBVIOUS
  <2> HIDE DEF holder, content
  <2> QED
    BY <1>2, <1>4, <2>1
<1>7. Shared!WriteLocal(slot, v)
  BY <1>2, <1>5, <1>6 DEF Shared!WriteLocal
<1> QED
  BY <1>7 DEF Shared!SharedNext

(* A captured slot and its cell are one variable, before and after the     *)
(* slot goes away: whatever is captured, written and closed in whatever    *)
(* order, closing changes no value that a closure can read.                *)
THEOREM ImplementsSharedVariablesTheorem == Spec => ImplementsSharedVariables
<1>1. Init => Shared!SharedInit
  <2> SUFFICES ASSUME Init PROVE Shared!SharedInit
    OBVIOUS
  <2>1. \A s \in Slots : HolderOf(s) = 0
    <3>1. ~\E i \in 1 .. Len(open) : TRUE
      BY DEF Init
    <3> QED
      BY <3>1 DEF HolderOf
  <2>2. 1 .. Len(cells) = {}
    BY DEF Init
  <2>3. values \in [Slots -> Values]
    BY NilAssumption DEF Init
  <2> QED
    BY <2>1, <2>2, <2>3 DEF Shared!SharedInit
<1>2. IInv /\ Len(cells) <= MaxCells /\ [Next]_vars => [Shared!SharedNext]_(Shared!sharedVars)
  <2> SUFFICES ASSUME IInv, Len(cells) <= MaxCells, [Next]_vars
               PROVE  [Shared!SharedNext]_(Shared!sharedVars)
    OBVIOUS
  <2>1. HoldersRight'
    BY HoldersAfter
  <2>2. CASE UNCHANGED vars
    BY <2>2 DEF vars, Shared!sharedVars, HolderOf, GetUpval, IsOpen
  <2>3. ASSUME NEW slot \in Slots, CaptureNew(slot) PROVE Shared!SharedNext
    BY <2>1, <2>3, CaptureNewShares
  <2>4. ASSUME NEW slot \in Slots, Close(slot) PROVE Shared!SharedNext
    BY <2>1, <2>4, CloseParts
  <2>5. ASSUME NEW c \in 1 .. Len(cells), NEW v \in Values, SetUpval(c, v)
        PROVE  Shared!SharedNext
    BY <2>1, <2>5, SetUpvalWrites
  <2>6. ASSUME NEW slot \in Slots, NEW v \in Values, Put(slot, v) PROVE Shared!SharedNext
    BY <2>6, PutWrites
  <2> QED
    BY <2>2, <2>3, <2>4, <2>5, <2>6 DEF Next, CaptureHeld
<1> QED
  BY <1>1, <1>2, CellsBounded, PTL DEF Spec, ImplementsSharedVariables, Shared!SharedSpec
==============================================================================
