------------------------------ MODULE OpenList ------------------------------
(***************************************************************************)
(* The list of upvalues that still point into the value stack              *)
(* (vm/state.rs: Vm.open, capture, close; heap/function.rs: Upvalue).      *)
(*                                                                         *)
(* `open` is a vector of (slot, cell) pairs kept in slot order.  capture   *)
(* finds a slot by binary search and inserts at the place the search       *)
(* answers; close cuts the vector at a partition point and moves each      *)
(* slot's value into its cell.  Both are right only while the order holds. *)
(***************************************************************************)
EXTENDS Naturals, Sequences

CONSTANTS
  Slots,      (* the stack slots in play                             *)
  Values,     (* what a slot or a closed cell may hold               *)
  Nil,        (* what a fresh slot holds                             *)
  MaxCells    (* bound: how many cells are ever made (never freed)   *)

ASSUME SlotsAssumption == Slots \subseteq Nat
ASSUME NilAssumption == Nil \in Values
ASSUME MaxCellsAssumption == MaxCells \in Nat

VARIABLES
  values,     (* the value stack                                     *)
  open,       (* Vm.open: the cells that are open, ordered by slot   *)
  cells       (* the upvalue arena, a cell's handle is its index     *)

vars == <<values, open, cells>>

(* Upvalue::Open and Upvalue::Closed.                                      *)
Open(slot) == [kind |-> "Open", slot |-> slot]
Closed(value) == [kind |-> "Closed", value |-> value]
Upvalue == {Open(s) : s \in Slots} \cup {Closed(v) : v \in Values}

IsOpen(c) == cells[c].kind = "Open"

(* Where a slice ordered by slot splits into below `from` and not below.   *)
PartitionPoint(from, at) ==
  /\ at \in 1 .. Len(open) + 1
  /\ \A i \in 1 .. Len(open) : i < at <=> open[i].slot < from

(* Vec::insert.                                                            *)
Inserted(seq, at, e) ==
  [i \in 1 .. Len(seq) + 1 |->
     IF i < at THEN seq[i] ELSE IF i = at THEN e ELSE seq[i - 1]]

Init ==
  /\ values = [s \in Slots |-> Nil]
  /\ open = <<>>
  /\ cells = <<>>

(***************************************************************************)
(* capture(slot): the cell already there, or a new one put where the       *)
(* search says the slot belongs.                                           *)
(***************************************************************************)
CaptureHeld(slot) ==
  /\ \E i \in 1 .. Len(open) : open[i].slot = slot
  /\ UNCHANGED vars

(* Mutant: pushes at the end, wherever the slot belongs.                   *)
CaptureNew_Pushes(slot) ==
  /\ \A i \in 1 .. Len(open) : open[i].slot # slot
  /\ Len(cells) < MaxCells
  /\ open' = Append(open, [slot |-> slot, cell |-> Len(cells) + 1])
  /\ cells' = Append(cells, Open(slot))
  /\ UNCHANGED values

CaptureNew(slot) ==
  /\ \A i \in 1 .. Len(open) : open[i].slot # slot
  /\ Len(cells) < MaxCells
  /\ \E at \in 1 .. Len(open) + 1 :
       /\ PartitionPoint(slot, at)
       /\ open' = Inserted(open, at, [slot |-> slot, cell |-> Len(cells) + 1])
  /\ cells' = Append(cells, Open(slot))
  /\ UNCHANGED values

(* Mutants: drops the entries and leaves their cells open; closes on nil;  *)
(* keeps the slot where the value belongs.                                 *)
CloseWith(from, closed(_, _)) ==
  \E at \in 1 .. Len(open) + 1 :
    /\ PartitionPoint(from, at)
    /\ cells' = [c \in 1 .. Len(cells) |->
                   IF \E i \in at .. Len(open) : open[i].cell = c
                   THEN closed(c, cells[c].slot) ELSE cells[c]]
    /\ open' = SubSeq(open, 1, at - 1)
    /\ UNCHANGED values
Close_LeavesOpen(from) == CloseWith(from, LAMBDA c, s : cells[c])
Close_OnNil(from) == CloseWith(from, LAMBDA c, s : Closed(Nil))
Close_OnSlot(from) == CloseWith(from, LAMBDA c, s : Closed(s))

(* close(from): split off what is at or above `from`, closing each.        *)
Close(from) ==
  \E at \in 1 .. Len(open) + 1 :
    /\ PartitionPoint(from, at)
    /\ cells' = [c \in 1 .. Len(cells) |->
                   IF \E i \in at .. Len(open) : open[i].cell = c
                   THEN LET i == CHOOSE j \in at .. Len(open) : open[j].cell = c
                        IN  Closed(values[open[i].slot])
                   ELSE cells[c]]
    /\ open' = SubSeq(open, 1, at - 1)
    /\ UNCHANGED values

(* Mutant: a write through an upvalue closes it.                           *)
SetUpval_Detaches(c, value) ==
  /\ cells' = [cells EXCEPT ![c] = Closed(value)]
  /\ open' = SelectSeq(open, LAMBDA entry : entry.cell # c)
  /\ UNCHANGED values

(* SetUpval: through an open cell into the slot, otherwise into the cell.  *)
SetUpval(c, value) ==
  /\ IF IsOpen(c)
     THEN /\ values' = [values EXCEPT ![cells[c].slot] = value]
          /\ UNCHANGED cells
     ELSE /\ cells' = [cells EXCEPT ![c] = Closed(value)]
          /\ UNCHANGED values
  /\ UNCHANGED open

(* GetUpval: what the running closure reads through cell c.                *)
GetUpval(c) == IF IsOpen(c) THEN values[cells[c].slot] ELSE cells[c].value

(* Any instruction that writes a register.                                 *)
Put(slot, value) ==
  /\ values' = [values EXCEPT ![slot] = value]
  /\ UNCHANGED <<open, cells>>

Next ==
  \/ \E slot \in Slots : CaptureHeld(slot) \/ CaptureNew(slot) \/ Close(slot)
  \/ \E c \in 1 .. Len(cells), value \in Values : SetUpval(c, value)
  \/ \E slot \in Slots, value \in Values : Put(slot, value)

Spec == Init /\ [][Next]_vars

-----------------------------------------------------------------------------
TypeOK ==
  /\ values \in [Slots -> Values]
  /\ open \in Seq([slot : Slots, cell : Nat])
  /\ cells \in Seq(Upvalue)

(* The vector is strictly ordered by slot: the searches of capture and     *)
(* close find what they look for, and no slot has two cells.               *)
OpenIsSorted ==
  \A i, j \in 1 .. Len(open) : i < j => open[i].slot < open[j].slot

(* The vector and the arena agree: exactly the open cells are listed, each *)
(* under the slot it points at.  A cell that stayed open without being     *)
(* listed would follow the slot for ever, whatever was put there next.     *)
ListMatchesArena ==
  /\ \A i \in 1 .. Len(open) :
       /\ open[i].cell \in 1 .. Len(cells)
       /\ cells[open[i].cell] = Open(open[i].slot)
  /\ \A c \in 1 .. Len(cells) :
       IsOpen(c) => \E i \in 1 .. Len(open) : open[i].cell = c

(* A cell that closed stays closed, and one that is open keeps its slot    *)
(* until it closes on the value that slot held.                            *)
ClosedForGood ==
  [][\A c \in 1 .. Len(cells) :
       /\ ~IsOpen(c) => ~IsOpen(c)'
       /\ IsOpen(c) => \/ cells'[c] = cells[c]
                       \/ cells'[c] = Closed(values[cells[c].slot])]_vars

(* The slot and the cell are one variable, before and after it closes: the *)
(* list implements SharedVariables.                                        *)
HolderOf(s) ==
  IF \E i \in 1 .. Len(open) : open[i].slot = s
  THEN open[CHOOSE i \in 1 .. Len(open) : open[i].slot = s].cell
  ELSE 0

Shared == INSTANCE SharedVariables WITH
  Cells <- 1 .. MaxCells, NoCell <- 0,
  local <- values,
  holder <- [s \in Slots |-> HolderOf(s)],
  content <- [c \in 1 .. Len(cells) |-> GetUpval(c)]

ImplementsSharedVariables == Shared!SharedSpec
==============================================================================
