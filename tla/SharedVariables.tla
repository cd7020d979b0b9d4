--------------------------- MODULE SharedVariables ---------------------------
(***************************************************************************)
(* What a captured local promises.  A local lives in a stack slot.  Once a *)
(* closure captures it, a cell stands for it, and reading the cell and     *)
(* reading the slot is reading one variable.  When the slot goes away the  *)
(* cell keeps the variable: closing changes no value that can be read.     *)
(***************************************************************************)
EXTENDS Naturals

CONSTANTS
  Slots,    (* the stack slots, natural numbers *)
  Values,   (* what a slot or a cell may hold   *)
  Cells,    (* the names of cells               *)
  NoCell    (* a slot nothing has captured      *)

VARIABLES
  local,    (* slot -> its value                                         *)
  holder,   (* slot -> the cell that captured it, or NoCell              *)
  content   (* a made cell -> the value of the variable it stands for    *)

sharedVars == <<local, holder, content>>

SharedInit ==
  /\ local \in [Slots -> Values]
  /\ holder = [s \in Slots |-> NoCell]
  /\ content = [c \in {} |-> NoCell]

(* Capturing twice answers with the same cell, so both closures share.     *)
Share(s) ==
  /\ holder[s] = NoCell
  /\ \E c \in Cells \ DOMAIN content :
       /\ holder' = [holder EXCEPT ![s] = c]
       /\ content' = [d \in DOMAIN content \cup {c} |->
                        IF d = c THEN local[s] ELSE content[d]]
  /\ UNCHANGED local

(* A write through the slot is seen by whoever holds the cell.             *)
WriteLocal(s, v) ==
  /\ local' = [local EXCEPT ![s] = v]
  /\ content' = [c \in DOMAIN content |->
                   IF holder[s] = c THEN v ELSE content[c]]
  /\ UNCHANGED holder

(* A write through the cell is seen by the frame, while the slot is there. *)
WriteShared(c, v) ==
  /\ c \in DOMAIN content
  /\ content' = [content EXCEPT ![c] = v]
  /\ local' = [s \in Slots |-> IF holder[s] = c THEN v ELSE local[s]]
  /\ UNCHANGED holder

(* The slots from `from` up go away; the variables do not.                 *)
Part(from) ==
  /\ holder' = [s \in Slots |-> IF s >= from THEN NoCell ELSE holder[s]]
  /\ UNCHANGED <<local, content>>

SharedNext ==
  \/ \E s \in Slots : Share(s)
  \/ \E s \in Slots, v \in Values : WriteLocal(s, v)
  \/ \E c \in Cells, v \in Values : WriteShared(c, v)
  \/ \E from \in Slots : Part(from)

SharedSpec == SharedInit /\ [][SharedNext]_sharedVars
==============================================================================
