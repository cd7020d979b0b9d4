--------------------------------- MODULE Emit ---------------------------------
(***************************************************************************)
(* The blocks of an allocated function laid out end to end as bytes        *)
(* (emit/chunk.rs, instr.rs and pool.rs).                                  *)
(*                                                                         *)
(* Like the passes of RegAlloc these are operators.  What is being written *)
(* is a record:                                                            *)
(*   code    : the bytes so far                                            *)
(*   lines   : the line table so far                                       *)
(*   pool    : the constants named so far                                  *)
(*   starts  : where each block begins                                     *)
(*   spots   : for each block where each instruction of it begins, and     *)
(*             where the block ends                                        *)
(*   waiting : the jumps to correct, <<pc, block>>                         *)
(*   made    : <<pc, id>> for each instruction, which only the comparison  *)
(*             with the lowered function uses                              *)
(* Which of the unary and binary operators one is, and how much room a     *)
(* table is made with, are not told apart.                                 *)
(***************************************************************************)
EXTENDS RegAlloc, Bytecode

(* Pool::intern; the constant is then at Index_.                           *)
Interned(pool, value) == IF value \in ToSet(pool) THEN pool ELSE Append(pool, value)
Index_(pool, value) == (CHOOSE k \in 1 .. Len(pool) : pool[k] = value) - 1
IsPooled(i) == i.kind = "Const" /\ i.value # 0

(* Where a row begins: with its first value, or where the open row before  *)
(* it was left, or nowhere.                                                *)
RowStart(values, before) ==
  IF values # <<>> THEN values[1] ELSE IF before.multi THEN before.dests[1] ELSE 0
First(dests) == IF dests = <<>> THEN 0 ELSE dests[1]
CountOf(i) == IF i.multi THEN MULTI ELSE Len(i.dests)

PlainOp(i, before, pool) ==
  CASE i.kind = "Const" ->
         IF IsPooled(i) THEN Op("LoadConst", <<i.dests[1], Index_(pool, i.value)>>)
         ELSE Op("LoadNil", i.dests)
    [] i.kind = "GetUpval" -> Op("GetUpval", <<i.dests[1], 0>>)
    [] i.kind = "Vararg" -> Op("Vararg", <<First(i.dests), CountOf(i)>>)
    [] i.kind = "NewTable" -> Op("NewTable", <<i.dests[1], 0, 0>>)
    [] i.kind = "SetList" ->
         IF i.spread THEN Op("SetListSpread", <<i.uses[1], RowStart(i.row, before), i.value>>)
         ELSE Op("SetList", <<i.uses[1], RowStart(i.row, before), Len(i.row), i.value>>)
    [] i.kind = "Call" ->
         Op("Call", <<i.row[1], IF i.spread THEN MULTI ELSE Len(i.row) - 1, CountOf(i)>>)
    [] i.kind = "Unary" -> Op("Not", i.dests \o i.uses)
    [] i.kind = "Binary" -> Op("Eq", i.dests \o i.uses)
    [] i.kind \in {"Move", "Index", "SetIndex"} -> Op(i.kind, i.dests \o i.uses)

LeavingOp(i, before) ==
  CASE i.kind = "Return" ->
         Op("Return", <<RowStart(i.row, before), IF i.spread THEN MULTI ELSE Len(i.row)>>)
    [] i.kind = "TailCall" ->
         Op("TailCall", <<i.row[1], IF i.spread THEN MULTI ELSE Len(i.row) - 1>>)

(* tail: what ends a block, as instructions and the block each jumps to, 0 *)
(* for none.  What comes next in the stream needs no jump.                 *)
Jump(to) == <<Op("Jump", <<0>>), to>>
JumpUnlessNext(to, next) == IF to = next THEN <<>> ELSE <<Jump(to)>>
Turn(name, reg, to) == <<Op(name, <<reg, 0>>), to>>

(* Mutant: what follows is taken for the block jumped to if true.          *)
TailOps_Swapped(i, before, next) ==
  CASE i.kind = "Jump" -> JumpUnlessNext(i.to[1], next)
    [] i.kind = "Branch" ->
         IF next = i.to[1] THEN <<Turn("JumpIfTrue", i.uses[1], i.to[1])>>
         ELSE IF next = i.to[2] THEN <<Turn("JumpIfFalse", i.uses[1], i.to[2])>>
         ELSE <<Turn("JumpIfTrue", i.uses[1], i.to[1]), Jump(i.to[2])>>
    [] i.kind = "ForPrep" -> <<Turn(i.kind, i.uses[1], i.to[2])>> \o JumpUnlessNext(i.to[1], next)
    [] i.kind = "ForLoop" -> <<Turn(i.kind, i.uses[1], i.to[1])>> \o JumpUnlessNext(i.to[2], next)
    [] i.kind \in {"Return", "TailCall"} -> << <<LeavingOp(i, before), 0>> >>

TailOps(i, before, next) ==
  CASE i.kind = "Jump" -> JumpUnlessNext(i.to[1], next)
    [] i.kind = "Branch" ->
         IF next = i.to[2] THEN <<Turn("JumpIfTrue", i.uses[1], i.to[1])>>
         ELSE IF next = i.to[1] THEN <<Turn("JumpIfFalse", i.uses[1], i.to[2])>>
         ELSE <<Turn("JumpIfTrue", i.uses[1], i.to[1]), Jump(i.to[2])>>
    [] i.kind = "ForPrep" -> <<Turn(i.kind, i.uses[1], i.to[2])>> \o JumpUnlessNext(i.to[1], next)
    [] i.kind = "ForLoop" -> <<Turn(i.kind, i.uses[1], i.to[1])>> \o JumpUnlessNext(i.to[2], next)
    [] i.kind \in {"Return", "TailCall"} -> << <<LeavingOp(i, before), 0>> >>

-----------------------------------------------------------------------------
Pc(w) == Len(w.code)

Written_(w, i, op, target) ==
  [w EXCEPT !.code = @ \o Encode(op),
            !.lines = WithLine(@, Pc(w), i.line),
            !.made = Append(@, <<Pc(w), i.id>>),
            !.waiting = IF target = 0 THEN @ ELSE Append(@, <<Pc(w), target>>)]

WrittenAll(w, i, ops) ==
  LET step[n \in 0 .. Len(ops)] == IF n = 0 THEN w ELSE Written_(step[n - 1], i, ops[n][1], ops[n][2])
  IN  step[Len(ops)]

WrittenPlain(w, i, before) == Written_(w, i, PlainOp(i, before, w.pool), 0)
Pooled(w, i) == IF IsPooled(i) THEN [w EXCEPT !.pool = Interned(@, i.value)] ELSE w

(* One instruction: every one but the last of a block is exactly one.      *)
WrittenInstr(w, block, k, before, next) ==
  IF k < Len(block) THEN WrittenPlain(Pooled(w, block[k]), block[k], before)
  ELSE WrittenAll(w, block[k], TailOps(block[k], before, next))

NothingBefore == Instr("Jump", <<>>, <<>>, <<>>)

Began(w) == [w |-> [w EXCEPT !.starts = Append(@, Pc(w))], here |-> <<>>]
WithInstr(s, block, k, next) ==
  [w |-> WrittenInstr(s.w, block, k, IF k = 1 THEN NothingBefore ELSE block[k - 1], next),
   here |-> Append(s.here, Pc(s.w))]
Ended(s) == [s.w EXCEPT !.spots = Append(@, Append(s.here, Pc(s.w)))]
WrittenBlock(w, block, next) ==
  LET step[k \in 0 .. Len(block)] ==
        IF k = 0 THEN Began(w) ELSE WithInstr(step[k - 1], block, k, next)
  IN  Ended(step[Len(block)])

Nothing == [code |-> <<>>, lines |-> <<>>, pool |-> <<>>, starts |-> <<>>, spots |-> <<>>,
            waiting |-> <<>>, made |-> <<>>]
WrittenBlocks(blocks) ==
  LET step[b \in 0 .. Len(blocks)] ==
        IF b = 0 THEN Nothing
        ELSE WrittenBlock(step[b - 1], blocks[b], IF b < Len(blocks) THEN b + 1 ELSE 0)
  IN  step[Len(blocks)]

(* Every block's beginning is known: the jumps get their displacements.    *)
Patched(w) ==
  LET step[n \in 0 .. Len(w.waiting)] ==
        IF n = 0 THEN w.code
        ELSE PatchJump(step[n - 1], w.waiting[n][1], w.starts[w.waiting[n][2]])
  IN  [w EXCEPT !.code = step[Len(w.waiting)]]
Assembled(blocks) == Patched(WrittenBlocks(blocks))

Spot(w, position) == w.spots[position[1]][position[2]]

(* prototype: the locals, but those without a name and those whose scope   *)
(* no pc is in.                                                            *)
RangeOf(w, slot) ==
  [register |-> slot.reg, startPc |-> Spot(w, slot.enters), endPc |-> Spot(w, slot.leaves)]
Locals(w, slots) ==
  LET range == [n \in 1 .. Len(slots) |-> RangeOf(w, slots[n])]
  IN  [n \in {m \in 1 .. Len(slots) : slots[m].named /\ range[m].startPc <= range[m].endPc} |-> range[n]]
===============================================================================
