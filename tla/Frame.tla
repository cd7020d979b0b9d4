--------------------------------- MODULE Frame --------------------------------
(***************************************************************************)
(* A function lowered, fitted into its frame, written as bytes, and then   *)
(* run twice in step: over the virtual registers the lowering chose, and   *)
(* as the machine runs it, decoding the bytes at its pc over the registers *)
(* of the frame, where a call's own frame and an open row overwrite        *)
(* everything above where they begin.  A value is known by the instruction *)
(* that made it and the lap it was made on, so a stale one is told apart.  *)
(* One value stands for all of an open row.                                *)
(***************************************************************************)
EXTENDS Lowering, Emit

VARIABLES
  frame,    (* the prototype: its instructions by pc, constants, locals     *)
            (* and registers, and the declarations allocate answered        *)
  at,       (* where the lowered function is, <<block, instruction>>        *)
  pc,       (* where the machine is                                         *)
  virtual,  (* what each virtual register holds                             *)
  held,     (* what each register of the frame holds                        *)
  top,      (* Frame.top: where an open row ends, if there is one           *)
  pending,  (* the open row the lowered instruction before left             *)
  lap       (* turned over whenever control goes back                       *)

runVars == <<at, pc, virtual, held, top, pending, lap>>
vars == <<lowerVars, frame, runVars>>

Junk == <<0, 0, 0>>
Given(n) == <<-1, n, 0>>
Made(i, k) == <<i.id, k, lap>>

FrameInit ==
  /\ Init
  /\ frame = <<>>
  /\ at = <<>> /\ pc = 0 /\ virtual = <<>> /\ held = <<>>
  /\ top = 0 /\ pending = Junk /\ lap = 0

Lowers == Lower /\ UNCHANGED <<frame, runVars>>

-----------------------------------------------------------------------------
(* Code::of: the instructions one after the other, each with its line.     *)
DecodedNext(w, instrs) ==
  Append(instrs, Decode(w.code, IF instrs = <<>> THEN 0 ELSE Last(instrs).next))
Decoded(w) ==
  LET step[n \in 0 .. Len(w.made)] == IF n = 0 THEN <<>> ELSE DecodedNext(w, step[n - 1])
  IN  step[Len(w.made)]
Known(w, instr) ==
  [op |-> instr.op, next |-> instr.next, line |-> LineAt(w.lines, instr.next - 1),
   id |-> (CHOOSE m \in ToSet(w.made) : m[1] = instr.pc)[2]]
ByPc(w, instrs) ==
  [p \in {instrs[n].pc : n \in 1 .. Len(instrs)} |->
     Known(w, CHOOSE instr \in ToSet(instrs) : instr.pc = p)]

Prototype(done, w) ==
  [ops |-> ByPc(w, Decoded(w)), pool |-> w.pool, locals |-> Locals(w, done.slots),
   slots |-> done.slots, regs |-> done.regs]

(* allocate and emit; the parameters arrive in the first registers.        *)
Allocates ==
  /\ todo = <<>> /\ frame = <<>>
  /\ \E done \in {Allocate(blocks, slots, regs)} :
       /\ \E w \in {Assembled(done.blocks)} : frame' = Prototype(done, w)
       /\ held' = [r \in 0 .. done.regs - 1 |-> IF r < Params THEN Given(r) ELSE Junk]
       /\ top' = done.regs
  /\ virtual' = [r \in 0 .. regs - 1 |-> IF r < Params THEN Given(r) ELSE Junk]
  /\ at' = <<1, 1>>
  /\ UNCHANGED <<lowerVars, pc, pending, lap>>

-----------------------------------------------------------------------------
(* What each instruction does to the registers of the frame (step).        *)
UpTo(from, count, extra) == Consecutive(from, IF count = MULTI THEN top - from ELSE count + extra)

ReadBy(op) ==
  LET a == op.args
  IN  CASE op.name \in {"Move", "Not"} -> <<a[2]>>
        [] op.name \in {"Index", "Eq"} -> <<a[2], a[3]>>
        [] op.name = "SetIndex" -> a
        [] op.name = "SetList" -> <<a[1]>> \o UpTo(a[2], a[3], 0)
        [] op.name = "SetListSpread" -> <<a[1]>> \o UpTo(a[2], MULTI, 0)
        [] op.name \in {"Call", "TailCall"} -> UpTo(a[1], a[2], 1)
        [] op.name = "Return" -> UpTo(a[1], a[2], 0)
        [] op.name \in {"JumpIfTrue", "JumpIfFalse"} -> <<a[1]>>
        [] op.name \in {"ForPrep", "ForLoop"} -> Consecutive(a[1], 3)
        [] OTHER -> <<>>

LeavesOpen(op) == op.name \in {"Call", "Vararg"} /\ Last(op.args) = MULTI
TakesOpen(op) == op.name \in {"SetListSpread", "Call"}

WrittenBy(op, taken) ==
  LET a == op.args
      results(n) == Consecutive(a[1], IF n = MULTI THEN 1 ELSE n)
  IN  CASE op.name = "Call" -> results(a[3])
        [] op.name = "Vararg" -> results(a[2])
        [] op.name \in {"ForPrep", "ForLoop"} ->
             IF taken THEN <<a[1], a[1] + 1, a[1] + 3>> ELSE <<>>
        [] op.name \in {"LoadNil", "LoadConst", "Move", "GetUpval", "NewTable", "Index", "Not", "Eq"} ->
             <<a[1]>>
        [] OTHER -> <<>>

(* From where on nothing that was there is left: a call's frame begins at  *)
(* the callee, and there may be any number of values in an open row.       *)
Overwrites(op, r) ==
  \/ op.name = "Call" /\ r >= op.args[1]
  \/ op.name = "Vararg" /\ op.args[2] = MULTI /\ r >= op.args[1]

Put(values, regs_, new(_)) ==
  [r \in DOMAIN values |->
     IF r \in ToSet(regs_) THEN new(CHOOSE k \in 1 .. Len(regs_) : regs_[k] = r) ELSE values[r]]
Cleared(values, op) == [r \in DOMAIN values |-> IF Overwrites(op, r) THEN Junk ELSE values[r]]

-----------------------------------------------------------------------------
Running == frame # <<>> /\ at # <<>>
Here == blocks[at[1]][at[2]]
Now == frame.ops[pc]

(* Control goes on to another block; back if that one was made before.     *)
GoesTo(b) ==
  /\ at' = <<b, 1>>
  /\ lap' = IF b <= at[1] THEN 1 - lap ELSE lap

(* A jump of the lowered function, for which there may be nothing to run.  *)
LoweredJump ==
  /\ Running /\ Here.kind = "Jump"
  /\ GoesTo(Here.to[1])
  /\ UNCHANGED <<lowerVars, frame, pc, virtual, held, top, pending>>

(* A jump of the machine, and a move into or out of a row, neither of      *)
(* which the lowered function has.                                         *)
MachineJump ==
  /\ Running /\ Here.kind # "Jump" /\ pc \in DOMAIN frame.ops /\ Now.op.name = "Jump"
  /\ pc' = Lands(Now)
  /\ UNCHANGED <<lowerVars, frame, at, virtual, held, top, pending, lap>>

MachineMove ==
  /\ Running /\ Here.kind # "Jump" /\ pc \in DOMAIN frame.ops
  /\ Now.op.name = "Move" /\ Now.id = 0
  /\ held' = [held EXCEPT ![Now.op.args[1]] = held[Now.op.args[2]]]
  /\ pc' = Now.next
  /\ UNCHANGED <<lowerVars, frame, at, virtual, top, pending, lap>>

(* Both are where something is done that both do.                          *)
Abreast ==
  Running /\ Here.kind # "Jump" /\ (pc \in DOMAIN frame.ops => Now.op.name # "Jump" /\ Now.id # 0)

Jumping(op, taken) ==
  \/ op.name \in {"JumpIfTrue", "ForLoop"} /\ taken
  \/ op.name \in {"JumpIfFalse", "ForPrep"} /\ ~taken

(* What the lowered instruction writes: a loop also counts down its limit. *)
Writes(i, taken) ==
  IF i.kind \in {"ForPrep", "ForLoop"}
  THEN IF taken THEN <<i.dests[1], i.uses[2], i.dests[2]>> ELSE <<>>
  ELSE i.dests

Leaves ==
  /\ Abreast /\ Here.kind \in {"Return", "TailCall"}
  /\ at' = <<>> /\ pc' = 0 /\ virtual' = <<>> /\ held' = <<>>
  /\ top' = 0 /\ pending' = Junk /\ lap' = 0
  /\ UNCHANGED <<lowerVars, frame>>

Executes ==
  /\ Abreast /\ Here.kind \notin {"Return", "TailCall"}
  /\ \E taken \in IF Here.to = <<>> THEN {TRUE} ELSE BOOLEAN :
       /\ virtual' = Put(virtual, Writes(Here, taken),
                         LAMBDA k : IF Here.kind = "Move" THEN virtual[Here.uses[1]] ELSE Made(Here, k))
       /\ held' = Put(Cleared(held, Now.op), WrittenBy(Now.op, taken),
                      LAMBDA k : IF Now.op.name = "Move" THEN held[Now.op.args[2]] ELSE Made(Now, k))
       /\ pc' = IF Jumping(Now.op, taken) THEN Lands(Now) ELSE Now.next
       /\ IF Here.to = <<>> THEN at' = [at EXCEPT ![2] = @ + 1] /\ UNCHANGED lap
          ELSE GoesTo(Here.to[IF taken THEN 1 ELSE 2])
  /\ pending' = IF Here.multi THEN Made(Here, 1) ELSE Junk
  /\ top' = IF LeavesOpen(Now.op) THEN Now.op.args[1] + 1
            ELSE IF TakesOpen(Now.op) THEN frame.regs ELSE top
  /\ UNCHANGED <<lowerVars, frame>>

Next == Lowers \/ Allocates \/ LoweredJump \/ MachineJump \/ MachineMove \/ Leaves \/ Executes

Spec == FrameInit /\ [][Next]_vars

-----------------------------------------------------------------------------
(* What an instruction names beside registers.                             *)
Names(op) ==
  CASE op.name = "LoadConst" -> frame.pool[op.args[2] + 1]
    [] op.name \in {"SetList", "SetListSpread"} -> Last(op.args)
    [] OTHER -> 0

(* The machine does what the lowered function does: wherever its jumps     *)
(* land it is at the instruction the lowered function is at, and what that *)
(* reads from the frame, an open row and the constants included, is what   *)
(* it was to read.  No value was overwritten between being made and being  *)
(* read, by any path.                                                      *)
ReadsAgree ==
  Abreast =>
    /\ pc \in DOMAIN frame.ops
    /\ Now.id = Here.id
    /\ Names(Now.op) = Here.value
    /\ LET read == ReadBy(Now.op)
           meant == Reads(Here)
       IN  /\ Len(read) = Len(meant) + (IF Here.spread THEN 1 ELSE 0)
           /\ \A k \in 1 .. Len(meant) : held[read[k]] = virtual[meant[k]]
           /\ Here.spread => held[Last(read)] = pending

(* A declaration keeps one register for the whole of its scope, the one    *)
(* its depth names, and nothing else is ever put there: a closure that     *)
(* captured it reads that register behind the allocator's back.            *)
LocalsHold ==
  Abreast =>
    \A s \in Here.scope :
      /\ frame.slots[s].reg = slots[s].number
      /\ held[frame.slots[s].reg] = virtual[slots[s].reg]

(* Wherever the machine is, the line table tells the line the instruction  *)
(* was lowered from, though blocks are not laid out in the order of the    *)
(* source: an error says where it happened by it.                          *)
LinesAgree == Abreast => Now.line = Here.line

-----------------------------------------------------------------------------
(* origin.rs: where the value in a register came from.                     *)
OpWrites(op, r) ==
  CASE op.name = "Call" -> r >= op.args[1]
    [] op.name = "Vararg" ->
         r >= op.args[1] /\ (op.args[2] = MULTI \/ r < op.args[1] + op.args[2])
    [] op.name \in {"ForPrep", "ForLoop"} -> r \in op.args[1] .. op.args[1] + 3
    [] op.name \in {"LoadNil", "LoadConst", "Move", "GetUpval", "NewTable", "Index", "Not", "Eq"} ->
         r = op.args[1]
    [] OTHER -> FALSE

Leaps == {p \in DOMAIN frame.ops : frame.ops[p].op.name \in Jumps}
LocalAt(r, p) ==
  \E n \in DOMAIN frame.locals :
    LET l == frame.locals[n] IN l.register = r /\ l.startPc <= p /\ p < l.endPc

(* Mutant: what wrote the register last in the code is what set it.        *)
Setter_Last(r, p) ==
  LET before == {q \in DOMAIN frame.ops : q < p /\ OpWrites(frame.ops[q].op, r)}
  IN  IF before = {} THEN {} ELSE {Max(before)}

(* setter: unless a jump from before it comes in after it.                 *)
Setter(r, p) ==
  LET before == {q \in DOMAIN frame.ops : q < p /\ OpWrites(frame.ops[q].op, r)}
      cut(q) == \E j \in Leaps : j < q /\ q < Lands(frame.ops[j]) /\ Lands(frame.ops[j]) <= p
  IN  IF before = {} \/ cut(Max(before)) THEN {} ELSE {Max(before)}

(* trace: the instruction a value is named after, if it has a name that is *)
(* not a local's.                                                          *)
RECURSIVE Trace(_, _)
Trace(r, p) ==
  IF LocalAt(r, p) THEN {}
  ELSE UNION {LET op == frame.ops[q].op
              IN  CASE op.name = "Move" -> Trace(op.args[2], q)
                    [] op.name \in {"GetUpval", "LoadConst", "Index"} -> {frame.ops[q].id}
                    [] OTHER -> {} : q \in Setter(r, p)}

(* The registers an error blames.                                          *)
Blamed(op) ==
  CASE op.name \in {"Call", "TailCall", "SetIndex"} -> {op.args[1]}
    [] op.name \in {"Index", "Not"} -> {op.args[2]}
    [] op.name = "Eq" -> {op.args[2], op.args[3]}
    [] OTHER -> {}

(* The registers a `for` keeps to itself have no name.                     *)
HasName(n) == frame.slots[n].named

(* The name an error gives a value is where that very value came from: the *)
(* instruction found by walking the code backwards is the one that made    *)
(* it, whatever way control came.  This is where the prototype knows the   *)
(* locals in scope; where it does not, see RangeIsTheScope.                *)
LocalsKnown == \A s \in {n \in Here.scope : HasName(n)} : LocalAt(frame.slots[s].reg, pc)
OriginsHold ==
  Abreast /\ LocalsKnown =>
    \A r \in Blamed(Now.op) : \A id \in Trace(r, pc) : held[r][1] = id

-----------------------------------------------------------------------------
(* The instructions in a local's range of pcs are those lowered in its     *)
(* scope, which is what a name found through the range relies on.          *)
ScopeOf(id) == At(blocks, CHOOSE p \in Points(blocks) : At(blocks, p).id = id).scope
RangeIsTheScope ==
  frame # <<>> /\ at = <<1, 1>> =>
    \A p \in {q \in DOMAIN frame.ops : frame.ops[q].id # 0} :
      {n \in ScopeOf(frame.ops[p].id) : HasName(n)} =
        {n \in DOMAIN frame.locals : frame.locals[n].startPc <= p /\ p < frame.locals[n].endPc}
===============================================================================
