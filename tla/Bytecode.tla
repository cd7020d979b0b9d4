------------------------------- MODULE Bytecode -------------------------------
(***************************************************************************)
(* Instructions as bytes (ruta-bytecode: op.rs, encode.rs, decode.rs and   *)
(* the line table of debug.rs).                                            *)
(*                                                                         *)
(* An instruction is its name and its operands in the order of the enum's  *)
(* fields, which is the order they are written in.  Code is a sequence of  *)
(* bytes; a pc counts them from 0, a TLA+ sequence from 1.                 *)
(***************************************************************************)
EXTENDS Integers, SequencesExt

CONSTANT Narrow   (* how many constants the narrow LoadConst can name: 2^16 *)

ASSUME NarrowAssumption == Narrow \in 1 .. 65536

MULTI == 255

(* What each opcode is followed by; the byte of an opcode is its place.    *)
Opcodes ==
  <<"LoadNil", "LoadTrue", "LoadFalse", "LoadConst", "LoadConstWide", "Move",
    "GetUpval", "SetUpval", "CloseUpvals", "Closure", "Vararg",
    "NewTable", "Index", "SetIndex", "DefineGlobal", "SetList", "SetListSpread",
    "Neg", "Not", "Len", "BNot",
    "Add", "Sub", "Mul", "Div", "IDiv", "Mod", "Pow", "Concat", "Eq", "Ne", "Lt", "Le",
    "Gt", "Ge", "BAnd", "BOr", "BXor", "Shl", "Shr",
    "Call", "TailCall", "Return",
    "Jump", "JumpIfTrue", "JumpIfFalse", "ForPrep", "ForLoop">>

Unaries == {"Neg", "Not", "Len", "BNot"}
Binaries == ToSet(SubSeq(Opcodes, 22, 40))
Jumps == {"Jump", "JumpIfTrue", "JumpIfFalse", "ForPrep", "ForLoop"}

WidthOf(operand) == CASE operand = "U8" -> 1 [] operand = "U16" -> 2 [] operand \in {"U32", "I32"} -> 4

LayoutOf(name) ==
  CASE name \in {"LoadNil", "LoadTrue", "LoadFalse", "CloseUpvals"} -> <<"U8">>
    [] name = "LoadConst" -> <<"U8", "U16">>
    [] name \in {"LoadConstWide", "Closure"} -> <<"U8", "U32">>
    [] name \in {"Move", "GetUpval", "SetUpval", "Vararg", "Return", "TailCall"} \cup Unaries ->
         <<"U8", "U8">>
    [] name = "NewTable" -> <<"U8", "U32", "U32">>
    [] name \in {"Index", "SetIndex", "DefineGlobal", "Call"} \cup Binaries -> <<"U8", "U8", "U8">>
    [] name = "SetList" -> <<"U8", "U8", "U8", "U32">>
    [] name = "SetListSpread" -> <<"U8", "U8", "U32">>
    [] name = "Jump" -> <<"I32">>
    [] name \in Jumps \ {"Jump"} -> <<"U8", "I32">>
Layout == [k \in 1 .. Len(Opcodes) |-> LayoutOf(Opcodes[k])]

Op(name, args) == [name |-> name, args |-> args]
Code(name) == CHOOSE k \in 1 .. Len(Opcodes) : Opcodes[k] = name

(* Where the n-th operand of the k-th opcode begins, the opcode at 0.      *)
OperandAt(k, n) ==
  LET after[m \in 1 .. n] == IF m = 1 THEN 1 ELSE after[m - 1] + WidthOf(Layout[k][m - 1])
  IN  after[n]
InstructionLen(k) == OperandAt(k, Len(Layout[k])) + WidthOf(Last(Layout[k]))

-----------------------------------------------------------------------------
(* The low bytes of a number, least first; a negative one in two's         *)
(* complement.                                                             *)
Weight == <<1, 256, 65536, 16777216>>
LeBytes(x, width) == [k \in 1 .. width |-> (x \div Weight[k]) % 256]

(* What a number read back from its bytes is, with and without a sign.     *)
FromBytes1(b) == b[1]
FromBytes2(b) == b[1] + 256 * b[2]
FromBytes4(b) == b[1] + 256 * b[2] + 65536 * b[3] + 16777216 * b[4]
SignedByte(top) == IF top < 128 THEN top ELSE top - 256
FromSigned4(b) == FromBytes4([b EXCEPT ![4] = SignedByte(@)])

Read(operand, bytes) ==
  CASE operand = "U8" -> FromBytes1(bytes)
    [] operand = "U16" -> FromBytes2(bytes)
    [] operand = "U32" -> FromBytes4(bytes)
    [] operand = "I32" -> FromSigned4(bytes)

(* Encoder::emit: a constant past what the narrow form can name is loaded  *)
(* by the wide one.                                                        *)
Form(op) == IF op.name = "LoadConst" /\ op.args[2] >= Narrow THEN "LoadConstWide" ELSE op.name

Flatten(parts) == FoldLeft(LAMBDA all, part : all \o part, <<>>, parts)
Write(k, args) ==
  <<k - 1>> \o Flatten([n \in 1 .. Len(args) |-> LeBytes(args[n], WidthOf(Layout[k][n]))])
Encode(op) == Write(Code(Form(op)), op.args)

(* decode: the instruction at a pc, and where the next one begins.         *)
Decode(code, pc) ==
  LET k == code[pc + 1] + 1
      bytes(n) == SubSeq(code, pc + 1 + OperandAt(k, n), pc + OperandAt(k, n) + WidthOf(Layout[k][n]))
      args == [n \in 1 .. Len(Layout[k]) |-> Read(Layout[k][n], bytes(n))]
      name == IF Opcodes[k] = "LoadConstWide" THEN "LoadConst" ELSE Opcodes[k]
  IN  [pc |-> pc, op |-> Op(name, args), next |-> pc + InstructionLen(k)]

(* Encoder::patch_jump: a displacement counts from the end of the jump,    *)
(* and is the last four bytes of it.                                       *)
PatchJump(code, at, target) ==
  LET next == at + InstructionLen(code[at + 1] + 1)
  IN  SubSeq(code, 1, next - 4) \o LeBytes(target - next, 4)
        \o SubSeq(code, next + 1, Len(code))

Lands(instr) == instr.next + Last(instr.op.args)

-----------------------------------------------------------------------------
(* Mutant: a line that is not past the last one is taken for the same.     *)
WithLine_Growing(lines, pc, line) ==
  IF lines # <<>> /\ Last(lines)[2] >= line THEN lines ELSE Append(lines, <<pc, line>>)

(* LineTable: one entry, <<pc, line>>, for each change of line.            *)
WithLine(lines, pc, line) ==
  IF lines # <<>> /\ Last(lines)[2] = line THEN lines ELSE Append(lines, <<pc, line>>)
LineAt(lines, pc) ==
  LET from == {k \in 1 .. Len(lines) : lines[k][1] <= pc}
  IN  IF from = {} THEN 0 ELSE lines[Max(from)][2]
===============================================================================
