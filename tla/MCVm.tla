-------------------------------- MODULE MCVm --------------------------------
EXTENDS VmLua

CONSTANT a

Shape(params, slots, registers, vararg, upvals) ==
  [params |-> params, slots |-> slots, registers |-> registers,
   vararg |-> vararg, upvals |-> upvals]

(* A chunk with two locals and a temporary, and a function with a local    *)
(* that captures one variable.                                             *)
CaptureProtos ==
  [main |-> Shape(0, 2, 3, "Anonymous", 1), f |-> Shape(0, 0, 1, "None", 1)]

(* No captures: a chunk, a function with `...`, and one without.           *)
RowProtos ==
  [main |-> Shape(0, 0, 3, "Anonymous", 1), v |-> Shape(1, 1, 2, "Anonymous", 0)]

(* A function that names its `...`, whose n the program overwrites.        *)
NamedProtos ==
  [main |-> Shape(0, 0, 2, "Anonymous", 1), n |-> Shape(0, 1, 3, "Table", 0)]

(* One that a closure made in it may capture.                              *)
SharedProtos ==
  [main |-> Shape(0, 0, 1, "Anonymous", 1), n |-> Shape(0, 1, 2, "Table", 1)]

Program(protos, wants, counts, maxFunctions, maxCells, maxPacks) ==
  [protos |-> protos, wants |-> wants, counts |-> counts,
   functions |-> maxFunctions, cells |-> maxCells, packs |-> maxPacks]

CaptureAndNamed ==
  {Program(CaptureProtos, {0}, {}, 3, 3, 0),
   Program(NamedProtos, {1, All}, {2, 9, BadCount}, 2, 1, 1),
   Program(SharedProtos, {1}, {}, 3, 2, 2)}
Rows == {Program(RowProtos, {1, All}, {}, 2, 1, 0)}

Answers == {<<a, a>>}

NoHost == {}
==============================================================================
