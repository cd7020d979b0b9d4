# Verification of ruta

ruta is an implementation of Lua 5.5 in Rust: a parser, a scope resolver, a lowering to
blocks of instructions over virtual registers, a register allocator, a byte code emitter, and
a register machine with its own heap. This directory holds TLA+ modules for the parts of it
where a step depends on many earlier ones, the TLC configurations that check them on small
instances, and proofs, checked by TLAPS, of what holds for every instance.

ruta runs in one thread and keeps nothing on disk. What is hard in it is not interleaving or
recovery but **shared mutable structure addressed by index**: one value stack that all frames
divide among themselves, cells that point into it, hash chains of relative offsets, a free
pointer that only goes down, counts worked out ahead in wrapping arithmetic, and a compiler
whose decisions (what to close, which register) are only right together with those of the
pass before. The sequences of operations come from the Lua program, so every order is legal
and few are tested.

## Inventory

Paths are under `src/crates/`.

| Part | State it keeps | Operations | Talks to | What makes it correct |
| --- | --- | --- | --- | --- |
| Lexer (`ruta-syntax/src/lexer`) | a cursor in the source | next token | parser | each token is the longest one there |
| Parser (`ruta-syntax/src/parser`) | token ahead, depth, the tree | a function per construct | lexer | the grammar's tree; nesting is cut at 1000 |
| Resolver (`ruta-syntax/src/scope`) | stacks of declarations, blocks, functions; per block its labels and gotos | declare, look up, capture, enter, leave, declare label | reads the tree, writes `Bindings` | a name reaches the innermost declaration; a goto never enters a scope; an upvalue chain ends at its variable |
| Lowering (`ruta-compile/src/lower`) | per function: locals in scope, loops, label sites, waiting gotos, blocks | one per statement and expression | reads tree and `Bindings` | order of evaluation, number of values, what dies is closed and what lives is not |
| Allocation (`ruta-compile/src/alloc`) | spans, rows, places | materialize, linearize, assign | rewrites the blocks | no two live values share a register; a call's row is contiguous and above all it must not touch |
| Emission (`ruta-compile/src/emit`, `ruta-bytecode`) | code, waiting jumps, constant pool, lines | lay out, encode, patch; decode | hands a `Prototype` to the machine | a jump lands where its block starts; decode undoes encode |
| Value stack (`ruta-runtime/src/stack`) | values, frames | at, put, reserve, shift, fill, truncate, enter, leave | the machine | frames do not overlap but for the row they share |
| Open upvalues (`vm/state.rs`, `heap/function.rs`) | cells, sorted vector of the open ones | capture, close, read, write | stack, heap | a captured local is one variable, before and after its scope |
| Calls and instructions (`vm/call.rs`, `vm/dispatch.rs`) | the frame's pc, base, top, want, varargs | one per opcode | everything below | a call takes and answers the values it should; nothing of a caller is lost |
| Counted loops (`vm/loops.rs`) | four registers | prepare, advance | stack | the numbers of the progression, all of them, and an end |
| Tables (`heap/table`) | array, nodes, free pointer | get, set, next, length | heap | a map; traversal visits what is there; a border |
| Interned strings (`heap/string.rs`) | open-addressed buckets | new string, grow | heap, table keys | one handle for each short string |
| Arithmetic (`vm/arith.rs`, `number.rs`) | none | one per operator | dispatch | Lua's integers and floats |
| Base library (`vm/base.rs`) | none | the functions of the globals | stack, tables | results pushed match the count answered |
| Error names (`vm/origin.rs`) | none | trace a register back | code, debug records | the name is that of the value |
| Heap arena, loader (`heap/arena.rs`, `heap/proto.rs`) | a vector of objects that never shrinks | push, read, take and put a table | everything | a handle always names the object it was made for |
| Command line (`ruta-cli`) | none | run chunks in order | compiler, machine | exit code and messages |
| Harness (`ruta-conformance`) | a directory per side | run both, compare | processes | a late child is killed, output compared |

The components interact by call only: the compiler passes run one after the other on a whole
chunk, and the machine runs what they produced. The couplings that matter are data: the
resolver's decision about a label or a captured name is used by the lowering with its own idea
of what is in scope (`Jumps`, `Names`); the allocator's promise that a declared local's register is its depth is
what lets `CloseUpvals` name one register and close a scope (`Frame`, `Jumps`, `Vm`); the
positions at which the lowering saw a scope begin and end are used after the allocator has
moved everything, and read again when an error names a variable (`Frame`); the machine's
`top` links the instruction that produces an open row to the one that consumes it (`Vm`);
interning keeps each short string on the heap once (`InternTable`), while table keys and `==`
compare the bytes of strings whose handles differ, and so rest on the bytes alone.

The hazards, each at its line, are in `PROJECT.json`.

## Modules

An arrow reads "implements".

| Module | Models | Implements |
| --- | --- | --- |
| `SharedVariables` | what closures promise: a captured slot and its cell are one variable | |
| `OpenList` | `Vm.open`, `capture`, `close`, cell reads and writes | → `SharedVariables` |
| `LuaCalls` | calls as lists of values and variables with identities; no stack | |
| `Vm`, `VmLua` | the value stack, frames and the instructions that move values | → `LuaCalls` |
| `TableMap` | a table as a partial function with a traversal | |
| `Table` | array part and chained hash part | → `TableMap` |
| `Progression` | the numbers a `for` takes, in unbounded integers | |
| `ForLoop` | `prepare`, `integer_limit`, `advance` in machine integers | → `Progression` |
| `InternTable` | the table of short strings | |
| `Jumps` | blocks, labels and gotos through resolver and lowering | |
| `Names` | look-up and captures through blocks and functions, in the resolver and the lowering | |
| `RegAlloc` | the allocator's passes, as operators on a function | |
| `Lowering` | the methods that turn statements and expressions into blocks of instructions | |
| `Bytecode` | every instruction as bytes and back, jump patching, the line table | |
| `Emit` | the blocks laid out as bytes, the constant pool, the ranges of locals | |
| `Frame` | `Lowering`, then `RegAlloc`, then `Emit`; the lowered function and the decoded bytes run in step | the byte code → the lowered function |
| `Arith` | the operators on integers and floats, and numbers as keys | |
| `Numbers` | numerals read digit by digit, and chains of operators on them | |
| `*Proofs` | theorems | |

`MC…` modules give the constants their values; the names of runs below are those in
`PROJECT.json`.

### OpenList

`open` is the vector of `(slot, cell)` pairs with `binary_search_by_key` and
`partition_point` as they are used, `cells` is the arena's upvalues, `stack` the values. The
program is any sequence of captures, writes to a slot, writes through a cell and closes. The
refinement maps each cell to a variable of `SharedVariables`, which knows no vector: a write
to a slot is a write to the variable captured from it, until it is closed.

Run `openlist`: three slots, four cells. Three slots allow an insert before, between and after
the listed ones, and four cells a slot captured again after a close.

### Vm

One action per instruction, executed whole; `dispatch::run` fetches the next one. The
instructions come from a compiler, so they are not arbitrary: the model keeps for each frame
what the compiler knows at that point, the locals in scope (`vars`), the temporaries evaluated
(`temps`), and whether the last producer left its row open (`spread`). Locals occupy the first
registers by depth and temporaries follow, as `alloc/assign.rs` lays them out. Everything else in
a frame (`base`, `top`, `want`, `ret_to`, `varargs`) is the code's.

Names map to code directly: `Enter` is `call::enter`, `SettleValues` and `SettleFrames` are
`call::settle`, `Finish` is `dispatch::finish`, `ClosedCells` and `StillOpen` are `Vm::close`.
A host function is any list of `HostResults` or an error. The map `open` stands for the vector,
which `OpenList` justifies. Tables appear only where the stack machine itself makes or reads
one: the table of a named vararg parameter, and constructors. The resolver makes the name of such a
parameter read-only, so no assignment reaches the local while its frame runs (`NamesPack`); once
its cell is closed the name is nobody's register, and the model lets it be assigned like any
other. Instructions that only compute
one register from others (arithmetic, indexing, comparisons) act like `Load` here, and jumps
only choose which instruction comes next, which the model leaves open anyway.

`LuaCalls` knows lists of values and variables with identities. The refinement (`VmLua`) reads
arguments, locals and results off the stack. That every step of the machine is a step of
`LuaCalls` is the strongest statement here: no argument, result, local or captured variable
is ever lost, duplicated or shared by mistake.

| Run | Question | Bounds |
| --- | --- | --- |
| `vm_closures` | two closures over two locals, shared or not, scopes left one local at a time, calls to the depth limit; a named `...` whose `n` the program overwrites, or that a closure captures and outlives | depth 2, height 8, 3 functions, 3 cells (one is the globals'), results dropped; n in 2, 9 and no proper integer |
| `vm_rows` | `...`, open rows, spreads, host calls, tail calls, the height limit | depth 2, height 6, no captures |

Depth 2 has a caller, a callee, a tail call that replaces the callee, and a call refused at the
limit. A third frame would meet its caller the way the second does. Height 8 is passed by an
`n` of 9, height 6 by rows spread into a call. The chunks stop (`CHECK_DEADLOCK FALSE`): an error ends the run, and the arenas that
never shrink are full.

### Table

`nodes` with their `next`, the `free` pointer, the `array`. `FindNode` is the search along a
chain; `Placed` adds a key, by `Chained` behind the node that is where it belongs or by
`Displaced` in the place of one that is not; `Refreshed` is `refresh`: `BestArraySize` counts how
many integers would fill half of an array part, `Laid` is the new one with nodes for the rest, and
`Restored` puts every entry into it. `TableLength` is `length`: `Halved` in the array part, `Beyond`
it by doubling and then counting, `checked_mul` included (`Highest` is where it overflows). Loops
of the code are recursive functions here, or what the loop comes to. Keys are those `normalize`
leaves. Hashes are a constant chosen to collide. `LengthIsABorder` says that `#t` answers a
border; `CursorHasPlace` that the key a traversal holds, erased since or not, is still found.

Run `table`: three integers and two strings, constructors that announce 0 or 2 of each. Modulo
two and four the keys form one chain, two that meet, and an integer that may sit in either
part; five keys overfill the array part, the nodes and both, so that every rehash happens.
The two values are interchangeable (symmetry), which is sound for these safety properties.
`Highest` 5 lets the doubling in `length` overflow.

### ForLoop

`prepare` works out how many times the loop will run again, as a machine integer read as
unsigned, and `advance` counts it down. `High` is half the range: 8 in the run, 2^63 in the
code. `AllLimits` goes past both ends: a limit beyond the range is a float and is cut as
`integer_limit` does. The limit is an integer or half an integer, which is all that floor and
ceiling tell apart. `Ends` needs weak fairness of `Next`: the machine runs the
loop's instructions while it is in the loop and a body is assumed to finish. Left out: loops
of floats, and a limit that is not a number, which `integer_limit` sends to the least integer
whatever the sign of the step, as PUC-Lua's `forlimit` does.

### InternTable

Buckets, linear probing, growth at three quarters. Short strings have hashes that collide in
4, 8 and 16 buckets and wrap around; the code starts with more buckets
(`InitialBuckets` is a constant) and grows in the same way. The run stops when the arena bound is
reached.

### Jumps

The first phase writes a body statement by statement as the resolver walks it (`scope/stat.rs`,
`scope/label.rs`); it may refuse it. The second lowers that body (`lower/stat.rs`,
`lower/func.rs`) and notes for each statement the place its `CloseUpvals` closes from. The
properties then compare what is in scope at each goto with what is in scope at its label.

A `for` stands for both kinds: they close alike. A local's place in `FuncState.vars` stands
for its register, which is its number there. Nested functions keep frames of their own, so a
body needs none; whether a local is captured is given. `return` closes everything and ends a
block like `break`, and is left out.

Run `jumps`: every body of seven statements, the ends of blocks counted, with two jumps and one
label name. Seven hold a goto out of a captured local's block to a label behind it, in a loop or
not, and two gotos that wait for one label. Run `jumps_tail` has eight, which the finding needs.

**Finding** (`jumps_tail`). A goto may pass a `local` on its way to a label that ends its
block; the resolver counts such a label at the height of its block. The lowering counts what
is in scope at the label, the passed locals included, and so does not close a captured local
that sat below them:

```lua
local f
do
  do local a = 1; f = function() return a end; goto done end
  local b = 2
  ::done::
end
local c = 3
print(f())      -- reads c's register
```

`lower/func.rs:186` says "A goto closes what dies on the way out". With such gotos excluded
(`SkipsToTail` FALSE), everything holds.

### Names

The resolver keeps one stack of declarations, each with the depth of its function, and searches
it backwards; a name found in a function further out is captured through every function in
between, in lists of upvalues searched by name. The lowering keeps a list of locals of its own,
filled by another walk. `Names` lets the program be any: a step reads or assigns a name,
declares a local or a global (or a wildcard), or enters or leaves a block, a loop or a function;
reads and the functions in a statement's values come before what it declares. Beside the code's
state `scopes` holds what the language says, a map from names to variables per block, and the
properties compare: the variable an access reaches through its captures, the refusals and their
reasons, and that whatever a closure captures is in scope where the lowering makes it.

Run `names`: three names, one of them `_ENV`, declared as locals, constants, globals and
wildcards; three functions inside each other, four blocks, three declarations in scope. Three
functions have a capture that goes through one which does not use the name itself.

### Lowering, RegAlloc, Emit and Frame

The state of `Lowering` is `FuncState`: `blocks`, `current`, `regs`, `slots`, the locals in
scope, the loops. There is no syntax tree. Each step decides what the next statement or
expression is and does what its method does; what a method still has to do after a call of
another one waits in `todo`. So the functions lowered are all those of a few statements and
expressions, and each of them is one the real lowering makes. An instruction is its kind, what
it reads, what it wants in a row, what it writes, where it may go, the constant or index it
carries and its line. All binary operators are one kind, and all unary ones.

Blocks are made at the moment the code makes them. It matters: blocks nothing reaches keep
that order behind the reached ones, and a span covers everything between its first and its last
point.

`RegAlloc` has one operator per pass: `Materialize` gives each call, return, constructor batch
and `...` a row of fresh registers; `Linearize` lays the blocks out; `Spans` finds how long
each register has to last; `Assign` places rows and registers, lowest first, above what
survives a row's calls. `Solve` iterates as often as there are blocks, which is as far as a
fact can travel.

`Emit` writes the blocks end to end: `PlainOp`, `LeavingOp` and `TailOps` are `plain`, `leaving`
and `tail`, with the jumps left out where the target comes next; `Patched` corrects the rest.
`Bytecode` has the layout of every opcode, `Encode` and `Decode` with the narrow and the wide
form of `LoadConst` (the narrow one names `Narrow` constants, 2^16 in the code and one in the
run, so that both occur), `PatchJump` and the line table.

`Frame` runs the function both ways. One is over the virtual registers of the lowered blocks,
where nothing interferes. The other is the machine: it decodes the bytes at its pc and works on
the registers of the frame, where a call overwrites everything from its callee on; `Lands` is
where a displacement leads, `top` is where an open row ends. The machine alone takes the jumps
and moves the passes added. Branches go either way. A value is the instruction that made it and
a lap that turns over when control goes back, so last turn's value is told from this turn's.

- `ReadsAgree` is the refinement, of the whole way from lowering to execution: wherever both do
  something they are at the same instruction, and it reads the same values from both, the open
  row, constants and list indices included. A wrong displacement, row start, operand order,
  register or constant index would break it.
- `LocalsHold` says more about declared locals, which closures read unseen by the allocator.
- `LinesAgree`: the line table tells the line of the instruction that runs.
- `OriginsHold`: where an error names a value after the instruction that made it, found by
  walking the code backwards (`Trace` follows `vm/origin.rs`), that instruction did make it,
  whichever way control came. It is stated for the places at which the prototype knows the
  named locals in scope (`LocalsKnown`); elsewhere it fails, for the reason the finding below
  gives. The registers a `for` keeps to itself have no name and are not in the table of locals.
- `EmitsBeforeTheEnd`: nothing is emitted after the end of a block, every block control reaches
  ends, and none that is gone to is empty.

Run `frame` lowers functions of seven kinds (`MCFrame`): returns of nested calls, constructors
and `...`; method calls; three statements of branches, loops, breaks and returns; two of locals,
assignments and counted loops; one with locals read in short circuits; an assignment around a
loop; globals. Two nested expressions put a row inside another one, with a spread or without.
Three statements put a break or a return and dead code behind it into a loop. Constructors store
two fields at a time instead of 50 (`FieldsPerStore`), so that a batch fills up; there are two
constants, so that they are shared and told apart. One kind with everything would be beyond
TLC; each has what can interact. The run ends when the function returns (`CHECK_DEADLOCK FALSE`).

Left out: `limits` (a function that needs more than 255 registers is refused), the registers of
captured variables given to children, the children themselves, `repeat` and `goto` (whose jumps
are in `Jumps`), several names in a generic `for`, and `elseif`, which nests as an `if` in an
`else` does. Of `origin.rs` the kind of a name (global, field, method) is left out.

**Finding** (`frame_ranges`). `declare` and `leave` record where a scope begins and ends as an
index into a block's instructions. `window::place` later inserts moves into that block and
nothing corrects the index, so the range of pcs the prototype keeps for a local is off. The run
shows

```lua
local a = f()   -- Call, Move, Return: a's range is that of the Move alone
```

The range is also wrong for another reason: its ends are compared as pcs, and reverse postorder
puts the body of a `while` behind the code that follows the loop, hence behind the end of the
scope around it:

```lua
local a
while true do a() end   -- the call lies past a's end_pc: the message cannot name a
```

`ruta-bytecode/src/debug.rs:25` calls it "A source-level local and the register it occupies for
the whole of its scope." `vm/origin.rs` uses it to name locals in messages, and where a local is
not known it goes on to what last wrote the register: in

```lua
local a = 1
while c do a = a + a end   -- if a has become something else
```

the body is behind the code after the loop, and the error would name the constant `a` was first
given. That is what `LocalsKnown` keeps out of `OriginsHold`.

### Arith and Numbers

`Arith` has the operators of `vm/arith.rs` on integers of `Width` bits and floats of `Precision`
bits. Wrapping, truncated division and IEEE rounding are the machine's own (external); what the
code adds is modelled: floored division and modulo, shifts by any count, when an operand counts
as an integer, the exact order of an integer and a float, and `normalize`, which decides when a
float is the key of an integer. A float is counted in units of the least one, so it is an
integer of the model and exact arithmetic on it is TLC's own. Its zero has no sign.

`Numbers` reads a numeral as `lexer/number.rs` does, one digit at a time: wrapped around for a
hexadecimal integer, into a mantissa with a scale and a sticky bit for a float, cut and rounded
at the end (`Scaled`), the least integer apart. Its number, or one that is given, then goes
through operators one after another.

Run `numbers`: integers of 5 bits, floats of 3 with subnormals, four normal binades and
infinity, digits of 2 bits so that four of them overflow the mantissa, and every exponent from
below the least float to above the greatest. Every operator meets every pair of values, and each
answer is compared with exact arithmetic: `NumeralIsNearest`, `ArithIsExact`, `CompareIsExact`,
`EqualsShareAKey`. Left out: powers, the strings arithmetic converts, `..`, `#`, and decimals
with a point, which the standard library reads.


## What is proved

`tlapm` checks every proof to its leaves.

- `OpenListProofs` — `OpenIsSortedTheorem`: the vector stays strictly sorted by slot, for any
  slots and values and any number of cells. `ListMatchesArenaTheorem`: it lists exactly the open
  cells of the arena, each under its slot. Sortedness is inductive because an insert happens
  at the partition point, which is characterised by two lemmas on sorted sequences (insertion
  and prefixes keep order); the second needs the first, since only on a sorted vector does the
  prefix below the partition point hold exactly the lower slots. The two and `TypeOK` are one
  inductive invariant. From it, `ClosedForGoodTheorem`, of steps: a closed cell never opens again
  and an open one closes on what its slot held; and `ImplementsSharedVariablesTheorem`: every
  step is one of `SharedVariables` or changes nothing there, because the cell a slot has is the
  one open cell on that slot, before the step and after it (`HoldersRight`).
- `VmProofs` — `IInvTheorem`, and from it `TypeOKTheorem`, `OpenSlotsAreLocalsTheorem`,
  `FramesNestTheorem` and `RootsCoverTheorem`: the stack discipline of every instruction, for any
  prototypes, depth, height, host results and number of cells, functions and tables. None of these
  is inductive, nor are they together; the invariant (`Sound`) has to tie all that a step reads.
  The arenas name each other within bounds, and every slot of the stack holds a value made of
  them, since a call follows the function it finds on the stack (`ArenasOK`, `Stored`). Each frame
  is within its prototype's bounds, has room on the stack for all its registers (`Room`:
  constructors set `top` back to them after an open row), and begins above what *every* frame
  below still needs, which is what a close or a settling write relies on; a waiting frame has room
  for the results it asked for, and no open row (`Nests`). The map of open cells and the arena are
  inverses of each other, and each open cell is on a local in scope (`OpenOK`). The local of a
  named `...` holds its table (`PacksNamed`), because no register above it, no result and no
  assignment reaches it. There is one lemma per instruction, and under them lemmas on what
  `reserve`, `shift`, `fill`, `put` and `settle` keep. It assumes what the compiler promises of a
  prototype (`ProgramAssumption`: parameters are locals and locals registers), that constants and
  host results are plain values (`PlainAssumption`), and that the marks for "all results" and for
  an `n` that is no integer are not numbers (`CountAssumption`). Calls made within the
  instructions' guards, as the compiler makes them, are the modelled ones: that the lowering and
  the allocator emit no others is `Frame`'s and `Jumps`'.
- `VmLuaProofs` — `ImplementsLuaCallsTheorem`: the machine implements `LuaCalls`, for every
  program. Above the invariant of `VmProofs` it needs what the machine's words say of variables,
  which it does not name (`Linked`): the variables in scope are apart; no variable has two cells;
  the cell of a variable in scope is open; each cell is some function's, so that `LuaCalls` still
  reaches its variable; calls are no deeper than `DEPTH`. With these the store read off the stack
  and the cells is a function: a variable has one register or one closed cell, and a close hands
  its value from the one to the other. There is one lemma per instruction, named for it
  (`CallLuaMaps`, `ClosureMaps`, `LeaveScopeMaps`), which shows its step to be one of `LuaCalls`,
  on lists of values and variables, or to change nothing that `LuaCalls` sees; an error on one
  side is an error on the other. The work of each is in the lists: that a row of registers, cut,
  joined, padded or moved by `reserve`, `shift`, `fill` and `settle`, is the list that `LuaCalls`
  makes (`SettledList`, `NativeList`, `ExtraIs`, `EntersIn`, `AnswersIn`), and that a write to one
  frame's registers leaves what every other call holds (`RowsBelow`, `LocalNotInRows`). It assumes
  `Endless`: the identities for new variables are numbers that do not run out. They are names the
  specification gives to locals; the program has none to run out of. A chunk takes no parameters
  and an anonymous `...`, as `lower/func.rs` builds it (`ProgramAssumption`).
- `TableProofs` — `EveryKeyIsFoundTheorem`, `CursorHasPlaceTheorem`, `LengthIsABorderTheorem`,
  `TypeOKTheorem` and `ImplementsTableMapTheorem`: a table is a map with a traversal, for any keys,
  any values and *any* hash. The inductive invariant describes the chains: along each some rank
  falls, so that a search ends (`Ranked`); a link joins keys of one main position (`Joins`); no two
  nodes have one successor (`OneBefore`); a used node is at its main position or has one before it
  (`Reached`), so a search from there meets it; a key is in one node (`KeysOnce`), and in none that
  the array part answers for; whatever the walk of the free pointer has passed is used (`Walked`).
  Adding a key splits as the code does: its place is unused, or taken by a node that belongs there,
  or by one that is displaced. For a rehash the invariant is carried along the loop over the
  entries, by induction on how many are back, with the map they make. A search
  exists by the rank that falls (`WalkExists`); the halving, doubling and counting of `length` rest
  on two lemmas on loops (one in which a rank falls ends, and what each turn keeps holds at its
  end: `LoopExists`, `LoopResult`). The
  refinement maps `entries` to what reads answer and `ahead` to the live keys behind the cursor.
- `JumpsProofs` — `IInvTheorem`, and from it `TypeOKTheorem`, `NoJumpIntoScopeTheorem`,
  `GotoKeepsWhatLivesTheorem`, `BlocksCloseWhatDiesTheorem`, `EveryGotoArrivesTheorem` and
  `GotoClosesWhatDiesTheorem`, for bodies of any length, any names and any nesting. The properties
  speak of the places of locals, which only the lowering knows, but what makes them true is done by
  the resolver, which only counts declarations. The invariant ties the two by a history: what will
  be in scope after each statement (`Way`). Of the resolver it says that its counts measure the
  history (`Counted`), that each block of the body has its frame, a `for` two (`Paired`), that
  frames count no fewer declarations inwards (`Stacked`), and that the locals counted at each label
  and each waiting goto are in scope still, in their places (`LabelsHold`, `GotosHold`); so that a
  goto is answered only with a label whose live locals it has (`Sent`). A goto waits in one frame
  or has its one jump (`GotosOnce`). Of the lowering it says that it has walked along the history
  (`Passed`), keeps the entries for `break` (`LoopsKept`) and the depths of the labels passed
  (`DepthsKnown`), that what waits does so for a label to come (`PendingWait`), and what has been
  closed (`ClosedSoFar`). `GotoClosesWhatDies` holds only of bodies without a goto that passes a
  declaration on its way to a label that ends its block: the theorem assumes `~SkipsToTail`, and
  the run `jumps_tail` shows why.
- `InternTableProofs` — `OneHandleEachTheorem` and `EveryShortIsFoundTheorem`, for any strings,
  hashes and number of buckets. The strengthening is the one of open addressing: between a
  string's own bucket and the one that holds its handle no bucket is unused (`OnTheWay`); each
  handle is in one bucket, all short strings' are there, and the count is that of the used buckets
  and below their number, so that a probe ends. For the growing table it is carried along the loop
  that inserts the handles again, by induction on how many are in.
- `NumberProofs`, of bytes — `U8IsReadBack` to `I32IsReadBack`: a number of each width, written least
  byte first, is read back as it was, with its sign. `PatchedJumpLands`: in any code, a jump
  patched to any target in range decodes to one that lands on it, and no other byte changes. It
  rests on a lemma about overwriting a stretch of a sequence and on the length of every layout.
- `NumberProofs`, of values — `DivisionIsFloored`: truncated division corrected by one is the floor, for
  every width, wrapping only for the least integer by -1; `OrderIsExact` and
  `OperateComparesExactly`: comparison of any two values is that of the exact numbers;
  `EqualNumbersShareAKey`: two numbers are equal exactly if they are one key. Beside the sizes
  the proofs take from TLC's check of the constants only that powers of two are positive
  (`PowersAssumption`), which the provers do not know. What is proved is of operators, so it
  needs no induction; the argument is by cases on the two types and on where the float lies.
- `ForLoopProofs` — `TypeOKTheorem`, `LeftIsExactTheorem` and
  `ImplementsProgressionTheorem`, for every width. The strengthening is `LeftIsExact` itself:
  the unsigned count times the step leads exactly to the last number within the limit. It
  needs the definition of integer division and the fact that what is left is below 2^w; from it
  `index + step` is in range whenever something is left, so the wrapping addition does not wrap.
  The assumption is `High > 0`.

Inductions are over numbers, and are stated for sets of numbers: the library's induction
theorems take an operator, which the provers cannot instantiate, so each proof derives what it
needs from the natural numbers being well ordered (`LeastOf`).

Only model-checked: liveness (`Ends`), which is beyond the prover; the invariants of `Names`,
which no proof has been written for yet; the
invariants of `Lowering` and `Frame`, whose steps run whole passes over whole functions;
of `Numbers` the reading of numerals and `ArithIsExact`, whose shifts and bitwise
operators are powers of two and folds over bits; that decoding undoes encoding for whole
instructions, whose layouts are cut out of a folded sequence (the widths and jumps are proved).

## What is not modelled, and why

- The lexer but for numerals, the parser, number formatting and the wording of messages:
  functions of their input, whose specification would be the code again. The conformance suite
  compares them with PUC-Lua.
- The command line and the harness: input and output around the interpreter. The harness runs
  children against a deadline; it is a test tool.
- The arena: an index into a vector that never shrinks; every module's arena is a sequence
  that only grows.
- The base library: each function reads its arguments and pushes results; `Vm` takes any list of
  results, and `next` is `Table`'s cursor.
- Powers, loops of floats, decimals with a point: the standard library's arithmetic, outside of
  what TLC can enumerate.
- Threads, crashes and restarts: the program has one thread and keeps nothing.

## Order of the modules, and what could follow

Built, in this order: `OpenList`, `Vm`, `Table`, `ForLoop`, `InternTable`, `Jumps`, `RegAlloc`,
`Lowering`, `Frame`, `Arith`, `Numbers`, `Names`, `Bytecode`, `Emit`, and `Frame` again over them.
What could follow:

1. `repeat` and `goto` in `Lowering`, so that `Frame` covers back edges that are not loops.
2. `Names` composed with `Vm`'s closures: a chain of upvalues followed at run time.
3. `pairs` and `ipairs` over a table the body changes, composed from `Table`.
4. Theorems: `CapturesAreInScope` of `Names`; `EmitsBeforeTheEnd` of `Lowering`.
