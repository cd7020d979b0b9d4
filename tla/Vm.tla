--------------------------------- MODULE Vm ---------------------------------
(***************************************************************************)
(* The register machine: one value stack shared by every frame, the frames *)
(* that divide it, and the upvalues that point into it                     *)
(* (vm/call.rs, vm/dispatch.rs, vm/state.rs, stack/, heap/function.rs).    *)
(*                                                                         *)
(* Every step is one instruction, executed whole.  Which instruction comes *)
(* next is left open, within what the compiler can emit at that point: a   *)
(* frame's registers hold its declared locals first (register = depth of   *)
(* declaration, alloc/assign.rs), then the temporaries evaluated so far.   *)
(* What the compiler knows at a program point, and no machine word holds,  *)
(* is kept in the frame's fields `vars`, `temps` and `spread`.             *)
(***************************************************************************)
EXTENDS Naturals, Sequences, FiniteSets

CONSTANTS
  Programs,    (* [protos, wants, counts, functions, cells, packs]: see below  *)
  Main,        (* the prototype of a chunk                                     *)
  Plain,       (* values that are neither functions nor tables                 *)
  Nil,         (* one of Plain                                                 *)
  Globals,     (* the globals table: only passed along here, one of Plain      *)
  Native,      (* a function the host wrote                                    *)
  All,         (* Want::All, and the operand MULTI                             *)
  BadCount,    (* an n that is not an integer in 0 .. 2^30 - 1                 *)
  DEPTH,       (* vm/call.rs DEPTH                                             *)
  HEIGHT,      (* vm/call.rs HEIGHT                                            *)
  Loads,       (* bound: what a program loads, within Plain and Native         *)
  HostResults, (* bound: the lists a host function may answer                  *)
  MaxItems,    (* bound: the positional part of a constructor                  *)
  Names        (* bound: identities for variables, only the refinement's       *)

(* A prototype of the compiler's: parameters are locals, locals registers. *)
IsProto(proto) ==
  /\ proto.params \in Nat /\ proto.slots \in Nat /\ proto.registers \in Nat
  /\ proto.upvals \in Nat
  /\ proto.vararg \in {"None", "Anonymous", "Table"}
  /\ proto.params + (IF proto.vararg = "Table" THEN 1 ELSE 0) <= proto.slots
  /\ proto.slots <= proto.registers

ASSUME PlainAssumption ==
  /\ {Nil, Globals} \subseteq Plain
  /\ Loads \subseteq Plain \cup {Native}
  /\ HostResults \subseteq Seq(Plain \cup {Native})
ASSUME CountAssumption == All \notin Nat /\ BadCount \notin Nat /\ DEPTH \in Nat \ {0}
(* A chunk has no parameters and an anonymous `...` (lower/func.rs).         *)
ASSUME ProgramAssumption ==
  \A program_ \in Programs :
    /\ Main \in DOMAIN program_.protos
    /\ program_.protos[Main].params = 0 /\ program_.protos[Main].vararg = "Anonymous"
    /\ \A p \in DOMAIN program_.protos : IsProto(program_.protos[p])
    /\ program_.wants \subseteq Nat \cup {All}
    /\ program_.counts \subseteq Nat \cup {BadCount}
    /\ {program_.functions, program_.cells, program_.packs} \subseteq Nat

VARIABLES
  values,      (* Stack.values                                                 *)
  frames,      (* Stack.frames                                                 *)
  open,        (* Vm.open, slot -> cell: OpenList shows the vector is this map *)
  cells,       (* the upvalue arena                                            *)
  functions,   (* the closures of the function arena                           *)
  packs,       (* the tables made, their positional part and their n           *)
  outcome,     (* "running", or "error" once dispatch::run answered Err        *)
  owner,       (* history: the variable each cell was made for                 *)
  program      (* the program that runs                                        *)

vars == <<values, frames, open, cells, functions, packs, outcome, owner, program>>
heap == <<cells, functions, packs, owner>>

(* A program is its prototypes, [params, slots, registers, vararg, upvals] *)
(* each, and bounds on what it does: the results a call or `...` may ask   *)
(* for, what it stores in a vararg table's n, and how many functions,      *)
(* cells and tables it makes, which are never given back.                  *)
Proto == program.protos
Wants == program.wants
Counts == program.counts
MaxFunctions == program.functions
MaxCells == program.cells
MaxPacks == program.packs

FunctionValue(f) == <<"function", f>>
TableValue(t) == <<"table", t>>
IsFunction(v) == v \notin Plain \cup {Native} /\ v[1] = "function"
IsTable(v) == v \notin Plain \cup {Native} /\ v[1] = "table"

Open(slot) == [kind |-> "Open", slot |-> slot]
Closed(value) == [kind |-> "Closed", value |-> value]

Least(a, b) == IF a < b THEN a ELSE b
Greatest(a, b) == IF a < b THEN b ELSE a
Monus(a, b) == IF a < b THEN 0 ELSE a - b

-----------------------------------------------------------------------------
(* Stack.at, put, reserve, fill, shift, push, truncate: slots count from 0. *)
At(v, slot) == v[slot + 1]
Put(v, slot, x) == [v EXCEPT ![slot + 1] = x]
Reserve(v, height) == v \o [k \in 1 .. Monus(height, Len(v)) |-> Nil]
Fill(v, from, to, x) ==
  [k \in 1 .. Len(v) |-> IF from < k /\ k <= to THEN x ELSE v[k]]
Shift(v, from, to, count) ==
  [k \in 1 .. Len(v) |-> IF to < k /\ k <= to + count THEN v[k - to + from] ELSE v[k]]
Truncate(v, height) == SubSeq(v, 1, Least(height, Len(v)))

Depth == Len(frames)
Current == frames[Depth]
Below == SubSeq(frames, 1, Depth - 1)
ProtoOf(frame) == Proto[functions[frame.func].proto]
Running == outcome = "running" /\ frames # <<>>

(* Where the running frame's k-th local and t-th temporary are.            *)
LocalSlot(frame, k) == frame.base + k - 1
TempSlot(frame, t) == frame.base + ProtoOf(frame).slots + t - 1

(* A row of `width` values from the t-th temporary on fits the frame.      *)
Fits(t, width) == ProtoOf(Current).slots + t - 1 + width <= ProtoOf(Current).registers

(* The running frame, changed.                                             *)
WithFrame(fs, frame) == [fs EXCEPT ![Len(fs)] = frame]

Listed(s) == {s[k] : k \in 1 .. Len(s)}
InUse(fs) == Listed(owner) \cup UNION {Listed(fs[k].vars) : k \in 1 .. Len(fs)}

Fresh(used, n) ==
  LET free == Names \ used
  IN  [k \in 1 .. n |-> CHOOSE x \in free : Cardinality({y \in free : y < x}) = k - 1]

-----------------------------------------------------------------------------
(* Mutant: a closed cell keeps the slot.                                   *)
ClosedCells_OnSlot(v, from) ==
  [c \in 1 .. Len(cells) |->
     IF \E s \in DOMAIN open : s >= from /\ open[s] = c
     THEN Closed(<<"slot", cells[c].slot>>) ELSE cells[c]]

(* Vm::close: every cell open at or above `from` takes its slot's value.   *)
ClosedCells(v, from) ==
  [c \in 1 .. Len(cells) |->
     IF \E s \in DOMAIN open : s >= from /\ open[s] = c
     THEN Closed(At(v, CHOOSE s \in DOMAIN open : s >= from /\ open[s] = c))
     ELSE cells[c]]
StillOpen(from) == [s \in {x \in DOMAIN open : x < from} |-> open[s]]

(* An Err out of step ends the run; nothing reads the frames after it.     *)
Throw ==
  /\ outcome' = "error"
  /\ UNCHANGED <<values, frames, open, cells, functions, packs, owner>>

(* Mutant: the callee's own slot is forgotten.                             *)
EnterBase_OnCallee(p, callee, args) ==
  IF p.vararg = "None" THEN callee + 1 ELSE callee + args

(* call::enter: where the frame starts, and how many arguments it keeps    *)
(* below its base for `...`.                                               *)
EnterBase(p, callee, args) ==
  IF p.vararg = "None" THEN callee + 1 ELSE callee + 1 + args
EnterVarargs(p, args) ==
  IF p.vararg = "None" THEN 0 ELSE Monus(args, p.params)
Fixed(p) == IF p.vararg = "Table" THEN p.params + 1 ELSE p.params

(* The arguments moved to the parameters, the rest of the frame nil.       *)
EnterValues(v, p, callee, args, pack) ==
  LET first == callee + 1
      base == EnterBase(p, callee, args)
      moved == Least(p.params, args)
      grown == Reserve(v, base + Greatest(p.registers, Fixed(p)))
      placed == IF base # first
                THEN Fill(Shift(grown, first, base, moved), base + moved, base + p.params, Nil)
                ELSE Fill(grown, first + moved, base + p.params, Nil)
      named == IF p.vararg = "Table" THEN Put(placed, base + p.params, pack) ELSE placed
  IN  Fill(named, base + Fixed(p), base + p.registers, Nil)

(* Entering f: the caller has checked the depth.                           *)
Enter(v, below, f, p, callee, args, want) ==
  LET base == EnterBase(p, callee, args)
      varargs == EnterVarargs(p, args)
      entered == EnterValues(v, p, callee, args, TableValue(Len(packs) + 1))
      extra == [k \in 1 .. varargs |-> At(entered, base - varargs + k - 1)]
  IN  /\ values' = entered
      /\ IF p.vararg = "Table"
         THEN /\ Len(packs) < MaxPacks
              /\ packs' = Append(packs, [items |-> extra, n |-> varargs])
         ELSE packs' = packs
      /\ frames' = Append(below,
           [func |-> f, base |-> base, top |-> base + p.registers, want |-> want,
            ret_to |-> callee, varargs |-> varargs,
            vars |-> Fresh(InUse(below), Fixed(p)), temps |-> 0, spread |-> FALSE])
      /\ UNCHANGED outcome

(* call::settle: results at `from` move down to `to`, cut or padded.       *)
Kept(produced, want) == IF want = All THEN produced ELSE want
SettleValues(v, from, to, produced, want) ==
  LET kept == Kept(produced, want)
      moved == Least(produced, kept)
  IN  Fill(Shift(Reserve(v, to + kept), from, to, moved), to + moved, to + kept, Nil)

(* Asked for all, the frame's top is where the row ends; asked for a       *)
(* number, the compiler knows that many more temporaries are there.        *)
SettleFrames(fs, to, produced, want) ==
  IF fs = <<>> THEN fs
  ELSE IF want = All
       THEN WithFrame(fs, [fs[Len(fs)] EXCEPT !.top = to + produced, !.spread = TRUE])
  ELSE WithFrame(fs, [fs[Len(fs)] EXCEPT !.temps = @ + want])

(* dispatch::finish: close the frame's locals, leave it, hand its results  *)
(* to the frame below.                                                     *)
Finish(v, from, produced) ==
  /\ cells' = ClosedCells(v, Current.base)
  /\ open' = StillOpen(Current.base)
  /\ values' = SettleValues(v, from, Current.ret_to, produced, Current.want)
  /\ frames' = SettleFrames(Below, Current.ret_to, produced, Current.want)
  /\ UNCHANGED <<functions, packs, outcome, owner>>

(* Native: the host pushes its results onto the end of the stack, they     *)
(* settle over the callee, and what lies above the old height goes.        *)
NativeValues(v, callee, results, want) ==
  LET mark == Len(v)
      settled == SettleValues(v \o results, mark, callee, Len(results), want)
      end == callee + Kept(Len(results), want)
  IN  Truncate(settled, Greatest(mark, end))

-----------------------------------------------------------------------------
Init ==
  /\ program \in Programs
  /\ values = <<>> /\ frames = <<>>
  /\ open = [s \in {} |-> 0] /\ cells = <<>> /\ owner = <<>>
  /\ functions = <<>> /\ packs = <<>>
  /\ outcome = "running"

(* Vm::run: a chunk's function, its one upvalue the globals, called with   *)
(* nothing above whatever the last chunk left on the stack.                *)
Run ==
  /\ outcome = "running" /\ frames = <<>>
  /\ Len(functions) < MaxFunctions /\ Len(cells) < MaxCells
  /\ LET at == Len(values)
         f == Len(functions) + 1
     IN  /\ functions' = Append(functions, [proto |-> Main, upvals |-> <<Len(cells) + 1>>])
         /\ cells' = Append(cells, Closed(Globals))
         /\ owner' = owner \o Fresh(InUse(frames), 1)
         /\ Enter(Put(Reserve(values, at + 1), at, FunctionValue(f)),
                  <<>>, f, Proto[Main], at, 0, 0)
  /\ UNCHANGED open

(* An instruction that writes one register: here the next temporary.       *)
Evaluate(v) ==
  LET t == Current.temps + 1
  IN  /\ ~Current.spread /\ Fits(t, 1)
      /\ values' = Put(values, TempSlot(Current, t), v)
      /\ frames' = WithFrame(frames, [Current EXCEPT !.temps = t])

(* LoadConst, LoadNil, LoadTrue, LoadFalse; a host function is found in a  *)
(* table, which only passes it along.                                      *)
Load(v) == Evaluate(v) /\ UNCHANGED <<open, heap, outcome>>

(* Move, from a local and to one.                                          *)
MoveFromLocal(k) ==
  /\ Evaluate(At(values, LocalSlot(Current, k)))
  /\ UNCHANGED <<open, heap, outcome>>

(* The last temporary's value, consumed.                                   *)
Last == At(values, TempSlot(Current, Current.temps))
Consumed == WithFrame(frames, [Current EXCEPT !.temps = @ - 1])

(* The locals that name a vararg table: the resolver lets nothing assign   *)
(* them, neither their function nor a closure inside it.                   *)
NamesPack(s) ==
  \E k \in 1 .. Depth :
    /\ ProtoOf(frames[k]).vararg = "Table"
    /\ s = LocalSlot(frames[k], ProtoOf(frames[k]).params + 1)

MoveToLocal(k) ==
  /\ ~Current.spread /\ Current.temps > 0 /\ ~NamesPack(LocalSlot(Current, k))
  /\ values' = Put(values, LocalSlot(Current, k), Last)
  /\ frames' = Consumed
  /\ UNCHANGED <<open, heap, outcome>>

(* A declaration: its register is the depth it is declared at.             *)
Declare ==
  /\ ~Current.spread /\ Current.temps > 0
  /\ Len(Current.vars) < ProtoOf(Current).slots
  /\ values' = Put(values, LocalSlot(Current, Len(Current.vars) + 1), Last)
  /\ frames' = WithFrame(frames,
       [Current EXCEPT !.temps = @ - 1, !.vars = @ \o Fresh(InUse(frames), 1)])
  /\ UNCHANGED <<open, heap, outcome>>

(* A block's locals leave scope.  The compiler puts CloseUpvals at the     *)
(* lowest captured one; closing from the first of them closes the same.    *)
LeaveScopeFrom(from, kept) ==
  /\ ~Current.spread /\ Current.temps = 0
  /\ Fixed(ProtoOf(Current)) <= kept /\ kept < Len(Current.vars)
  /\ cells' = ClosedCells(values, from)
  /\ open' = StillOpen(from)
  /\ frames' = WithFrame(frames, [Current EXCEPT !.vars = SubSeq(@, 1, kept)])
  /\ UNCHANGED <<values, functions, packs, owner, outcome>>

(* Mutant: closes from one too high.                                       *)
LeaveScope_TooHigh(kept) == LeaveScopeFrom(LocalSlot(Current, kept + 2), kept)

LeaveScope(kept) == LeaveScopeFrom(LocalSlot(Current, kept + 1), kept)

Upvals == functions[Current.func].upvals

GetUpval(j) ==
  LET cell == cells[Upvals[j]]
  IN  /\ Evaluate(IF cell.kind = "Open" THEN At(values, cell.slot) ELSE cell.value)
      /\ UNCHANGED <<open, heap, outcome>>

(* Mutant: a write through an upvalue always goes to the cell.             *)
SetUpval_Detaches(j) ==
  /\ ~Current.spread /\ Current.temps > 0
  /\ cells' = [cells EXCEPT ![Upvals[j]] = Closed(Last)]
  /\ open' = [s \in {x \in DOMAIN open : open[x] # Upvals[j]} |-> open[s]]
  /\ frames' = Consumed
  /\ UNCHANGED <<values, functions, packs, owner, outcome>>

SetUpval(j) ==
  LET c == Upvals[j]
  IN  /\ ~Current.spread /\ Current.temps > 0
      /\ IF cells[c].kind = "Open"
         THEN /\ ~NamesPack(cells[c].slot)
              /\ values' = Put(values, cells[c].slot, Last) /\ UNCHANGED cells
         ELSE cells' = [cells EXCEPT ![c] = Closed(Last)] /\ UNCHANGED values
      /\ frames' = Consumed
      /\ UNCHANGED <<open, functions, packs, owner, outcome>>

(* Closure: each captured slot's cell, the one already open or a new one,  *)
(* and the cells handed down from the running function.                    *)
Closure(p, sources) ==
  LET captures == {j \in 1 .. Len(sources) : sources[j][1] = "ParentLocal"}
      slot(j) == LocalSlot(Current, sources[j][2])
      new == {slot(j) : j \in captures} \ DOMAIN open
      nth(n) == CHOOSE s \in new : Cardinality({x \in new : x < s}) = n - 1
      cell(s) == IF s \in new THEN Len(cells) + Cardinality({x \in new : x <= s})
                 ELSE open[s]
      count == Cardinality(new)
  IN  /\ Len(functions) < MaxFunctions /\ Len(cells) + count <= MaxCells
      /\ Evaluate(FunctionValue(Len(functions) + 1))
      /\ cells' = cells \o [n \in 1 .. count |-> Open(nth(n))]
      /\ owner' = owner \o [n \in 1 .. count |-> Current.vars[nth(n) - Current.base + 1]]
      /\ open' = [s \in DOMAIN open \cup new |-> cell(s)]
      /\ functions' = Append(functions,
           [proto |-> p,
            upvals |-> [j \in 1 .. Len(sources) |->
              IF j \in captures THEN cell(slot(j)) ELSE Upvals[sources[j][2]]]])
      /\ UNCHANGED <<packs, outcome>>

-----------------------------------------------------------------------------
(* The arguments above a callee: counted by the instruction, or up to the  *)
(* frame's top when the last producer left its row open.                   *)
Args(i) ==
  IF Current.spread THEN Current.top - TempSlot(Current, i) - 1 ELSE Current.temps - i

(* Mutant: the caller's top stays where the last open row ended.           *)
Waiting_Unsettled(i) ==
  WithFrame(frames, [Current EXCEPT !.temps = i - 1, !.spread = FALSE])

(* Call: settle_top, then call::call.                                      *)
Waiting(i) ==
  WithFrame(frames, [Current EXCEPT !.top = Current.base + ProtoOf(Current).registers,
                                    !.temps = i - 1, !.spread = FALSE])

Asks(i, want) == Fits(i, IF want = All THEN 1 ELSE want)

CallLua(i, want) ==
  LET callee == TempSlot(Current, i)
      f == At(values, callee)[2]
  IN  /\ IsFunction(At(values, callee)) /\ Asks(i, want)
      /\ IF Depth >= DEPTH THEN Throw
         ELSE /\ Enter(values, Waiting(i), f, Proto[functions[f].proto], callee, Args(i), want)
              /\ UNCHANGED <<open, cells, functions, owner>>

CallNative(i, want, results) ==
  LET callee == TempSlot(Current, i)
  IN  /\ At(values, callee) = Native /\ Asks(i, want)
      /\ \/ Throw
         \/ /\ values' = NativeValues(values, callee, results, want)
            /\ frames' = SettleFrames(Waiting(i), callee, Len(results), want)
            /\ UNCHANGED <<open, heap, outcome>>

CallOther(i) ==
  LET v == At(values, TempSlot(Current, i))
  IN  ~IsFunction(v) /\ v # Native /\ Throw

(* Mutant: moves the arguments without counting the callee.                *)
TailCallLua_LosesLast ==
  LET from == TempSlot(Current, 1)
      f == At(values, from)[2]
  IN  /\ Current.temps > 0 /\ IsFunction(At(values, from))
      /\ cells' = ClosedCells(values, Current.base)
      /\ open' = StillOpen(Current.base)
      /\ Enter(Shift(values, from, Current.ret_to, Args(1)), Below,
               f, Proto[functions[f].proto], Current.ret_to, Args(1), Current.want)
      /\ UNCHANGED <<functions, owner>>

(* TailCall of a Lua function: the frame goes, its callee and arguments    *)
(* take its place.  A frame has just left, so enter finds the depth free.  *)
TailCallLua ==
  LET from == TempSlot(Current, 1)
      f == At(values, from)[2]
  IN  /\ Current.temps > 0 /\ IsFunction(At(values, from))
      /\ cells' = ClosedCells(values, Current.base)
      /\ open' = StillOpen(Current.base)
      /\ Enter(Shift(values, from, Current.ret_to, Args(1) + 1), Below,
               f, Proto[functions[f].proto], Current.ret_to, Args(1), Current.want)
      /\ UNCHANGED <<functions, owner>>

(* TailCall of a host function: it runs while the frame stands, and the    *)
(* frame returns whatever it answered.                                     *)
TailCallNative(results) ==
  LET from == TempSlot(Current, 1)
  IN  /\ Current.temps > 0 /\ At(values, from) = Native
      /\ \/ Throw
         \/ Finish(NativeValues(values, from, results, All), from, Len(results))

Return ==
  Finish(values, TempSlot(Current, 1),
         IF Current.spread THEN Current.top - TempSlot(Current, 1) ELSE Current.temps)

(* Vararg: from below the frame, or from the table that names them.        *)
Named == ProtoOf(Current).vararg = "Table"
Pack == packs[At(values, Current.base + ProtoOf(Current).params)[2]]
(* Mutant: a named vararg spreads one value more than its n says.          *)
Available_OneMore == IF Named THEN Pack.n + 1 ELSE Current.varargs
Available == IF Named THEN Pack.n ELSE Current.varargs

Vararg(want) ==
  LET to == TempSlot(Current, Current.temps + 1)
      wanted == IF want = All THEN Available ELSE want
      copied == Least(wanted, Available)
      grown == Reserve(values, to + wanted)
      item(k) == IF k <= Len(Pack.items) THEN Pack.items[k] ELSE Nil
      spilled == IF Named
                 THEN [k \in 1 .. Len(grown) |->
                         IF to < k /\ k <= to + copied THEN item(k - to) ELSE grown[k]]
                 ELSE Shift(grown, Current.base - Current.varargs, to, copied)
  IN  /\ ProtoOf(Current).vararg # "None" /\ ~Current.spread
      /\ Asks(Current.temps + 1, want)
      /\ IF Named /\ Pack.n = BadCount THEN Throw
         ELSE IF to + wanted > HEIGHT THEN Throw
         ELSE /\ values' = Fill(spilled, to + copied, to + wanted, Nil)
              /\ frames' = SettleFrames(frames, to, wanted, want)
              /\ UNCHANGED <<open, heap, outcome>>

(* NewTable, for a constructor.                                            *)
NewTable ==
  /\ Len(packs) < MaxPacks
  /\ Evaluate(TableValue(Len(packs) + 1))
  /\ packs' = Append(packs, [items |-> <<>>, n |-> BadCount])
  /\ UNCHANGED <<open, cells, functions, owner, outcome>>

(* SetList, and SetListSpread up to the frame's top: the row above the     *)
(* i-th temporary, the constructor's table, goes into it in order.         *)
SetList(i) ==
  LET from == TempSlot(Current, i + 1)
      count == IF Current.spread THEN Current.top - from ELSE Current.temps - i
      t == At(values, TempSlot(Current, i))[2]
  IN  /\ IsTable(At(values, TempSlot(Current, i)))
      /\ count > 0 \/ Current.spread
      /\ Len(packs[t].items) + count <= MaxItems
      /\ packs' = [packs EXCEPT ![t].items =
                     @ \o [k \in 1 .. count |-> At(values, from + k - 1)]]
      /\ frames' = WithFrame(frames,
           [Current EXCEPT !.top = IF Current.spread
                                   THEN Current.base + ProtoOf(Current).registers ELSE @,
                           !.temps = i, !.spread = FALSE])
      /\ UNCHANGED <<values, open, cells, functions, owner, outcome>>

(* SetIndex on the table that names the extra arguments: its n.            *)
StoreCount(n) ==
  /\ Named /\ ~Current.spread
  /\ packs' = [packs EXCEPT ![At(values, Current.base + ProtoOf(Current).params)[2]].n = n]
  /\ UNCHANGED <<values, frames, open, cells, functions, owner, outcome>>

Sources(vars_, ups) ==
  ({"ParentLocal"} \X (1 .. vars_)) \cup ({"ParentUpval"} \X (1 .. ups))

Step ==
  LET locals == 1 .. Len(Current.vars)
      temps == 1 .. Current.temps
      ups == 1 .. Len(Upvals)
  IN  \/ \E v \in Loads : Load(v)
      \/ \E k \in locals : MoveFromLocal(k) \/ MoveToLocal(k)
      \/ Declare
      \/ \E kept \in 0 .. Len(Current.vars) - 1 : LeaveScope(kept)
      \/ \E j \in ups : GetUpval(j) \/ SetUpval(j)
      \/ \E p \in DOMAIN Proto \ {Main} :
           \E sources \in [1 .. Proto[p].upvals -> Sources(Len(Current.vars), Len(Upvals))] :
             Closure(p, sources)
      \/ \E i \in temps, want \in Wants : CallLua(i, want)
      \/ \E i \in temps, want \in Wants, results \in HostResults : CallNative(i, want, results)
      \/ \E i \in temps : CallOther(i)
      \/ TailCallLua
      \/ \E results \in HostResults : TailCallNative(results)
      \/ Return
      \/ \E want \in Wants : Vararg(want)
      \/ NewTable
      \/ \E i \in temps : SetList(i)
      \/ \E n \in Counts : StoreCount(n)

Next == (Run \/ (Running /\ Step)) /\ UNCHANGED program

Spec == Init /\ [][Next]_vars

-----------------------------------------------------------------------------
Value == Plain \cup {Native} \cup ({"function"} \X (1 .. MaxFunctions))
           \cup ({"table"} \X (1 .. MaxPacks))

TypeOK ==
  /\ values \in Seq(Value)
  /\ \A k \in 1 .. Depth :
       LET f == frames[k]
       IN  /\ f.func \in 1 .. Len(functions)
           /\ {f.base, f.top, f.ret_to, f.varargs, f.temps} \subseteq Nat
           /\ f.want \in Wants \cup {0} /\ f.spread \in BOOLEAN
           /\ Len(f.vars) \in Fixed(ProtoOf(f)) .. ProtoOf(f).slots
           /\ f.temps \in 0 .. ProtoOf(f).registers - ProtoOf(f).slots
  /\ DOMAIN open \subseteq 0 .. Len(values) - 1
  /\ \A s \in DOMAIN open : open[s] \in 1 .. Len(cells)
  /\ \A c \in 1 .. Len(cells) :
       cells[c].kind = "Closed" => cells[c].value \in Value
  /\ \A f \in 1 .. Len(functions) : Listed(functions[f].upvals) \subseteq 1 .. Len(cells)
  /\ Len(owner) = Len(cells)
  /\ outcome \in {"running", "error"}

(* An open cell points at a local in scope of a live frame, never at a     *)
(* register that now holds something else: every way out of a scope (a     *)
(* block, a return, a tail call) closed what it captured.                  *)
OpenSlotsAreLocals ==
  \A s \in DOMAIN open :
    /\ cells[open[s]] = Open(s)
    /\ \E k \in 1 .. Depth : \E i \in 1 .. Len(frames[k].vars) :
         s = LocalSlot(frames[k], i) /\ owner[open[s]] = frames[k].vars[i]

(* Each frame starts right above what its caller still needs, with its     *)
(* extra arguments in between: the caller's locals and temporaries are     *)
(* below everything the callee, and its results, may write.                *)
FramesNest ==
  \A k \in 1 .. Depth - 1 :
    LET caller == frames[k]  callee == frames[k + 1]
    IN  /\ callee.ret_to = TempSlot(caller, caller.temps + 1)
        /\ callee.ret_to < callee.base - callee.varargs
        /\ ~caller.spread

(* frame.rs roots: everything a live frame may still read lies between     *)
(* base - varargs and top, on the stack.  top is above the registers only  *)
(* while an open row waits for its consumer, and is back before any call.  *)
RootsCover ==
  \A k \in 1 .. Depth :
    LET f == frames[k]
    IN  /\ f.varargs <= f.base /\ f.top <= Len(values)
        /\ f.base + Len(f.vars) <= f.top
        /\ TempSlot(f, f.temps + 1) <= f.top
        /\ ~f.spread => f.top = f.base + ProtoOf(f).registers
=============================================================================
