------------------------------- MODULE Lowering -------------------------------
(***************************************************************************)
(* The lowering of one function (lower/expr.rs, stat.rs and func.rs): its  *)
(* statements and expressions into blocks of instructions over as many     *)
(* virtual registers as they ask for.                                      *)
(*                                                                         *)
(* The program is not given: each step decides what the next statement or  *)
(* expression is and does what its method does.  What the method has still *)
(* to do afterwards, the calls it makes included, waits in `todo`.  A      *)
(* register a method will need is handed out when the method starts; the   *)
(* code hands out some of them a little later, which renumbers them.       *)
(* Blocks are made when the code makes them: those nothing reaches are     *)
(* emitted in that order.                                                  *)
(*                                                                         *)
(* Left to other modules: closures and what they capture (Vm, Jumps),      *)
(* goto (Jumps).  A global is an upvalue read and an Index, like any other *)
(* computation from temporaries.                                           *)
(***************************************************************************)
EXTENDS RegAlloc

CONSTANTS
  Programs,         (* the kinds of function lowered: for each, its         *)
                    (* parameters, the expressions and statements it is     *)
                    (* made of, and bounds on how many                      *)
  FieldsPerStore,   (* positional fields stored at a time                   *)
  Constants         (* bound: the constants a function writes               *)

ASSUME FieldsAssumption == {FieldsPerStore, Constants} \subseteq Nat \ {0}
ASSUME ProgramsAssumption ==
  \A p \in Programs :
    /\ {p.params, p.maxStats, p.maxExprs, p.maxArgs, p.maxNames} \subseteq Nat
    /\ "call" \in p.exprs
    /\ p.exprs \subseteq {"local", "global", "unary", "binary", "call", "method", "vararg",
                          "table", "and"}
    /\ p.stats \subseteq {"local", "assign", "call", "do", "if", "while", "for", "in",
                          "break", "return"}

VARIABLES
  program,  (* the kind of function this is                                *)
  todo,     (* what is left of the methods under way, the next first       *)
  blocks,   (* FuncState.blocks                                            *)
  current,  (* FuncState.current                                           *)
  regs,     (* FuncState.regs                                              *)
  slots,    (* FuncState.slots, every declaration made                     *)
  locals,   (* FuncState.vars: the slot each local in scope fills, and     *)
            (* whether it is to be closed                                  *)
  loops,    (* FuncState.loops: where a break goes                         *)
  stats,    (* how many statements have been lowered                       *)
  exprs     (* how many expressions other than constants                   *)

lowerVars == <<program, todo, blocks, current, regs, slots, locals, loops, stats, exprs>>

Params == program.params
MaxStats == program.maxStats   (* statements                               *)
MaxExprs == program.maxExprs   (* expressions that are not constants       *)
MaxArgs == program.maxArgs     (* arguments, values or fields in one list  *)
MaxNames == program.maxNames   (* names one local statement declares       *)
Exprs == program.exprs
Stats == program.stats

Reg(n) == regs + n - 1
RegsFrom(from, n) == [k \in 1 .. n |-> Reg(from + k - 1)]
InScope == {locals[k].slot : k \in 1 .. Len(locals)}
HasClose == \E k \in 1 .. Len(locals) : locals[k].closes
LocalRegs == {slots[s].reg : s \in InScope}

Ends(i) == i.to # <<>> \/ i.kind \in {"Return", "TailCall"}
IsTerminated == blocks[current] # <<>> /\ Ends(Last(blocks[current]))
Position == <<current, Len(blocks[current]) + 1>>

(* Each statement is on a line of its own: the one being lowered, or the   *)
(* one about to be.                                                        *)
Line == IF todo # <<>> /\ Head(todo).do = "stats" THEN stats + 1 ELSE stats

-----------------------------------------------------------------------------
(* What can wait.                                                          *)
Expr(dest) == [do |-> "expr", dest |-> dest]
Multi(dests, open) == [do |-> "multi", dests |-> dests, open |-> open]
Callable(kind, dests, open) == [do |-> "call", kind |-> kind, dests |-> dests, open |-> open]
Emit(i) == [do |-> "emit", instr |-> OnLine(i, Line)]
EmitIfOpen(i) == [do |-> "reach", instr |-> OnLine(i, Line)]
JumpTo(b) == EmitIfOpen([Instr("Jump", <<>>, <<>>, <<>>) EXCEPT !.to = <<b>>])
SwitchTo(b) == [do |-> "switch", to |-> b]
Declare(reg, named, closes) == [do |-> "declare", reg |-> reg, named |-> named, closes |-> closes]
Leave(depth) == [do |-> "leave", depth |-> depth]
Loop(exit) == [do |-> "loop", exit |-> exit]
EndLoop == [do |-> "endloop"]
Block == [do |-> "stats"]
(* What a method does once the expressions before a new block are lowered. *)
AndThen(dest, onTrue) == [do |-> "and", dest |-> dest, onTrue |-> onTrue]
IfArm(cond, join, otherwise) == [do |-> "if", cond |-> cond, join |-> join, otherwise |-> otherwise]
WhileBody(cond, head) == [do |-> "while", cond |-> cond, head |-> head]
ForBody(four) == [do |-> "for", four |-> four]
InLoop(seven) == [do |-> "in", seven |-> seven]

Plain(kind, uses, dests) == Emit(Instr(kind, uses, <<>>, dests))
Constant(dest, value) == [Instr("Const", <<>>, <<>>, <<dest>>) EXCEPT !.value = value]
Const(dest, value) == Emit(Constant(dest, value))
Branch(cond, then, otherwise) ==
  Emit([Instr("Branch", <<cond>>, <<>>, <<>>) EXCEPT !.to = <<then, otherwise>>])
Body == <<Block, Leave(Len(locals))>>

-----------------------------------------------------------------------------
(* Each way to go on: what is then left to do, and how many registers and  *)
(* blocks it asked for.                                                    *)
Way(tasks, newRegs, newBlocks) == [tasks |-> tasks, regs |-> newRegs, blocks |-> newBlocks]

(* explist_open: n values each in a register, from the k-th new one on,    *)
(* and where the list is open one more that answers all it has.            *)
Operands(k, n) == [j \in 1 .. n |-> Expr(Reg(k + j - 1))]
ExplistOpen(k, n, open) == Operands(k, n) \o (IF open THEN <<Multi(<<>>, TRUE)>> ELSE <<>>)

(* callable: a function and its arguments; a method reads its object once. *)
CallWays(kind, dests, open) ==
  {LET call(row, callee) ==
         Emit([Instr(kind, <<>>, row,
                     IF kind = "TailCall" THEN <<>> ELSE IF open THEN <<callee>> ELSE dests)
                 EXCEPT !.multi = open, !.spread = spread])
   IN  IF form = "call"
       THEN Way(<<Expr(Reg(1))>> \o ExplistOpen(2, n, spread)
                  \o <<call(RegsFrom(1, n + 1), Reg(1))>>, n + 1, 0)
       ELSE Way(<<Expr(Reg(1)), Const(Reg(2), 1), Plain("Index", <<Reg(1), Reg(2)>>, <<Reg(3)>>)>>
                  \o ExplistOpen(4, n, spread)
                  \o <<call(<<Reg(3), Reg(1)>> \o RegsFrom(4, n), Reg(3))>>, n + 3, 0) :
     form \in Exprs \cap {"call", "method"}, n \in 0 .. MaxArgs, spread \in BOOLEAN}

(* multi: a call, or `...`.                                                *)
VarargWays(dests, open) ==
  IF "vararg" \notin Exprs THEN {}
  ELSE {Way(<<Emit([Instr("Vararg", <<>>, <<>>, IF open THEN <<Reg(1)>> ELSE dests)
                      EXCEPT !.multi = open])>>, IF open THEN 1 ELSE 0, 0)}
MultiWays(dests, open) == CallWays("Call", dests, open) \cup VarargWays(dests, open)

(* table: positional fields wait for a batch or for the end; others go in  *)
(* as they are met.  `pending` are the registers of those that wait, and   *)
(* `first` is where in the table they will go.                             *)
Store(dest, first, pending, spread) ==
  Emit([Instr("SetList", <<dest>>, pending, <<>>) EXCEPT !.spread = spread, !.value = first])
Fields(dest, fields, k) ==
  LET step[j \in 0 .. Len(fields)] ==
        IF j = 0 THEN [tasks |-> <<>>, pending |-> <<>>, first |-> 1]
        ELSE LET s == step[j - 1]
                 key == Reg(k + 2 * (j - 1))
                 src == Reg(k + 2 * (j - 1) + 1)
                 waiting == Append(s.pending, src)
             IN  CASE fields[j] = "open" ->
                        [s EXCEPT !.tasks = @ \o <<Multi(<<>>, TRUE), Store(dest, s.first, s.pending, TRUE)>>,
                                  !.pending = <<>>]
                   [] fields[j] = "keyed" ->
                        [s EXCEPT !.tasks = @ \o <<Expr(key), Expr(src), Plain("SetIndex", <<dest, key, src>>, <<>>)>>]
                   [] fields[j] = "positional" ->
                        IF Len(waiting) = FieldsPerStore
                        THEN [tasks |-> s.tasks \o <<Expr(src), Store(dest, s.first, waiting, FALSE)>>,
                              pending |-> <<>>, first |-> s.first + FieldsPerStore]
                        ELSE [s EXCEPT !.tasks = Append(@, Expr(src)), !.pending = waiting]
      last == step[Len(fields)]
  IN  last.tasks \o (IF last.pending = <<>> THEN <<>>
                      ELSE <<Store(dest, last.first, last.pending, FALSE)>>)
TableWays(dest) ==
  LET lists == UNION {[1 .. n -> {"positional", "keyed"}] : n \in 0 .. MaxArgs}
  IN  {Way(<<Plain("NewTable", <<>>, <<dest>>)>> \o Fields(dest, fields, 1), 2 * Len(fields), 0) :
         fields \in lists \cup {Append(f, "open") : f \in {g \in lists : Len(g) < MaxArgs}}}

(* short_circuit: both arms write dest.                                    *)
AndWays(dest) == {Way(<<Expr(dest), AndThen(dest, onTrue)>>, 0, 0) : onTrue \in BOOLEAN}
AndThenWay(dest, onTrue) ==
  LET rhs == Len(blocks) + 1
      join == Len(blocks) + 2
  IN  Way(<<IF onTrue THEN Branch(dest, rhs, join) ELSE Branch(dest, join, rhs),
            SwitchTo(rhs), Expr(dest), JumpTo(join), SwitchTo(join)>>, 0, 2)

(* expr: anything but a constant.  A binary operator reads a local where   *)
(* it lives; everything else is copied into a temporary first.             *)
ExprWays(dest) ==
  LET of(kind, ways) == IF kind \in Exprs THEN ways ELSE {}
      copy(reg, temp) == IF reg = temp THEN <<Expr(temp)>> ELSE <<>>
  IN  of("local", {Way(<<Emit(Move(dest, l))>>, 0, 0) : l \in LocalRegs})
      \cup of("global", {Way(<<Plain("GetUpval", <<>>, <<Reg(1)>>), Const(Reg(2), 1),
                               Plain("Index", <<Reg(1), Reg(2)>>, <<dest>>)>>, 2, 0)})
      \cup of("unary", {Way(<<Expr(Reg(1)), Plain("Unary", <<Reg(1)>>, <<dest>>)>>, 1, 0)})
      \cup of("binary", {Way(copy(l, Reg(1)) \o copy(r, Reg(2)) \o <<Plain("Binary", <<l, r>>, <<dest>>)>>, 2, 0) :
                           l \in LocalRegs \cup {Reg(1)}, r \in LocalRegs \cup {Reg(2)}})
      \cup MultiWays(<<dest>>, FALSE)
      \cup of("table", TableWays(dest))
      \cup of("and", AndWays(dest))

-----------------------------------------------------------------------------
(* explist: n values into the destinations.  The last may answer them all, *)
(* missing ones are nil, and one too many is worked out for nothing.  The  *)
(* registers of the destinations come first, so a spare is the k-th new.   *)
Explist(n, tail, dests, k) ==
  LET value(j) == IF j <= Len(dests) THEN Expr(dests[j]) ELSE Expr(Reg(k))
      rest == [j \in 1 .. n |-> value(j)]
      left == IF n < Len(dests) THEN SubSeq(dests, n + 1, Len(dests)) ELSE <<>>
  IN  rest \o (IF tail THEN <<Multi(left, FALSE)>>
               ELSE [j \in 1 .. Len(left) |-> Const(left[j], 0)])
Lists(count) == {<<n, tail>> \in (0 .. count + 1) \X BOOLEAN : tail => n <= count}

Declares(dests, named) == [j \in 1 .. Len(dests) |-> Declare(dests[j], named, FALSE)]

LocalWays ==
  {Way(Explist(list[1], list[2], RegsFrom(1, count), count + 1) \o Declares(RegsFrom(1, count), TRUE),
       count + 1, 0) :
     <<count, list>> \in UNION {{n} \X Lists(n) : n \in 1 .. MaxNames}}

(* target and assign: where each value goes is worked out before any value *)
(* is, and nothing is stored before all of them are.                       *)
AssignWays ==
  LET ways(l) ==
        {Way(Explist(list[1], list[2], RegsFrom(1, 1), 2) \o <<Emit(Move(l, Reg(1)))>>, 2, 0) :
           list \in Lists(1)}
        \cup {Way(<<Expr(Reg(1)), Expr(Reg(2))>> \o Explist(list[1], list[2], RegsFrom(3, 2), 5)
                    \o <<Emit(Move(l, Reg(3))), Plain("SetIndex", <<Reg(1), Reg(2), Reg(4)>>, <<>>)>>, 5, 0) :
                list \in Lists(2)}
  IN  UNION {ways(l) : l \in LocalRegs}

(* `made` is how many blocks there are when the statement starts: one more *)
(* than there were when what comes before it cannot reach it.              *)
IfWays(made) ==
  {Way(<<Expr(Reg(1)), IfArm(Reg(1), made + 1, otherwise)>>, 1, 1) : otherwise \in {<<>>, Body}}
IfArmWay(cond, join, otherwise) ==
  LET then == Len(blocks) + 1
      next == Len(blocks) + 2
  IN  Way(<<Branch(cond, then, next), SwitchTo(then)>> \o Body
            \o <<JumpTo(join), SwitchTo(next)>> \o otherwise \o <<JumpTo(join), SwitchTo(join)>>, 0, 2)

WhileWays(made) ==
  {Way(<<JumpTo(made + 1), SwitchTo(made + 1), Expr(Reg(1)), WhileBody(Reg(1), made + 1)>>, 1, 1)}
WhileBodyWay(cond, head) ==
  LET inside == Len(blocks) + 1
      exit == Len(blocks) + 2
  IN  Way(<<Branch(cond, inside, exit), SwitchTo(inside), Loop(exit)>> \o Body
            \o <<JumpTo(head), EndLoop, SwitchTo(exit)>>, 0, 2)

(* The four registers of a numeric for are declarations side by side, the  *)
(* last alone has a name.                                                  *)
ForWays ==
  {Way(Operands(1, 2) \o <<step>> \o Declares(RegsFrom(1, 3), FALSE) \o <<ForBody(RegsFrom(1, 4))>>, 4, 0) :
     step \in {Expr(Reg(3)), Const(Reg(3), 1)}}
ForBodyWay(four) ==
  LET inside == Len(blocks) + 1
      exit == Len(blocks) + 2
      outer == Len(locals) - 3
      turn(kind) == [Instr(kind, SubSeq(four, 1, 3), <<>>, <<four[1], four[4]>>) EXCEPT !.to = <<inside, exit>>]
  IN  Way(<<Emit(turn("ForPrep")), SwitchTo(inside), Declare(four[4], TRUE, FALSE), Loop(exit), Block,
            EmitIfOpen(turn("ForLoop")), EndLoop, Leave(outer + 3), SwitchTo(exit), Leave(outer)>>, 0, 2)

(* A generic for keeps its iterator, state and control in temporaries all  *)
(* through the loop; the value it closes is a declaration without a name.  *)
InWays ==
  {Way(Explist(list[1], list[2], RegsFrom(1, 4), 8) \o <<Declare(Reg(4), FALSE, TRUE), InLoop(RegsFrom(1, 7))>>, 8, 0) :
     list \in {<<0, TRUE>>, <<1, FALSE>>, <<2, TRUE>>}}
InLoopWay(seven) ==
  LET head == Len(blocks) + 1
      inside == Len(blocks) + 2
      exit == Len(blocks) + 3
      outer == Len(locals) - 1
      control == seven[3]
      var == seven[5]
  IN  Way(<<JumpTo(head), SwitchTo(head), Emit(Instr("Call", <<>>, SubSeq(seven, 1, 3), <<var>>)),
            Emit(Move(control, var)), Const(seven[6], 0),
            Plain("Binary", <<control, seven[6]>>, <<seven[7]>>), Branch(seven[7], inside, exit),
            SwitchTo(inside), Declare(var, TRUE, FALSE), Loop(exit), Block,
            JumpTo(head), EndLoop, Leave(outer + 1), SwitchTo(exit), Leave(outer)>>, 0, 3)

(* A return ends its block.  Of one call it is a tail call, unless         *)
(* something in scope is to be closed.                                     *)
ReturnWays ==
  LET give(n, spread) == Emit([Instr("Return", <<>>, RegsFrom(1, n), <<>>) EXCEPT !.spread = spread])
      open == {Way(<<Multi(<<>>, TRUE), give(0, TRUE)>>, 0, 0)}
      alone == IF HasClose THEN open
               ELSE {Way(<<Callable("TailCall", <<>>, FALSE)>>, 0, 0)}
                    \cup {Way(Append(way.tasks, give(0, TRUE)), way.regs, 0) : way \in VarargWays(<<>>, TRUE)}
  IN  alone \cup {Way(ExplistOpen(1, n, spread) \o <<give(n, spread)>>, n, 0) :
                    <<n, spread>> \in {l \in (0 .. MaxArgs) \X BOOLEAN : l # <<0, TRUE>>}}

StatWays(made) ==
  LET of(kind, ways) == IF kind \in Stats THEN ways ELSE {}
  IN  of("local", LocalWays) \cup of("assign", AssignWays) \cup of("do", {Way(Body, 0, 0)})
      \cup of("call", {Way(<<Callable("Call", <<>>, FALSE)>>, 0, 0)})
      \cup of("if", IfWays(made)) \cup of("while", WhileWays(made)) \cup of("for", ForWays) \cup of("in", InWays)
      \cup of("break", IF loops = <<>> THEN {} ELSE {Way(<<JumpTo(Last(loops))>>, 0, 0)})

-----------------------------------------------------------------------------
(* The return every function ends with, on a line after all statements.    *)
Ending == [do |-> "reach", instr |-> OnLine(Instr("Return", <<>>, <<>>, <<>>), MaxStats + 1)]

Init ==
  /\ program \in Programs
  /\ blocks = << <<>> >> /\ current = 1
  /\ regs = Params
  /\ slots = [n \in 1 .. Params |->
                [named |-> TRUE, reg |-> n - 1, number |-> n - 1, enters |-> <<1, 1>>, leaves |-> <<1, 1>>]]
  /\ locals = [n \in 1 .. Params |-> [slot |-> n, closes |-> FALSE]]
  /\ todo = <<Block, Ending, Leave(0)>>
  /\ loops = <<>> /\ stats = 0 /\ exprs = 0

Doing(what) == todo # <<>> /\ Head(todo).do = what

(* Do what one of the ways says, then the rest.                            *)
Go(way, rest) ==
  /\ todo' = way.tasks \o rest
  /\ regs' = regs + way.regs

Count == Total([b \in 1 .. Len(blocks) |-> Len(blocks[b])])
Emitted(i) ==
  blocks' = [blocks EXCEPT ![current] = Append(@, [i EXCEPT !.id = Count + 1, !.scope = InScope])]

(* Once the bound is reached only what needs no further expression is left.*)
Short(way) == \A t \in ToSet(way.tasks) : t.do \in {"expr", "emit"} /\ way.regs <= 1

(* A constant, nil and the others in turn, or another expression.          *)
LowerExpr ==
  /\ Doing("expr")
  /\ \/ /\ todo' = Tail(todo)
        /\ Emitted(OnLine(Constant(Head(todo).dest, (Count + 1) % (Constants + 1)), Line))
        /\ UNCHANGED <<regs, exprs>>
     \/ /\ exprs < MaxExprs
        /\ exprs' = exprs + 1
        /\ \E way \in ExprWays(Head(todo).dest) :
             /\ Go(way, Tail(todo))
             /\ blocks' = blocks \o [b \in 1 .. way.blocks |-> <<>>]
  /\ UNCHANGED <<current, slots, locals, loops, stats>>

LowerMulti ==
  /\ Doing("multi") \/ Doing("call")
  /\ \E way \in IF Doing("multi") THEN MultiWays(Head(todo).dests, Head(todo).open)
                 ELSE CallWays(Head(todo).kind, Head(todo).dests, Head(todo).open) :
       /\ exprs < MaxExprs \/ Short(way)
       /\ Go(way, Tail(todo))
  /\ exprs' = IF exprs < MaxExprs THEN exprs + 1 ELSE exprs
  /\ UNCHANGED <<blocks, current, slots, locals, loops, stats>>

(* What a task that waited for its expressions goes on with.               *)
GoesOn ==
  LET t == Head(todo)
  IN  CASE t.do = "and" -> AndThenWay(t.dest, t.onTrue)
        [] t.do = "if" -> IfArmWay(t.cond, t.join, t.otherwise)
        [] t.do = "while" -> WhileBodyWay(t.cond, t.head)
        [] t.do = "for" -> ForBodyWay(t.four)
        [] t.do = "in" -> InLoopWay(t.seven)

LowerRest ==
  /\ todo # <<>> /\ Head(todo).do \in {"and", "if", "while", "for", "in"}
  /\ Go(GoesOn, Tail(todo))
  /\ blocks' = blocks \o [b \in 1 .. GoesOn.blocks |-> <<>>]
  /\ UNCHANGED <<current, slots, locals, loops, stats, exprs>>

(* Mutant: a statement after a jump goes where the jump is.                *)
LowerStat_SameBlock ==
  /\ Doing("stats") /\ stats < MaxStats
  /\ \E way \in StatWays(Len(blocks)) :
       /\ Go(way, todo)
       /\ blocks' = blocks \o [b \in 1 .. way.blocks |-> <<>>]
  /\ stats' = stats + 1
  /\ UNCHANGED <<current, slots, locals, loops, exprs>>

(* stats: one more statement.  After a jump it is unreachable, and goes    *)
(* into a block of its own.                                                *)
LowerStat ==
  /\ Doing("stats") /\ stats < MaxStats
  /\ LET made == Len(blocks) + IF IsTerminated THEN 1 ELSE 0
     IN  /\ current' = IF IsTerminated THEN made ELSE current
         /\ \E way \in StatWays(made) :
              /\ Go(way, todo)
              /\ blocks' = blocks \o [b \in 1 .. made - Len(blocks) + way.blocks |-> <<>>]
  /\ stats' = stats + 1
  /\ UNCHANGED <<slots, locals, loops, exprs>>

(* A return, which the grammar lets only end a block.                      *)
LowerReturn ==
  /\ Doing("stats") /\ stats < MaxStats /\ "return" \in Stats
  /\ \E way \in ReturnWays : Go(way, Tail(todo))
  /\ IF IsTerminated
     THEN blocks' = Append(blocks, <<>>) /\ current' = Len(blocks) + 1
     ELSE UNCHANGED <<blocks, current>>
  /\ stats' = stats + 1
  /\ UNCHANGED <<slots, locals, loops, exprs>>

EndStats ==
  /\ Doing("stats")
  /\ todo' = Tail(todo)
  /\ UNCHANGED <<blocks, current, regs, slots, locals, loops, stats, exprs>>

DoEmit ==
  /\ Doing("emit")
  /\ Emitted(Head(todo).instr)
  /\ todo' = Tail(todo)
  /\ UNCHANGED <<current, regs, slots, locals, loops, stats, exprs>>

(* jump_to, and the ends of a numeric for and of the function.             *)
DoReach ==
  /\ Doing("reach")
  /\ IF IsTerminated THEN UNCHANGED blocks ELSE Emitted(Head(todo).instr)
  /\ todo' = Tail(todo)
  /\ UNCHANGED <<current, regs, slots, locals, loops, stats, exprs>>

DoSwitch ==
  /\ Doing("switch")
  /\ current' = Head(todo).to
  /\ todo' = Tail(todo)
  /\ UNCHANGED <<blocks, regs, slots, locals, loops, stats, exprs>>

(* declare: numbered by how deep in the scope stack it sits.               *)
DoDeclare ==
  /\ Doing("declare")
  /\ slots' = Append(slots, [named |-> Head(todo).named, reg |-> Head(todo).reg,
                             number |-> Len(locals), enters |-> Position, leaves |-> Position])
  /\ locals' = Append(locals, [slot |-> Len(slots) + 1, closes |-> Head(todo).closes])
  /\ todo' = Tail(todo)
  /\ UNCHANGED <<blocks, current, regs, loops, stats, exprs>>

DoLeave ==
  /\ Doing("leave")
  /\ LET leaving == {locals[k].slot : k \in Head(todo).depth + 1 .. Len(locals)}
     IN  slots' = [s \in 1 .. Len(slots) |->
                    IF s \in leaving THEN [slots[s] EXCEPT !.leaves = Position] ELSE slots[s]]
  /\ locals' = SubSeq(locals, 1, Head(todo).depth)
  /\ todo' = Tail(todo)
  /\ UNCHANGED <<blocks, current, regs, loops, stats, exprs>>

DoLoop ==
  /\ Doing("loop") \/ Doing("endloop")
  /\ loops' = IF Doing("loop") THEN Append(loops, Head(todo).exit) ELSE Front(loops)
  /\ todo' = Tail(todo)
  /\ UNCHANGED <<blocks, current, regs, slots, locals, stats, exprs>>

Lower ==
  /\ \/ LowerExpr \/ LowerMulti \/ LowerStat \/ LowerReturn \/ EndStats \/ LowerRest
     \/ DoEmit \/ DoReach \/ DoSwitch \/ DoDeclare \/ DoLeave \/ DoLoop
  /\ UNCHANGED program

-----------------------------------------------------------------------------
(* An instruction is never put after the one that ends its block (the      *)
(* debug_assert of emit): nothing that control cannot reach the end of is  *)
(* ever added to.  And once a function is lowered each of its blocks ends, *)
(* which the emitter takes for granted, and none is gone to that is empty. *)
EmitsBeforeTheEnd ==
  /\ Doing("emit") \/ Doing("expr") => ~IsTerminated
  /\ todo = <<>> =>
       \A b \in 1 .. Len(blocks) :
         blocks[b] # <<>> =>
           /\ Ends(Last(blocks[b]))
           /\ \A t \in ToSet(Last(blocks[b]).to) : blocks[t] # <<>>

==============================================================================
