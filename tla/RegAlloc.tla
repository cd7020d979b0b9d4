------------------------------- MODULE RegAlloc -------------------------------
(***************************************************************************)
(* Register allocation: the virtual registers of one function fitted into  *)
(* the registers of its frame (alloc/window.rs, order.rs, live.rs and      *)
(* assign.rs).                                                             *)
(*                                                                         *)
(* These are the passes themselves, as operators; Lowering makes the       *)
(* functions they are given and Frame runs what they answer.  An           *)
(* instruction is                                                          *)
(*   kind  : which of ir::Op                                               *)
(*   uses  : the registers it reads, those of its row aside                *)
(*   row   : the registers whose values it wants in a row                  *)
(*   dests : the registers it writes                                       *)
(*   multi : whether its values run to the top of the frame                *)
(*   spread: whether it takes the values the one before it left there      *)
(*   to    : the blocks control may go to                                  *)
(*   value : what it names beside registers: a constant, 0 for nil, or     *)
(*           where in a table a SetList begins                             *)
(*   line  : the line it was lowered from                                  *)
(*   id    : which instruction of the lowering it is; 0 for one that only  *)
(*           moves a value into or out of a row                            *)
(*   scope : the declarations in scope where it was lowered                *)
(* The passes never look at the last four.                                 *)
(* A declaration (ir::Slot) is a register, its number, and the             *)
(* positions, <<block, instruction>>, where its scope begins and ends.     *)
(* Registers are numbered from 0, blocks and instructions from 1.          *)
(***************************************************************************)
EXTENDS Integers, SequencesExt

Total(s) ==
  LET sum[k \in 0 .. Len(s)] == IF k = 0 THEN 0 ELSE sum[k - 1] + s[k] IN sum[Len(s)]
Flat(s) == LET all[k \in 0 .. Len(s)] == IF k = 0 THEN <<>> ELSE all[k - 1] \o s[k] IN all[Len(s)]

Rows == {"Call", "TailCall", "Return", "SetList", "Vararg"}
Reads(i) == i.uses \o i.row
Named(i) == ToSet(Reads(i)) \cup ToSet(i.dests)

Instr(kind, uses, row, dests) ==
  [kind |-> kind, uses |-> uses, row |-> row, dests |-> dests,
   multi |-> FALSE, spread |-> FALSE, to |-> <<>>,
   value |-> 0, line |-> 0, id |-> 0, scope |-> {}]
Move(dest, src) == Instr("Move", <<src>>, <<>>, <<dest>>)
OnLine(i, line) == [i EXCEPT !.line = line]

(* Each register of an instruction, under another name.                    *)
Renamed(i, name) ==
  [i EXCEPT !.uses = [k \in DOMAIN @ |-> name[@[k]]],
            !.row = [k \in DOMAIN @ |-> name[@[k]]],
            !.dests = [k \in DOMAIN @ |-> name[@[k]]]]
AllRenamed(blocks, name) ==
  [b \in 1 .. Len(blocks) |-> [k \in 1 .. Len(blocks[b]) |-> Renamed(blocks[b][k], name)]]

(* Consecutive registers from one on.                                      *)
Consecutive(from, count) == [k \in 1 .. count |-> from + k - 1]

-----------------------------------------------------------------------------
(* window.rs: each instruction that wants a row gets a fresh one, filled   *)
(* right before it, or by whatever makes the value if nothing else sees it.*)
Points(blocks) == UNION {{b} \X (1 .. Len(blocks[b])) : b \in 1 .. Len(blocks)}
At(blocks, p) == blocks[p[1]][p[2]]
Pinned(slots) == {slots[n].reg : n \in 1 .. Len(slots)}

Readings(blocks, reg) ==
  UNION {{<<p[1], p[2], n>> : n \in {m \in 1 .. Len(Reads(At(blocks, p))) : Reads(At(blocks, p))[m] = reg}} :
           p \in Points(blocks)}
Writings(blocks, reg) == {p \in Points(blocks) : reg \in ToSet(At(blocks, p).dests)}

(* Direct::takes: a temporary written once and read once, later in the     *)
(* same block.                                                             *)
Takes(wrote, read) ==
  /\ Cardinality(wrote) = 1
  /\ Cardinality(read) = 1
  /\ \A w \in wrote, r \in read : w[1] = r[1] /\ w[2] < r[2]

Width(i) == Max({Len(i.row), IF i.multi THEN 1 ELSE Len(i.dests)})

(* The row of the k-th of a run: the last one, which consumes, sits lowest *)
(* and each producer on the arguments below it.                            *)
Base(run, regs, k) ==
  regs + Total([j \in 1 .. Len(run) - k |-> Len(run[k + j].row)])

Settled(i, base) ==
  [i EXCEPT !.row = Consecutive(base, Len(@)),
            !.dests = IF i.multi THEN <<base>> ELSE Consecutive(base, Len(@))]

(* place: a run of producers and their consumer, from register `regs` on.  *)
(* `direct` are the registers a row may take from where they are made.     *)
Inputs(run, regs) ==
  Flat(Reverse([k \in 1 .. Len(run) |->
    [n \in 1 .. Len(run[k].row) |-> <<run[k].row[n], Base(run, regs, k) + n - 1, run[k].line>>]]))
Results(run, regs) ==
  Flat([k \in 1 .. Len(run) |->
    IF run[k].multi THEN <<>>
    ELSE [n \in 1 .. Len(run[k].dests) |->
            OnLine(Move(run[k].dests[n], Base(run, regs, k) + n - 1), run[k].line)]])
Filled(inputs) ==
  [n \in 1 .. Len(inputs) |-> OnLine(Move(inputs[n][2], inputs[n][1]), inputs[n][3])]

Place(run, regs, direct) ==
  IF run[1].kind \notin Rows
  THEN [out |-> run, regs |-> regs, taken |-> <<>>]
  ELSE [out |-> Filled(SelectSeq(Inputs(run, regs), LAMBDA p : p[1] \notin direct))
                  \o [k \in 1 .. Len(run) |-> Settled(run[k], Base(run, regs, k))]
                  \o Results(run, regs),
        regs |-> Max({Base(run, regs, k) + Width(run[k]) : k \in 1 .. Len(run)}
                       \cup {Base(run, regs, 1) + Len(run[1].row)}),
        taken |-> SelectSeq(Inputs(run, regs), LAMBDA p : p[1] \in direct)]

(* rewrite: the instructions of a block, run by run.                       *)
Took(s, placed) ==
  [out |-> s.out \o placed.out, regs |-> placed.regs, taken |-> s.taken \o placed.taken, run |-> <<>>]
Rewrite(instrs, regs, direct) ==
  LET step[k \in 0 .. Len(instrs)] ==
        IF k = 0 THEN [out |-> <<>>, regs |-> regs, taken |-> <<>>, run |-> <<>>]
        ELSE IF instrs[k].multi THEN [step[k - 1] EXCEPT !.run = Append(@, instrs[k])]
        ELSE LET s == step[k - 1]
             IN  Took(s, Place(Append(s.run, instrs[k]), s.regs, direct))
  IN  step[Len(instrs)]

Joins(s, done) ==
  [blocks |-> Append(s.blocks, done.out), regs |-> done.regs, taken |-> s.taken \o done.taken]
Rewritten(blocks, regs, direct) ==
  LET step[b \in 0 .. Len(blocks)] ==
        IF b = 0 THEN [blocks |-> <<>>, regs |-> regs, taken |-> <<>>]
        ELSE Joins(step[b - 1], Rewrite(blocks[b], step[b - 1].regs, direct))
  IN  step[Len(blocks)]

(* materialize; what a row took straight from its maker is written there.  *)
Redirected(done) ==
  AllRenamed(done.blocks,
    [reg \in 0 .. done.regs - 1 |->
       IF \E p \in ToSet(done.taken) : p[1] = reg
       THEN (CHOOSE p \in ToSet(done.taken) : p[1] = reg)[2] ELSE reg])

Materialize(blocks, slots, regs) ==
  Redirected(Rewritten(blocks, regs,
    {r \in (0 .. regs - 1) \ Pinned(slots) : Takes(Writings(blocks, r), Readings(blocks, r))}))

-----------------------------------------------------------------------------
(* order.rs: the blocks in reverse postorder, the unreached ones after.    *)
Successors(block) == IF block = <<>> THEN <<>> ELSE block[Len(block)].to

(* The blocks reached, each after those it leads to.  Every block is come  *)
(* to once, once more for each of its two ways on at most.                 *)
Postorder(blocks) ==
  LET top(s) == Last(s.stack)
      next(s) == Successors(blocks[top(s)[1]])[top(s)[2]]
      step[n \in 0 .. 3 * Len(blocks)] ==
        IF n = 0 THEN [stack |-> << <<1, 1>> >>, order |-> <<>>, seen |-> {1}]
        ELSE LET s == step[n - 1]
                 on == Append(Front(s.stack), <<top(s)[1], top(s)[2] + 1>>)
             IN  IF s.stack = <<>> THEN s
                 ELSE IF top(s)[2] > Len(Successors(blocks[top(s)[1]]))
                 THEN [s EXCEPT !.stack = Front(@), !.order = Append(@, top(s)[1])]
                 ELSE IF next(s) \in s.seen THEN [s EXCEPT !.stack = on]
                 ELSE [s EXCEPT !.stack = Append(on, <<next(s), 1>>), !.seen = @ \cup {next(s)}]
  IN  step[3 * Len(blocks)].order

Unreached(blocks, order) ==
  SelectSeq([b \in 1 .. Len(blocks) |-> b], LAMBDA b : b \notin ToSet(order))

ReversePostorder(blocks) ==
  Reverse(Postorder(blocks)) \o Unreached(blocks, Postorder(blocks))

(* linearize: the blocks and every reference to them.                      *)
InOrder(func, order, place) ==
  [func EXCEPT
    !.blocks = [n \in 1 .. Len(order) |->
      [k \in 1 .. Len(@[order[n]]) |->
        [@[order[n]][k] EXCEPT !.to = [t \in 1 .. Len(@) |-> place[@[t]]]]]],
    !.slots = [n \in 1 .. Len(@) |->
      [@[n] EXCEPT !.enters[1] = place[@], !.leaves[1] = place[@]]]]
Linearize(func) ==
  LET order == ReversePostorder(func.blocks)
  IN  InOrder(func, order, [b \in 1 .. Len(order) |-> CHOOSE n \in 1 .. Len(order) : order[n] = b])

-----------------------------------------------------------------------------
(* live.rs: the stretch of the stream each register has to survive.        *)
Start(blocks, b) == Total([n \in 1 .. b - 1 |-> Len(blocks[n])])
End(blocks, b) == Start(blocks, b) + Len(blocks[b]) - 1

(* Read before the block writes it.                                        *)
Upward(block) ==
  UNION {{r \in ToSet(Reads(block[k])) : \A j \in 1 .. k - 1 : r \notin ToSet(block[j].dests)} :
           k \in 1 .. Len(block)}
Written(block) == UNION {ToSet(block[k].dests) : k \in 1 .. Len(block)}

(* solve: which registers are alive where each block begins, as pairs of a *)
(* block and a register.  It goes around until nothing changes, which the  *)
(* longest way through the blocks bounds.                                  *)
Solve(blocks) ==
  LET flows == UNION {{b} \X ToSet(Successors(blocks[b])) : b \in 1 .. Len(blocks)}
      step[n \in 0 .. Len(blocks)] ==
        IF n = 0 THEN UNION {{b} \X Upward(blocks[b]) : b \in 1 .. Len(blocks)}
        ELSE LET known == step[n - 1]
             IN  known \cup UNION {{<<f[1], p[2]>> : p \in {q \in known :
                                    q[1] = f[2] /\ q[2] \notin Written(blocks[f[1]])}} : f \in flows}
  IN  step[Len(blocks)]

(* spans: every point a register is alive at, out of its block and into    *)
(* the next included.                                                      *)
Alive(blocks, incoming) ==
  {<<p[2], Start(blocks, p[1])>> : p \in incoming}
  \cup UNION {{<<p[2], End(blocks, b)>> :
                 p \in {q \in incoming : q[1] \in ToSet(Successors(blocks[b]))}} :
               b \in 1 .. Len(blocks)}
  \cup UNION {Named(At(blocks, p)) \X {Start(blocks, p[1]) + p[2] - 1} : p \in Points(blocks)}
Stretch(points) == [first |-> Min(points), last |-> Max(points)]
Stretches(alive) ==
  [r \in {x[1] : x \in alive} |-> Stretch({x[2] : x \in {y \in alive : y[1] = r}})]
Spans(blocks) == Stretches(Alive(blocks, Solve(blocks)))

-----------------------------------------------------------------------------
(* assign.rs: what wants registers, a single value or the row of a run of  *)
(* instructions, and where it may go.                                      *)
WritesUpward(i) == i.kind \in {"Call", "TailCall"} \/ (i.kind = "Vararg" /\ i.multi)

StartOf(i) == IF i.kind = "Vararg" THEN i.dests ELSE i.row

(* The runs of one block: its rows up to a consumer, after the one before. *)
Consumers(block) == {k \in 1 .. Len(block) : block[k].kind \in Rows /\ ~block[k].multi}
Members(block, c) ==
  {k \in 1 .. c : block[k].kind \in Rows /\ \A d \in Consumers(block) : d < c => d < k}
Begun(block, c) == {k \in Members(block, c) : StartOf(block[k]) # <<>>}
Run(block, start, c, begun, low) ==
  [from |-> low,
   width |-> Max({StartOf(block[k])[1] + Width(block[k]) : k \in begun}) - low,
   order |-> start + c,
   clobbers |-> {start + k - 1 : k \in {x \in Members(block, c) : WritesUpward(block[x])}}]
RunTo(block, start, c, begun) == Run(block, start, c, begun, Min({StartOf(block[k])[1] : k \in begun}))
Runs(blocks, b) ==
  {run \in {RunTo(blocks[b], Start(blocks, b), c, Begun(blocks[b], c)) :
              c \in {x \in Consumers(blocks[b]) : Begun(blocks[b], x) # {}}} : run.width > 0}

Joined(spans, regs) ==
  [first |-> Min({spans[r].first : r \in regs}), last |-> Max({spans[r].last : r \in regs})]

(* items: the runs in the order of the stream, then the single registers;  *)
(* sorted by where they begin, which leaves equals in that order.          *)
Covers(run) == run.from .. run.from + run.width - 1
RowItems(runs, spans) ==
  {Joined(spans, Covers(run) \cap DOMAIN spans) @@ run :
     run \in {r \in runs : Covers(r) \cap DOMAIN spans # {}}}
SingleItems(runs, slots, spans, end) ==
  {spans[r] @@ [from |-> r, width |-> 1, order |-> end + r, clobbers |-> {}] :
     r \in DOMAIN spans \ (UNION {Covers(run) : run \in runs} \cup Pinned(slots))}
Before(x, y) == x.first < y.first \/ (x.first = y.first /\ x.order < y.order)
Sorted(all) ==
  [n \in 1 .. Cardinality(all) |->
     CHOOSE x \in all : Cardinality({y \in all : Before(y, x)}) = n - 1]
ItemsOf(runs, slots, spans, end) ==
  Sorted(RowItems(runs, spans) \cup SingleItems(runs, slots, spans, end))
Items(blocks, slots, spans) ==
  ItemsOf(UNION {Runs(blocks, b) : b \in 1 .. Len(blocks)}, slots, spans,
          Start(blocks, Len(blocks) + 1))

(* Holds a value from before a point to after it.                          *)
Across(item, point) == item.first < point /\ point < item.last

(* Mutants: rows go wherever there is room; anything may sit among the     *)
(* declarations.                                                           *)
Floor_Ignored(item, earlier, base) == base
Floor_Zero(item, earlier, base) == 0

(* Whatever survives one of this run's calls sits below it.                *)
Floor(item, earlier, base) ==
  Max({base} \cup
    {p.at + p.item.width :
       p \in {x \in earlier : \E point \in item.clobbers : Across(x.item, point)}})

(* What a register last held has died when the item begins.                *)
Free(taken, at, item) ==
  \A r \in at .. at + item.width - 1 : r \in DOMAIN taken => taken[r] < item.first

(* The lowest run of registers free from where the item begins.            *)
Lowest(taken, floor, item) ==
  Min({at \in floor .. Max({floor} \cup {r + 1 : r \in DOMAIN taken}) : Free(taken, at, item)})

(* Declarations sit at their depth; everything else stacks on top.         *)
Above(slots) == Max({0} \cup {slots[n].number + 1 : n \in 1 .. Len(slots)})

(* How many registers the frame needs.                                     *)
Top(items, placed, base) ==
  Max({base} \cup {placed[n] + items[n].width : n \in 1 .. Len(items)})

(* assign: the items in order, each as low as it may go, above what        *)
(* survives its calls.                                                     *)
PlacedAt(s, item, at) ==
  [taken |-> [r \in at .. at + item.width - 1 |-> item.last] @@ s.taken,
   placed |-> Append(s.placed, at)]
Stacked(items, base) ==
  LET step[n \in 0 .. Len(items)] ==
        IF n = 0 THEN [taken |-> <<>>, placed |-> <<>>]
        ELSE LET s == step[n - 1]
                 earlier == {[item |-> items[k], at |-> s.placed[k]] : k \in 1 .. n - 1}
             IN  PlacedAt(s, items[n], Lowest(s.taken, Floor(items[n], earlier, base), items[n]))
  IN  step[Len(items)].placed

(* Where a register goes: with its item, or to its declaration's depth.    *)
Home(items, placed, slots, r) ==
  IF \E n \in 1 .. Len(items) : r \in Covers(items[n])
  THEN LET n == CHOOSE m \in 1 .. Len(items) : r \in Covers(items[m])
       IN  placed[n] + r - items[n].from
  ELSE IF r \in Pinned(slots) THEN (CHOOSE slot \in ToSet(slots) : slot.reg = r).number
  ELSE 0

Fitted(func, items, placed, home) ==
  [blocks |-> AllRenamed(func.blocks, home),
   slots |-> [n \in 1 .. Len(func.slots) |-> [func.slots[n] EXCEPT !.reg = home[@]]],
   regs |-> Top(items, placed, Above(func.slots))]
Fit(func, items, placed) ==
  Fitted(func, items, placed,
    [r \in Pinned(func.slots) \cup UNION {Named(At(func.blocks, p)) : p \in Points(func.blocks)} |->
       Home(items, placed, func.slots, r)])
FitItems(func, items) == Fit(func, items, Stacked(items, Above(func.slots)))
Assign(func) == FitItems(func, Items(func.blocks, func.slots, Spans(func.blocks)))

(* allocate, for one function.                                             *)
Allocate(blocks, slots, regs) ==
  Assign(Linearize([blocks |-> Materialize(blocks, slots, regs), slots |-> slots]))
===============================================================================
