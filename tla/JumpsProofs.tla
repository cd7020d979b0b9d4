----------------------------- MODULE JumpsProofs -----------------------------
(***************************************************************************)
(* Blocks, labels and gotos, for bodies of any length.  The two phases are *)
(* tied by a history: what the lowering will have in scope after each      *)
(* statement.  The resolver never sees it, yet its counts of declarations  *)
(* measure it, and the lowering walks along it.                            *)
(***************************************************************************)
EXTENDS Jumps, FiniteSetTheorems, SequenceTheorems, TLAPS

(* What the resolver and the lowering hand each other, and keep.           *)
Kinds == {"local", "global", "label", "goto", "break", "end"} \cup Blocks

Statements == [kind : {"local"}, captured : BOOLEAN]
         \cup [kind : {"label"}, tail : BOOLEAN]
         \cup [kind : {"global", "goto", "break", "end"} \cup Blocks]

Bound == [stat : Nat, captured : BOOLEAN]
Block == [kind : Blocks, depth : Nat, outer : Nat]
Point == [locals : Seq(Bound), blocks : Seq(Block)]

LabelSet == [name : Names, stat : Nat, declarations : Nat, height : Nat]
GotoSet == [name : Names, stat : Nat, declarations : Nat]
FrameSet == [kind : {"function", "control"} \cup Blocks, declarations : Nat,
             labels : SUBSET LabelSet, gotos : SUBSET GotoSet]

(* Two stretches of locals have their first n in common.                   *)
Agree(s, t, n) == n <= Len(s) /\ n <= Len(t) /\ \A i \in 1 .. n : s[i] = t[i]

(* How many locals the innermost block has around its own.                 *)
Deep(blocks) == IF blocks = <<>> THEN 0 ELSE Last(blocks).depth

(* A label that ends its block.                                            *)
TailLabel(s) == s.kind = "label" /\ s.tail

(* What is in scope after statement k, from what is before it: a `for`     *)
(* has three locals without a name before its variable, the end of a       *)
(* block takes its locals.                                                 *)
Follows(from, to, s, k) ==
  /\ s.kind = "local" => /\ to.locals = Append(from.locals, Bind(k, s.captured))
                         /\ to.blocks = from.blocks
  /\ s.kind \in Blocks =>
       LET outer == Len(from.locals)
           depth == IF s.kind = "for" THEN outer + 3 ELSE outer
       IN  /\ to.locals = IF s.kind = "for"
                          THEN from.locals \o [i \in 1 .. 4 |-> Bind(k, i = 4)]
                          ELSE from.locals
           /\ to.blocks = Append(from.blocks, [kind |-> s.kind, depth |-> depth, outer |-> outer])
  /\ s.kind = "end" => /\ from.blocks # <<>>
                       /\ to.locals = SubSeq(from.locals, 1, Last(from.blocks).outer)
                       /\ to.blocks = Front(from.blocks)
  /\ s.kind \notin {"local", "end"} \cup Blocks => to = from

(* A block starts above what the blocks around it declared, and nothing    *)
(* captures the three locals a `for` hides.                                *)
NestedBlock(locals, blocks, i) ==
  LET block == blocks[i]
  IN  /\ block.depth <= Len(locals)
      /\ block.depth = IF block.kind = "for" THEN block.outer + 3 ELSE block.outer
      /\ \A j \in i + 1 .. Len(blocks) : block.depth <= blocks[j].outer
      /\ \A p \in block.outer + 1 .. block.depth : ~locals[p].captured

Nested(at) == \A i \in 1 .. Len(at.blocks) : NestedBlock(at.locals, at.blocks, i)

(* The history h of a body: what is in scope after each statement.         *)
Way(h, b) ==
  /\ b \in Seq(Statements)
  /\ h \in [0 .. Len(b) -> Point]
  /\ h[0] = [locals |-> <<>>, blocks |-> <<>>]
  /\ \A k \in 1 .. Len(b) :
       /\ Follows(h[k - 1], h[k], b[k], k)
       /\ b[k].kind = "break" => \E i \in 1 .. Len(h[k - 1].blocks) : h[k - 1].blocks[i].kind \in Loops
  /\ \A k \in 0 .. Len(b) : Nested(h[k]) /\ Len(h[k].locals) <= 4 * k

(* After a label that ends its block come labels only, until its end.      *)
Tails(h, b) ==
  \A l \in 1 .. Len(b) : TailLabel(b[l]) =>
    \A j \in l .. Len(b) : (\A i \in l + 1 .. j : b[i].kind # "end") =>
       TailLabel(b[j]) /\ h[j] = h[l - 1]

(* How many locals are alive once a label is reached.                      *)
AliveAt(h, b, l) == IF b[l].tail THEN Deep(h[l - 1].blocks) ELSE Len(h[l - 1].locals)

(* A goto finds what its label has alive; and all its label has in         *)
(* scope, if no goto passes a declaration on its way to a tail label.      *)
Reaches(h, b, g, l) ==
  /\ b[g].kind = "goto" /\ b[l].kind = "label"
  /\ Agree(h[g - 1].locals, h[l - 1].locals, AliveAt(h, b, l))
  /\ ~SkipsToTail /\ b[l].tail =>
       Agree(h[g - 1].locals, h[l - 1].locals, Len(h[l - 1].locals))

(* The jumps the resolver settled: one for a goto, and each finds its      *)
(* locals.                                                                 *)
Sent(h, b, jumps) ==
  /\ jumps \subseteq (1 .. Len(b)) \X (1 .. Len(b))
  /\ \A j \in jumps : Reaches(h, b, j[1], j[2])
  /\ \A j, k \in jumps : j[1] = k[1] => j[2] = k[2]

(* How many locals the first d declarations take, and how many             *)
(* declarations were made when the block around frame f went on.           *)
Size(counts, d) == IF d = 0 THEN 0 ELSE counts[d]
Ceiling(r, f) == IF f = Len(r.blocks) THEN r.declarations ELSE r.blocks[f + 1].declarations

(* The declarations in scope, globals included, and how many locals up     *)
(* to each: what the resolver counts measures what is in scope.            *)
Counted(at, r, counts) ==
  /\ counts \in Seq(Nat) /\ Len(counts) = r.declarations
  /\ \A i \in 1 .. Len(counts), j \in 1 .. Len(counts) : i <= j => counts[i] <= counts[j]
  /\ Size(counts, r.declarations) = Len(at.locals)

(* The i-th block of the body has a frame of the resolver, which counts    *)
(* as many declarations as the block has locals around it; a `for` has     *)
(* one more frame below, for its control variables.                        *)
PairedAt(at, r, counts, frames, i) ==
  LET f == frames[i]
      block == at.blocks[i]
      before == IF i = 1 THEN 1 ELSE frames[i - 1]
      frame == r.blocks[f]
  IN  /\ f \in 2 .. Len(r.blocks) /\ frame.kind = block.kind
      /\ block.kind = "for" =>
           /\ f = before + 2 /\ r.blocks[f - 1].kind = "control"
           /\ frame.declarations = r.blocks[f - 1].declarations + 1
           /\ block.outer = Size(counts, r.blocks[f - 1].declarations)
           /\ block.outer + 4 = Size(counts, frame.declarations)
      /\ block.kind # "for" =>
           f = before + 1 /\ block.outer = Size(counts, frame.declarations)

(* Every block has its frame, in order, and nothing else has one.          *)
Paired(at, r, counts, frames) ==
  /\ frames \in Seq(Nat) /\ Len(frames) = Len(at.blocks)
  /\ Len(r.blocks) = IF frames = <<>> THEN 1 ELSE frames[Len(frames)]
  /\ \A i, j \in 1 .. Len(frames) : i < j => frames[i] < frames[j]
  /\ \A i \in 1 .. Len(frames) : PairedAt(at, r, counts, frames, i)
  /\ \A f \in 2 .. Len(r.blocks) :
       r.blocks[f].kind # "control" => \E i \in 1 .. Len(frames) : frames[i] = f

(* The frames, from the function inwards, count no fewer declarations.     *)
Stacked(r) ==
  /\ r.blocks # <<>> /\ r.blocks[1].declarations = 0 /\ r.blocks[1].kind = "function"
  /\ \A f \in 1 .. Len(r.blocks) :
       /\ r.blocks[f].declarations <= r.declarations
       /\ \A e \in f .. Len(r.blocks) : r.blocks[f].declarations <= r.blocks[e].declarations
       /\ r.blocks[f].kind = "control" => r.blocks[f].labels = {} /\ r.blocks[f].gotos = {}

(* A label some frame holds: the locals it counted are in scope still,     *)
(* and those alive at it are among them.                                   *)
LabelAt(h, b, r, counts, f, l) ==
  /\ l.stat \in 1 .. Len(b) /\ b[l.stat].kind = "label"
  /\ l.declarations <= Ceiling(r, f)
  /\ Agree(h[l.stat - 1].locals, h[Len(b)].locals, Size(counts, l.declarations))
  /\ AliveAt(h, b, l.stat) <= Size(counts, l.declarations)
  /\ b[l.stat].tail => /\ TailLabel(b[Len(b)]) /\ f = Len(r.blocks)
                       /\ h[Len(b)] = h[l.stat - 1]
                       /\ l.height = r.declarations

LabelsHold(h, b, r, counts) ==
  \A f \in 1 .. Len(r.blocks) :
    /\ \A l \in r.blocks[f].labels : LabelAt(h, b, r, counts, f, l)
    /\ \A l, m \in r.blocks[f].labels : l.name = m.name => l = m

(* A goto some frame holds: the locals it counted are in scope still, as   *)
(* they were at the goto.                                                  *)
GotoAt(h, b, r, counts, f, g) ==
  /\ g.stat \in 1 .. Len(b) /\ b[g.stat].kind = "goto"
  /\ g.declarations <= Ceiling(r, f)
  /\ Agree(h[g.stat - 1].locals, h[Len(b)].locals, Size(counts, g.declarations))

GotosHold(h, b, r, counts) ==
  \A f \in 1 .. Len(r.blocks) : \A g \in r.blocks[f].gotos : GotoAt(h, b, r, counts, f, g)

(* A goto waits in one frame, or it has its jump.                          *)
GotosOnce(b, r) ==
  /\ \A f \in 1 .. Len(r.blocks) : \A g \in r.blocks[f].gotos :
       /\ \A j \in r.jumps : j[1] # g.stat
       /\ \A e \in 1 .. Len(r.blocks) : \A k \in r.blocks[e].gotos :
            k.stat = g.stat => k = g /\ e = f
  /\ \A s \in 1 .. Len(b) : b[s].kind = "goto" =>
       \/ \E j \in r.jumps : j[1] = s
       \/ \E f \in 1 .. Len(r.blocks) : \E g \in r.blocks[f].gotos : g.stat = s

ResolverType(b, r) ==
  /\ r \in [declarations : Nat, blocks : Seq(FrameSet), jumps : SUBSET (Nat \X Nat)]
  /\ r.declarations <= Len(b)

(* The history of a body with one more statement.                          *)
Longer(h, b, p) == [k \in 0 .. Len(b) + 1 |-> IF k <= Len(b) THEN h[k] ELSE p]

(* A statement that may come next, and the point it leads to.              *)
Walks(h, b, s, p) ==
  /\ s \in Statements /\ p \in Point /\ Follows(h[Len(b)], p, s, Len(b) + 1)
  /\ s.kind = "break" =>
       \E i \in 1 .. Len(h[Len(b)].blocks) : h[Len(b)].blocks[i].kind \in Loops
  /\ b # <<>> /\ TailLabel(b[Len(b)]) => s.kind = "end" \/ TailLabel(s)

(* A step of the resolver that takes no frame and no declaration away,     *)
(* so that what labels and gotos were said of holds after it.              *)
Grows(h, b, r, counts, s, p, q, more) ==
  /\ q.declarations \in Nat /\ Len(q.blocks) \in Nat
  /\ r.declarations <= q.declarations /\ Len(r.blocks) <= Len(q.blocks)
  /\ \A f \in 1 .. Len(r.blocks) : q.blocks[f].declarations = r.blocks[f].declarations
  /\ \A f \in Len(r.blocks) + 1 .. Len(q.blocks) :
       q.blocks[f].declarations \in Nat /\ r.declarations <= q.blocks[f].declarations
  /\ \A d \in 0 .. r.declarations : Size(more, d) = Size(counts, d)
  /\ Agree(h[Len(b)].locals, p.locals, Len(h[Len(b)].locals))
  /\ b # <<>> /\ TailLabel(b[Len(b)]) =>
       /\ TailLabel(s) /\ Len(q.blocks) = Len(r.blocks)
       /\ q.declarations = r.declarations /\ p = h[Len(b)]

(* A step that declares, or that adds labels or gotos to the innermost     *)
(* frame.                                                                  *)
Adds(h, b, r, counts, s, p, q, more, labels, gotos) ==
  /\ p.blocks = h[Len(b)].blocks
  /\ Agree(h[Len(b)].locals, p.locals, Len(h[Len(b)].locals))
  /\ ResolverType(Append(b, s), q) /\ q.jumps = r.jumps
  /\ Len(q.blocks) = Len(r.blocks) /\ r.declarations <= q.declarations
  /\ \A f \in 1 .. Len(r.blocks) :
       /\ q.blocks[f].kind = r.blocks[f].kind
       /\ q.blocks[f].declarations = r.blocks[f].declarations
       /\ q.blocks[f].labels = r.blocks[f].labels \cup
            (IF f = Len(r.blocks) THEN labels ELSE {})
       /\ q.blocks[f].gotos = r.blocks[f].gotos \cup
            (IF f = Len(r.blocks) THEN gotos ELSE {})
  /\ Counted(p, q, more)
  /\ \A d \in 0 .. r.declarations : Size(more, d) = Size(counts, d)
  /\ b # <<>> /\ TailLabel(b[Len(b)]) =>
       TailLabel(s) /\ q.declarations = r.declarations /\ p = h[Len(b)]
  /\ \A l \in labels :
       /\ LabelAt(Longer(h, b, p), Append(b, s), q, more, Len(r.blocks), l)
       /\ \A m \in labels : l = m
       /\ \A m \in r.blocks[Len(r.blocks)].labels : l.name # m.name
  /\ \A g \in gotos :
       /\ GotoAt(Longer(h, b, p), Append(b, s), q, more, Len(r.blocks), g)
       /\ g.stat = Len(b) + 1
       /\ \A k \in gotos : g = k
  /\ s.kind = "goto" => gotos # {}

(* A step that opens a block.                                              *)
Opens(h, b, r, counts, frames, s, p, q, more) ==
  /\ s.kind \in Blocks /\ ~(b # <<>> /\ TailLabel(b[Len(b)]))
  /\ \E block \in Block : p.blocks = Append(h[Len(b)].blocks, block)
  /\ Agree(h[Len(b)].locals, p.locals, Len(h[Len(b)].locals))
  /\ ResolverType(Append(b, s), q) /\ q.jumps = r.jumps
  /\ r.declarations <= q.declarations /\ Len(r.blocks) < Len(q.blocks)
  /\ \A f \in 1 .. Len(r.blocks) : q.blocks[f] = r.blocks[f]
  /\ \A f \in Len(r.blocks) + 1 .. Len(q.blocks) :
       /\ q.blocks[f].labels = {} /\ q.blocks[f].gotos = {}
       /\ q.blocks[f].declarations \in r.declarations .. q.declarations
       /\ \A e \in f .. Len(q.blocks) : q.blocks[f].declarations <= q.blocks[e].declarations
       /\ f # Len(q.blocks) => q.blocks[f].kind = "control"
  /\ Counted(p, q, more)
  /\ \A d \in 0 .. r.declarations : Size(more, d) = Size(counts, d)
  /\ PairedAt(p, q, more, Append(frames, Len(q.blocks)), Len(frames) + 1)

(* The resolver inside a `for`.                                            *)
EnteredFor(c, r, q) ==
  /\ ResolverType(c, q)
  /\ q.declarations = r.declarations + 1 /\ q.jumps = r.jumps
  /\ Len(q.blocks) = Len(r.blocks) + 2
  /\ \A f \in 1 .. Len(r.blocks) : q.blocks[f] = r.blocks[f]
  /\ q.blocks[Len(r.blocks) + 1] =
       [kind |-> "control", declarations |-> r.declarations, labels |-> {}, gotos |-> {}]
  /\ q.blocks[Len(r.blocks) + 2] =
       [kind |-> "for", declarations |-> r.declarations + 1, labels |-> {}, gotos |-> {}]

(* The frame of the block around the innermost one.                        *)
Below(frames) == IF Len(frames) = 1 THEN 1 ELSE frames[Len(frames) - 1]

(* What the pairing says of the innermost block, which an end leaves.      *)
Innermost(at, r, counts, frames) ==
  LET below == Below(frames)
      top == Len(r.blocks)
      block == Last(at.blocks)
  IN  /\ Len(frames) \in Nat /\ Len(frames) > 0 /\ frames[Len(frames)] = top
      /\ at.blocks \in Seq(Block) /\ at.blocks # <<>>
      /\ block = at.blocks[Len(frames)] /\ block \in Block
      /\ below \in 1 .. top - 1 /\ r.blocks[below].kind # "control"
      /\ r.blocks[top].kind = block.kind
      /\ below = top - (IF r.blocks[top].kind = "for" THEN 2 ELSE 1)
      /\ block.outer = Size(counts, r.blocks[below + 1].declarations)
      /\ \A f \in below + 1 .. top - 1 : r.blocks[f].kind = "control"

(* A goto that leaves a block with d declarations around it.               *)
Escaped(g, d) == [g EXCEPT !.declarations = Least(@, d)]

(* What LeaveBlock makes of the resolver.                                  *)
LeftBlock(b, r, q) ==
  LET top == Len(r.blocks)
      frame == r.blocks[top]
  IN  /\ ResolverType(b, q)
      /\ q.declarations = frame.declarations
      /\ q.jumps = r.jumps \cup Jumps(frame)
      /\ Len(q.blocks) = top - 1
      /\ \A f \in 1 .. top - 2 : q.blocks[f] = r.blocks[f]
      /\ q.blocks[top - 1] \in FrameSet
      /\ q.blocks[top - 1].kind = r.blocks[top - 1].kind
      /\ q.blocks[top - 1].declarations = r.blocks[top - 1].declarations
      /\ q.blocks[top - 1].labels = r.blocks[top - 1].labels
      /\ q.blocks[top - 1].gotos =
           r.blocks[top - 1].gotos \cup {Escaped(g, frame.declarations) : g \in Unresolved(frame)}

(* What the end of a block makes of it, with m frames left: for a `for`,   *)
(* LeaveBlock twice.                                                       *)
Unwound(b, r, q, m) ==
  LET frame == r.blocks[Len(r.blocks)]
  IN  /\ ResolverType(b, q)
      /\ q.jumps = r.jumps \cup Jumps(frame)
      /\ Len(q.blocks) = m
      /\ q.declarations = r.blocks[m + 1].declarations
      /\ \A f \in 1 .. m :
           /\ q.blocks[f].kind = r.blocks[f].kind
           /\ q.blocks[f].declarations = r.blocks[f].declarations
           /\ q.blocks[f].labels = r.blocks[f].labels
           /\ f # m => q.blocks[f].gotos = r.blocks[f].gotos
      /\ q.blocks[m].gotos =
           r.blocks[m].gotos \cup {Escaped(g, q.declarations) : g \in Unresolved(frame)}

(* A step that leaves a block, with m frames left.                         *)
Leaves(h, b, r, frames, s, p, q, m) ==
  LET at == h[Len(b)]
      top == Len(r.blocks)
      frame == r.blocks[top]
  IN  /\ s.kind = "end" /\ at.blocks # <<>> /\ p.blocks = Front(at.blocks)
      /\ p.locals = SubSeq(at.locals, 1, Last(at.blocks).outer)
      /\ ResolverType(Append(b, s), q)
      /\ Sent(h, b, q.jumps) /\ q.jumps = r.jumps \cup Jumps(frame)
      /\ m = Below(frames)
      /\ m \in 1 .. top - 1 /\ Len(q.blocks) = m
      /\ r.blocks[m].kind # "control"
      /\ \A f \in m + 1 .. top - 1 : r.blocks[f].kind = "control"
      /\ q.declarations = r.blocks[m + 1].declarations
      /\ Last(at.blocks).outer \in Nat
      /\ \A f \in 1 .. m :
           /\ q.blocks[f].kind = r.blocks[f].kind
           /\ q.blocks[f].declarations = r.blocks[f].declarations
           /\ q.blocks[f].labels = r.blocks[f].labels
           /\ f # m => q.blocks[f].gotos = r.blocks[f].gotos
      /\ q.blocks[m].gotos =
           r.blocks[m].gotos \cup {Escaped(g, q.declarations) : g \in Unresolved(frame)}

(* The invariant of the resolver.                                          *)
Resolved(h, b, r, counts, frames) ==
  /\ ResolverType(b, r) /\ Way(h, b) /\ Tails(h, b) /\ Sent(h, b, r.jumps)
  /\ Stacked(r)
  /\ Counted(h[Len(b)], r, counts)
  /\ Paired(h[Len(b)], r, counts, frames)
  /\ LabelsHold(h, b, r, counts)
  /\ GotosHold(h, b, r, counts) /\ GotosOnce(b, r)

(* The loops among the first n blocks.                                     *)
LoopsTo(blocks, n) == {b \in 1 .. n : blocks[b].kind \in Loops}

LowererSet ==
  [locals : Seq(Bound), blocks : Seq(Block), loops : Seq(Nat),
   depths : UNION {[d -> Nat] : d \in SUBSET (1 .. MaxStatements)},
   pending : SUBSET [stat : Nat, label : Nat, captured : SUBSET Nat],
   terminated : BOOLEAN, closes : [1 .. MaxStatements -> 1 .. NoClose]]
ScopeSet == [locals : Seq(Bound), live : BOOLEAN, block : Nat, loop : Nat]

(* No goto is without its jump.                                            *)
EachGotoSent(b, jumps) ==
  \A s \in 1 .. Len(b) : b[s].kind = "goto" => \E j \in jumps : j[1] = s

(* The lowering has walked along the history.                              *)
Passed(h) ==
  /\ Len(scopes) <= Len(body)
  /\ lowerer.locals = h[Len(scopes)].locals
  /\ lowerer.blocks = h[Len(scopes)].blocks
  /\ \A s \in 1 .. Len(scopes) :
       /\ scopes[s].locals = h[s - 1].locals
       /\ scopes[s].block = Deep(h[s - 1].blocks)
       /\ s > 1 /\ body[s - 1].kind = "label" => scopes[s].live
  /\ scopes # <<>> /\ body[Len(scopes)].kind = "label" => ~lowerer.terminated

(* The entries for `break` are those of the loops around.                  *)
LoopsMatch(loops, blocks) ==
  /\ Len(loops) = Cardinality(LoopsTo(blocks, Len(blocks)))
  /\ \A b \in LoopsTo(blocks, Len(blocks)) :
       loops[Cardinality(LoopsTo(blocks, b))] = blocks[b].depth

LoopsKept == LoopsMatch(lowerer.loops, lowerer.blocks)

(* Every label passed has its depth noted.                                 *)
DepthsKnown ==
  /\ DOMAIN lowerer.depths = {l \in 1 .. Len(scopes) : body[l].kind = "label"}
  /\ \A l \in DOMAIN lowerer.depths : lowerer.depths[l] = Len(scopes[l].locals)

(* What a goto to a label yet to come leaves behind.                       *)
Waits(s, l) == [stat |-> s, label |-> l, captured |-> Places(scopes[s].locals)]

(* Every goto that waits does so for a label yet to come.                  *)
PendingWait ==
  \A p \in lowerer.pending :
    /\ p.stat \in 1 .. Len(scopes) /\ p.label \in Len(scopes) + 1 .. Len(body)
    /\ <<p.stat, p.label>> \in resolver.jumps
    /\ p = Waits(p.stat, p.label)

(* What has been closed: the ends of blocks and `break` close what dies    *)
(* there, a goto whose label has been passed closes down to it, and one    *)
(* whose label has not, waits if something may have to be closed.          *)
ClosedSoFar ==
  /\ \A s \in 1 .. Len(scopes) : \A i \in Places(scopes[s].locals) :
       \/ body[s].kind = "end" /\ scopes[s].live /\ i > scopes[s].block
       \/ body[s].kind = "break" /\ i > scopes[s].loop
       => i >= lowerer.closes[s]
  /\ \A j \in resolver.jumps : j[1] \in 1 .. Len(scopes) =>
       IF j[2] <= Len(scopes)
       THEN lowerer.closes[j[1]] = CloseFrom(Places(scopes[j[1]].locals), Len(scopes[j[2]].locals))
       ELSE /\ lowerer.closes[j[1]] = NoClose
            /\ Places(scopes[j[1]].locals) # {} => Waits(j[1], j[2]) \in lowerer.pending
  /\ \A s \in Len(scopes) + 1 .. Len(body) : lowerer.closes[s] = NoClose

(* The invariant of the lowering.                                          *)
Lowered(h) ==
  /\ lowerer \in LowererSet /\ scopes \in Seq(ScopeSet)
  /\ Passed(h) /\ LoopsKept /\ DepthsKnown /\ PendingWait /\ ClosedSoFar
  /\ IF phase = "done" THEN Len(scopes) = Len(body) ELSE Len(scopes) < Len(body)

(* What the resolver hands over.                                           *)
Handed(h, b, jumps) ==
  Way(h, b) /\ Tails(h, b) /\ Sent(h, b, jumps) /\ EachGotoSent(b, jumps)

(* The lowering before it starts.                                          *)
Unstarted ==
  [locals |-> <<>>, blocks |-> <<>>, loops |-> <<>>, depths |-> <<>>, pending |-> {},
   terminated |-> FALSE, closes |-> [i \in 1 .. MaxStatements |-> NoClose]]

(* A body that has been written, and the resolver that has read it.        *)
Written ==
  /\ phase \in {"resolve", "lower", "done", "refused"}
  /\ body \in Seq(Statements) /\ Len(body) <= MaxStatements
  /\ ResolverType(body, resolver)
  /\ resolver.jumps \subseteq (1 .. Len(body)) \X (1 .. Len(body))

(* The inductive invariant.                                                *)
IInv ==
  /\ Written
  /\ phase \in {"resolve", "refused"} => lowerer = Unstarted /\ scopes = <<>>
  /\ phase = "resolve" =>
       \E h, counts, frames : Resolved(h, body, resolver, counts, frames)
  /\ phase \in {"lower", "done"} =>
       \E h : Handed(h, body, resolver.jumps) /\ Lowered(h)

-----------------------------------------------------------------------------
(* The natural numbers are well ordered.                                   *)
LEMMA LeastOf ==
  ASSUME NEW S, S \subseteq Nat, S # {}
  PROVE  \E n \in S : \A m \in S : n <= m
<1> DEFINE R == OpToRel(<, Nat)
<1>1. IsWellFoundedOn(R, Nat)
  BY NatLessThanWellFounded
<1>2. ASSUME NEW x \in Nat, NEW y \in Nat, x < y
      PROVE  <<x, y>> \in R
  BY <1>2 DEF OpToRel
<1> HIDE DEF R
<1>3. PICK n \in S : \A m \in S : <<m, n>> \notin R
  BY <1>1, WFMin
<1>4. ASSUME NEW m \in S
      PROVE  n <= m
  <2>1. m \in Nat /\ n \in Nat
    OBVIOUS
  <2>2. ~(m < n)
    BY <1>2, <1>3, <2>1
  <2> QED
    BY <2>1, <2>2
<1> QED
  BY <1>4

(* A set of numbers with a bound has a greatest one.                       *)
LEMMA GreatestOf ==
  ASSUME NEW n \in Nat, NEW S, S \subseteq 1 .. n, S # {}
  PROVE  \E m \in S : \A k \in S : k <= m
<1> DEFINE T == {n - k : k \in S}
<1>1. T \subseteq Nat /\ T # {}
  <2>1. ASSUME NEW k \in S
        PROVE  n - k \in Nat
    <3>1. k \in 1 .. n
      OBVIOUS
    <3> QED
      BY <3>1
  <2> QED
    BY <2>1
<1> HIDE DEF T
<1>2. PICK t \in T : \A u \in T : t <= u
  BY <1>1, LeastOf
<1>3. PICK m \in S : t = n - m
  BY DEF T
<1>4. ASSUME NEW k \in S
      PROVE  k <= m
  <2>1. n - k \in T
    BY DEF T
  <2> QED
    BY <2>1, <1>2, <1>3
<1> QED
  BY <1>4

(* A stack without its top, and its top.                                   *)
LEMMA FrontAndLast ==
  ASSUME NEW S, NEW s \in Seq(S), s # <<>>
  PROVE  /\ Len(s) \in Nat /\ Len(s) > 0 /\ Last(s) = s[Len(s)] /\ Last(s) \in S
         /\ Front(s) \in Seq(S) /\ Len(Front(s)) = Len(s) - 1
         /\ \A i \in 1 .. Len(s) - 1 : Front(s)[i] = s[i]
<1>1. Len(s) \in Nat /\ Len(s) > 0 /\ Last(s) = s[Len(s)] /\ Last(s) \in S
  BY DEF Last
<1>2. \A i \in 1 .. Len(s) - 1 : s[i] \in S
  BY <1>1
<1>3. /\ SubSeq(s, 1, Len(s) - 1) \in Seq(S)
      /\ Len(SubSeq(s, 1, Len(s) - 1)) = IF 1 <= Len(s) - 1 THEN (Len(s) - 1) - 1 + 1 ELSE 0
      /\ \A i \in 1 .. (Len(s) - 1) - 1 + 1 : SubSeq(s, 1, Len(s) - 1)[i] = s[1 + i - 1]
  <2> HIDE <1>1
  <2>1. Len(s) - 1 \in Int
    BY <1>1
  <2> QED
    BY <1>2, <2>1, SubSeqProperties
<1>4. Len(SubSeq(s, 1, Len(s) - 1)) = Len(s) - 1
  <2> DEFINE m == Len(s)
             r == Len(SubSeq(s, 1, m - 1))
  <2>1. r = IF 1 <= m - 1 THEN (m - 1) - 1 + 1 ELSE 0
    BY <1>3
  <2>2. m \in Nat /\ m > 0
    BY <1>1
  <2> HIDE DEF m, r
  <2>3. r = m - 1
    BY <2>1, <2>2
  <2> QED
    BY <2>3 DEF m, r
<1>5. \A i \in 1 .. Len(s) - 1 : SubSeq(s, 1, Len(s) - 1)[i] = s[i]
  <2> SUFFICES ASSUME NEW i \in 1 .. Len(s) - 1
               PROVE  SubSeq(s, 1, Len(s) - 1)[i] = s[i]
    OBVIOUS
  <2>1. i \in 1 .. (Len(s) - 1) - 1 + 1 /\ 1 + i - 1 = i
    BY <1>1
  <2> QED
    BY <2>1, <1>3
<1> QED
  BY <1>1, <1>3, <1>4, <1>5 DEF Front

(* What close_from answers: the lowest captured place above the depth.     *)
LEMMA CloseFromIs ==
  ASSUME NEW captured, captured \subseteq 1 .. 5 * MaxStatements, NEW depth \in Nat
  PROVE  /\ CloseFrom(captured, depth) \in 1 .. NoClose
         /\ \A i \in captured : i > depth => i >= CloseFrom(captured, depth)
         /\ depth < NoClose => CloseFrom(captured, depth) > depth
         /\ captured = {} => CloseFrom(captured, depth) = NoClose
<1>1. MaxStatements \in Nat /\ NoClose = 5 * MaxStatements + 1
  BY BoundsAssumption DEF NoClose
<1>0. \A i \in captured : i \in 1 .. 5 * MaxStatements
  OBVIOUS
<1>2. CASE ~\E i \in captured : i > depth
  BY <1>1, <1>2 DEF CloseFrom
<1>3. CASE \E i \in captured : i > depth
  <2> DEFINE S == {i \in captured : i > depth}
             P(i) == i > depth /\ \A j \in captured : j > depth => i <= j
  <2>1. S \subseteq Nat /\ S # {}
    <3>1. S # {}
      BY <1>3
    <3>2. \A i \in S : i \in 1 .. 5 * MaxStatements
      BY <1>0
    <3> HIDE DEF S
    <3>3. S \subseteq Nat
      BY <3>2, <1>1
    <3> QED
      BY <3>1, <3>3
  <2>2. PICK n \in S : \A m \in S : n <= m
    BY <2>1, LeastOf
  <2>3. n \in captured /\ P(n)
    BY <2>2
  <2>4. (CHOOSE i \in captured : P(i)) \in captured /\ P(CHOOSE i \in captured : P(i))
    BY <2>3
  <2>5. CloseFrom(captured, depth) = CHOOSE i \in captured : P(i)
    BY <1>3 DEF CloseFrom
  <2> HIDE DEF P
  <2>6. CloseFrom(captured, depth) \in captured /\ P(CloseFrom(captured, depth))
    BY <2>4, <2>5
  <2> DEFINE c == CloseFrom(captured, depth)
  <2>7. c \in captured /\ c > depth /\ \A j \in captured : j > depth => c <= j
    BY <2>6 DEF P
  <2>8. c \in 1 .. 5 * MaxStatements
    BY <2>7, <1>0
  <2>9. c \in 1 .. NoClose /\ captured # {}
    BY <2>7, <2>8, <1>1
  <2> HIDE DEF c
  <2> QED
    BY <2>7, <2>9, <1>0 DEF c
<1> QED
  BY <1>2, <1>3

-----------------------------------------------------------------------------
(* The lowering.  What every point of the history is made of.              *)
LEMMA PointsAre ==
  ASSUME NEW h, NEW b, Way(h, b), NEW k \in 0 .. Len(b)
  PROVE  /\ Len(b) \in Nat
         /\ h[k] \in Point /\ h[k].locals \in Seq(Bound) /\ h[k].blocks \in Seq(Block)
         /\ Len(h[k].locals) \in Nat /\ Len(h[k].blocks) \in Nat
         /\ Len(h[k].locals) <= 4 * k /\ Nested(h[k])
         /\ Deep(h[k].blocks) \in Nat
<1>1. Len(b) \in Nat /\ h[k] \in Point
  BY SMTT(40) DEF Way
<1>2. h[k].locals \in Seq(Bound) /\ h[k].blocks \in Seq(Block)
  BY <1>1 DEF Point
<1>3. Deep(h[k].blocks) \in Nat
  <2>1. CASE h[k].blocks = <<>>
    BY <2>1 DEF Deep
  <2>2. CASE h[k].blocks # <<>>
    <3>1. Last(h[k].blocks) \in Block
      BY <1>2, <2>2 DEF Last
    <3> QED
      BY <3>1, <2>2 DEF Deep, Block
  <2> QED
    BY <2>1, <2>2
<1> QED
  BY <1>1, <1>2, <1>3 DEF Way

(* The captured places of the locals at a point of the body.               *)
LEMMA PlacesAre ==
  ASSUME NEW h, NEW b, Way(h, b), Len(b) <= MaxStatements, NEW k \in 0 .. Len(b)
  PROVE  /\ Places(h[k].locals) \subseteq 1 .. 5 * MaxStatements
         /\ Len(h[k].locals) < NoClose
<1>1. MaxStatements \in Nat /\ NoClose = 5 * MaxStatements + 1
  BY BoundsAssumption DEF NoClose
<1>2. Len(h[k].locals) \in Nat /\ Len(h[k].locals) <= 4 * k /\ k \in Nat /\ k <= MaxStatements
  BY <1>1, PointsAre
<1>3. Len(h[k].locals) <= 5 * MaxStatements
  BY <1>1, <1>2
<1> QED
  BY <1>1, <1>2, <1>3 DEF Places

(* The innermost loop of a stack of blocks, as Around finds it.            *)
LEMMA AroundIs ==
  ASSUME NEW blocks \in Seq(Block)
  PROVE  /\ Around(blocks) \in Nat
         /\ (\E i \in 1 .. Len(blocks) : blocks[i].kind \in Loops) =>
              \E i \in LoopsTo(blocks, Len(blocks)) :
                /\ Around(blocks) = blocks[i].outer
                /\ \A j \in LoopsTo(blocks, Len(blocks)) : j <= i
<1> DEFINE S == LoopsTo(blocks, Len(blocks))
           P(i) == \A j \in S : j <= i
<1>1. S = {b \in 1 .. Len(blocks) : blocks[b].kind \in Loops}
  BY DEF LoopsTo
<1>2. CASE S = {}
  BY <1>1, <1>2 DEF Around
<1>3. CASE S # {}
  <2>1. Len(blocks) \in Nat /\ S \subseteq 1 .. Len(blocks)
    BY <1>1
  <2>2. PICK m \in S : P(m)
    BY <2>1, <1>3, GreatestOf
  <2>3. (CHOOSE i \in S : P(i)) \in S /\ P(CHOOSE i \in S : P(i))
    BY <2>2
  <2> DEFINE c == CHOOSE i \in S : P(i)
  <2>4. c \in S /\ P(c)
    BY <2>3
  <2>5. Around(blocks) = blocks[c].outer
    BY <1>1, <1>3 DEF Around
  <2> HIDE DEF c
  <2>6. blocks[c] \in Block
    BY <2>1, <2>4
  <2> QED
    BY <2>4, <2>5, <2>6 DEF Block
<1> QED
  BY <1>2, <1>3

(* One statement of the lowering notes what was in scope at it.            *)
LEMMA ScopeAdded ==
  ASSUME NEW h, Written, Way(h, body), Lowered(h), NEW kind, Lower(kind)
  PROVE  /\ At = Len(scopes) + 1 /\ Len(scopes) \in Nat
         /\ At \in 1 .. Len(body) /\ At \in 1 .. MaxStatements
         /\ h[At - 1] = h[Len(scopes)] /\ body[At] \in Statements /\ body[At].kind = kind
         /\ UNCHANGED <<body, resolver>>
         /\ phase' \in {"lower", "done"}
         /\ IF phase' = "done" THEN At = Len(body) ELSE At < Len(body)
         /\ scopes' \in Seq(ScopeSet) /\ Len(scopes') = At
         /\ \A s \in 1 .. Len(scopes) : scopes'[s] = scopes[s]
         /\ scopes'[At].locals = lowerer.locals
         /\ scopes'[At].live = ~lowerer.terminated
         /\ scopes'[At].block = Deep(lowerer.blocks)
         /\ scopes'[At].loop = Around(lowerer.blocks)
<1> DEFINE e == [locals |-> lowerer.locals, live |-> ~lowerer.terminated,
                 block |-> Deep(lowerer.blocks), loop |-> Around(lowerer.blocks)]
<1>1. /\ phase = "lower" /\ body[At].kind = kind /\ scopes' = Append(scopes, e)
      /\ phase' = IF At = Len(body) THEN "done" ELSE phase
      /\ UNCHANGED <<body, resolver>>
  BY DEF Lower, Statement, Deep
<1>2. scopes \in Seq(ScopeSet) /\ Len(scopes) \in Nat /\ Len(scopes) < Len(body)
  BY <1>1 DEF Lowered
<1>3. Len(body) \in Nat /\ Len(body) <= MaxStatements /\ MaxStatements \in Nat
  BY BoundsAssumption DEF Written
<1>4. At = Len(scopes) + 1 /\ At \in 1 .. Len(body) /\ At \in 1 .. MaxStatements
  BY <1>2, <1>3 DEF At
<1>5. body[At] \in Statements
  BY <1>4 DEF Written
<1>6. lowerer.locals \in Seq(Bound) /\ lowerer.blocks \in Seq(Block) /\ Deep(lowerer.blocks) \in Nat
  BY PointsAre, <1>2, <1>3 DEF Lowered, Passed
<1>7. Around(lowerer.blocks) \in Nat
  BY <1>6, AroundIs
<1>8. e \in ScopeSet /\ (~lowerer.terminated) \in BOOLEAN
  BY <1>6, <1>7 DEF ScopeSet
<1>9. e.locals = lowerer.locals /\ e.live = ~lowerer.terminated
      /\ e.block = Deep(lowerer.blocks) /\ e.loop = Around(lowerer.blocks)
  OBVIOUS
<1> HIDE DEF e
<1>10. scopes' \in Seq(ScopeSet) /\ Len(scopes') = At /\ scopes'[At] = e
       /\ \A s \in 1 .. Len(scopes) : scopes'[s] = scopes[s]
  BY <1>1, <1>2, <1>4, <1>8
<1>11. h[At - 1] = h[Len(scopes)]
  BY <1>4, <1>2
<1>12. IF phase' = "done" THEN At = Len(body) ELSE At < Len(body)
  BY <1>1, <1>4, <1>3
<1> QED
  BY <1>1, <1>2, <1>4, <1>5, <1>9, <1>10, <1>11, <1>12

(* A jump goes from a goto to a label.                                     *)
LEMMA SentPairs ==
  ASSUME NEW h, NEW b, NEW jumps, Sent(h, b, jumps), NEW j \in jumps
  PROVE  /\ j[1] \in 1 .. Len(b) /\ j[2] \in 1 .. Len(b) /\ j = <<j[1], j[2]>>
         /\ b[j[1]].kind = "goto" /\ b[j[2]].kind = "label"
         /\ \A k \in jumps : j[1] = k[1] => j[2] = k[2]
BY DEF Sent, Reaches

(* A statement that is no label leaves what waits as it is, notes a close  *)
(* for itself at most, and if it jumps waits itself.                       *)
LEMMA PassStatement ==
  ASSUME NEW h, Written, Handed(h, body, resolver.jumps), Lowered(h),
         NEW kind, Lower(kind), kind # "label",
         NEW x \in 1 .. NoClose,
         lowerer'.closes = [lowerer.closes EXCEPT ![At] = x],
         lowerer'.depths = lowerer.depths,
         \A i \in Places(lowerer.locals) :
           \/ kind = "end" /\ ~lowerer.terminated /\ i > Deep(lowerer.blocks)
           \/ kind = "break" /\ i > Around(lowerer.blocks)
           => i >= x,
         \A p \in lowerer.pending : p \in lowerer'.pending,
         \A p \in lowerer'.pending : p \in lowerer.pending \/
           /\ p = [stat |-> At, label |-> p.label, captured |-> Places(lowerer.locals)]
           /\ <<At, p.label>> \in resolver.jumps /\ p.label \in At + 1 .. Len(body),
         \A j \in resolver.jumps : j[1] = At =>
           IF j[2] <= Len(scopes)
           THEN x = CloseFrom(Places(lowerer.locals), Len(scopes[j[2]].locals))
           ELSE /\ x = NoClose
                /\ Places(lowerer.locals) # {} =>
                     [stat |-> At, label |-> j[2], captured |-> Places(lowerer.locals)]
                       \in lowerer'.pending
  PROVE  DepthsKnown' /\ PendingWait' /\ ClosedSoFar'
<1> DEFINE n == Len(scopes)
<1>1. /\ At = n + 1 /\ n \in Nat
      /\ At \in 1 .. Len(body) /\ At \in 1 .. MaxStatements
      /\ body[At].kind = kind /\ body' = body /\ resolver' = resolver
      /\ Len(scopes') = At
      /\ \A s \in 1 .. n : scopes'[s] = scopes[s]
      /\ scopes'[At].locals = lowerer.locals
      /\ scopes'[At].live = ~lowerer.terminated
      /\ scopes'[At].block = Deep(lowerer.blocks)
      /\ scopes'[At].loop = Around(lowerer.blocks)
  BY ScopeAdded DEF Handed
<1>2. /\ \A s \in 1 .. At : s # At => s \in 1 .. n
      /\ \A s \in 1 .. n : s \in 1 .. At /\ s # At
  BY <1>1
<1>3. \A j \in resolver.jumps :
        /\ j[1] \in 1 .. Len(body) /\ j[2] \in 1 .. Len(body)
        /\ j[2] # At
  BY <1>1, SentPairs DEF Handed
<1>4. /\ lowerer.closes \in [1 .. MaxStatements -> 1 .. NoClose]
      /\ Len(body) \in Nat /\ Len(body) <= MaxStatements /\ MaxStatements \in Nat
  BY BoundsAssumption DEF Lowered, LowererSet, Written
<1>5. /\ lowerer'.closes[At] = x
      /\ \A s \in 1 .. MaxStatements : s # At => lowerer'.closes[s] = lowerer.closes[s]
  BY <1>4, <1>1
<1>6. DepthsKnown'
  <2>1. /\ DOMAIN lowerer.depths = {l \in 1 .. n : body[l].kind = "label"}
        /\ \A l \in DOMAIN lowerer.depths : lowerer.depths[l] = Len(scopes[l].locals)
    BY DEF Lowered, DepthsKnown
  <2>2. {l \in 1 .. At : body[l].kind = "label"} = {l \in 1 .. n : body[l].kind = "label"}
    BY <1>1, <1>2
  <2>3. \A l \in DOMAIN lowerer.depths : l \in 1 .. n
    BY <2>1
  <2> QED
    BY <2>1, <2>2, <2>3, <1>1 DEF DepthsKnown
<1>7. PendingWait'
  <2> SUFFICES ASSUME NEW p \in lowerer'.pending
               PROVE  /\ p.stat \in 1 .. At /\ p.label \in At + 1 .. Len(body)
                      /\ <<p.stat, p.label>> \in resolver.jumps
                      /\ p = Waits(p.stat, p.label)'
    BY <1>1 DEF PendingWait
  <2>1. CASE p \in lowerer.pending
    <3>1. /\ p.stat \in 1 .. n /\ p.label \in n + 1 .. Len(body)
          /\ <<p.stat, p.label>> \in resolver.jumps
          /\ p = Waits(p.stat, p.label)
      BY <2>1 DEF Lowered, PendingWait
    <3>2. p.label # At
      BY <3>1, <1>3
    <3>3. Waits(p.stat, p.label)' = Waits(p.stat, p.label)
      BY <3>1, <1>1 DEF Waits
    <3> QED
      BY <3>1, <3>2, <3>3, <1>1, <1>4
  <2>2. CASE p \notin lowerer.pending
    <3>1. /\ p = [stat |-> At, label |-> p.label, captured |-> Places(lowerer.locals)]
          /\ <<At, p.label>> \in resolver.jumps /\ p.label \in At + 1 .. Len(body)
      BY <2>2
    <3>2. p.stat = At
      BY <3>1
    <3> QED
      BY <3>1, <3>2, <1>1 DEF Waits
  <2> QED
    BY <2>1, <2>2
<1>8. ClosedSoFar'
  <2>1. ASSUME NEW s \in 1 .. At, NEW i \in Places(scopes'[s].locals),
               \/ body[s].kind = "end" /\ scopes'[s].live /\ i > scopes'[s].block
               \/ body[s].kind = "break" /\ i > scopes'[s].loop
        PROVE  i >= lowerer'.closes[s]
    <3>1. CASE s = At
      BY <3>1, <2>1, <1>1, <1>5
    <3>2. CASE s # At
      <4>1. s \in 1 .. n /\ s \in 1 .. MaxStatements
        BY <3>2, <1>1, <1>2, <1>4
      <4>2. scopes'[s] = scopes[s] /\ lowerer'.closes[s] = lowerer.closes[s]
        BY <4>1, <3>2, <1>1, <1>5
      <4>3. i \in Places(scopes[s].locals)
        BY <4>2
      <4> QED
        BY <4>1, <4>2, <4>3, <2>1 DEF Lowered, ClosedSoFar
    <3> QED
      BY <3>1, <3>2
  <2>2. ASSUME NEW j \in resolver.jumps, j[1] \in 1 .. At
        PROVE  IF j[2] <= At
               THEN lowerer'.closes[j[1]] =
                      CloseFrom(Places(scopes'[j[1]].locals), Len(scopes'[j[2]].locals))
               ELSE /\ lowerer'.closes[j[1]] = NoClose
                    /\ Places(scopes'[j[1]].locals) # {} =>
                         Waits(j[1], j[2])' \in lowerer'.pending
    <3>0. j[1] \in 1 .. Len(body) /\ j[2] \in 1 .. Len(body) /\ j[2] # At
      BY <1>3
    <3>1. CASE j[1] = At
      <4>1. Waits(j[1], j[2])' =
              [stat |-> At, label |-> j[2], captured |-> Places(lowerer.locals)]
        BY <3>1, <1>1 DEF Waits
      <4>2. CASE j[2] <= At
        <5>1. j[2] \in 1 .. n /\ j[2] <= Len(scopes) /\ scopes'[j[2]] = scopes[j[2]]
          BY <3>0, <4>2, <1>1
        <5>2. x = CloseFrom(Places(lowerer.locals), Len(scopes[j[2]].locals))
          BY <3>1, <5>1
        <5>3. lowerer'.closes[j[1]] = x /\ scopes'[j[1]].locals = lowerer.locals
          BY <3>1, <1>1, <1>5
        <5>4. lowerer'.closes[j[1]] =
                CloseFrom(Places(scopes'[j[1]].locals), Len(scopes'[j[2]].locals))
          BY <5>1, <5>2, <5>3
        <5> QED
          BY <4>2, <5>4
      <4>3. CASE ~(j[2] <= At)
        <5>1. ~(j[2] <= Len(scopes))
          BY <4>3, <3>0, <1>1, <1>4
        <5> QED
          BY <3>1, <4>1, <4>3, <5>1, <1>1, <1>5
      <4> QED
        BY <4>2, <4>3
    <3>2. CASE j[1] # At
      <4>1. j[1] \in 1 .. n /\ j[1] \in 1 .. MaxStatements
        BY <3>0, <3>2, <2>2, <1>1, <1>2, <1>4
      <4>2. /\ scopes'[j[1]] = scopes[j[1]] /\ lowerer'.closes[j[1]] = lowerer.closes[j[1]]
            /\ Waits(j[1], j[2])' = Waits(j[1], j[2])
        BY <4>1, <3>2, <1>1, <1>5 DEF Waits
      <4>3. CASE j[2] <= At
        <5>1. j[2] \in 1 .. n /\ j[2] <= n /\ scopes'[j[2]] = scopes[j[2]]
          BY <3>0, <4>3, <1>1
        <5> QED
          BY <5>1, <4>1, <4>2, <4>3 DEF Lowered, ClosedSoFar
      <4>4. CASE ~(j[2] <= At)
        <5>1. ~(j[2] <= n)
          BY <4>4, <3>0, <1>1, <1>4
        <5>2. /\ lowerer.closes[j[1]] = NoClose
              /\ Places(scopes[j[1]].locals) # {} => Waits(j[1], j[2]) \in lowerer.pending
          BY <5>1, <4>1 DEF Lowered, ClosedSoFar
        <5> QED
          BY <5>2, <4>2, <4>4
      <4> QED
        BY <4>3, <4>4
    <3> QED
      BY <3>1, <3>2
  <2>3. ASSUME NEW s \in At + 1 .. Len(body)
        PROVE  lowerer'.closes[s] = NoClose
    <3>1. s \in n + 1 .. Len(body) /\ s \in 1 .. MaxStatements /\ s # At
      BY <1>1, <1>4
    <3> QED
      BY <3>1, <1>5 DEF Lowered, ClosedSoFar
  <2> QED
    BY <2>1, <2>2, <2>3, <1>1 DEF ClosedSoFar
<1> QED
  BY <1>6, <1>7, <1>8

(* One that neither jumps nor is jumped to leaves what waits alone.        *)
LEMMA PassOther ==
  ASSUME NEW h, Written, Handed(h, body, resolver.jumps), Lowered(h),
         NEW kind, Lower(kind), kind \notin {"goto", "label"},
         NEW x \in 1 .. NoClose,
         lowerer'.closes = [lowerer.closes EXCEPT ![At] = x],
         lowerer'.pending = lowerer.pending, lowerer'.depths = lowerer.depths,
         \A i \in Places(lowerer.locals) :
           \/ kind = "end" /\ ~lowerer.terminated /\ i > Deep(lowerer.blocks)
           \/ kind = "break" /\ i > Around(lowerer.blocks)
           => i >= x
  PROVE  DepthsKnown' /\ PendingWait' /\ ClosedSoFar'
<1>1. \A j \in resolver.jumps : j[1] # At
  <2>1. body[At].kind = kind
    BY ScopeAdded DEF Handed
  <2> QED
    BY <2>1, SentPairs DEF Handed
<1> QED
  BY <1>1, PassStatement

(* How many loops there are up to a block.                                 *)
LEMMA LoopsCount ==
  ASSUME NEW blocks \in Seq(Block), NEW n \in 0 .. Len(blocks)
  PROVE  /\ IsFiniteSet(LoopsTo(blocks, n)) /\ Cardinality(LoopsTo(blocks, n)) \in Nat
         /\ n > 0 => Cardinality(LoopsTo(blocks, n)) =
              Cardinality(LoopsTo(blocks, n - 1)) + IF blocks[n].kind \in Loops THEN 1 ELSE 0
<1>1. ASSUME NEW m \in 0 .. Len(blocks)
      PROVE  IsFiniteSet(LoopsTo(blocks, m)) /\ Cardinality(LoopsTo(blocks, m)) \in Nat
  <2>1. IsFiniteSet(1 .. m)
    BY FS_Interval
  <2>2. LoopsTo(blocks, m) \in SUBSET (1 .. m)
    BY DEF LoopsTo
  <2> QED
    BY <2>1, <2>2, FS_Subset, FS_CardinalityType
<1>2. ASSUME n > 0
      PROVE  Cardinality(LoopsTo(blocks, n)) =
               Cardinality(LoopsTo(blocks, n - 1)) + IF blocks[n].kind \in Loops THEN 1 ELSE 0
  <2> DEFINE S == LoopsTo(blocks, n - 1)
  <2>1. n - 1 \in 0 .. Len(blocks) /\ n \in Nat
    BY <1>2
  <2>2. IsFiniteSet(S) /\ Cardinality(S) \in Nat
    BY <1>1, <2>1
  <2>3. n \notin S
    BY <2>1 DEF LoopsTo
  <2>4. CASE blocks[n].kind \in Loops
    <3>1. LoopsTo(blocks, n) = S \cup {n}
      BY <2>1, <2>4, <1>2 DEF LoopsTo
    <3> HIDE DEF S
    <3> QED
      BY <3>1, <2>2, <2>3, <2>4, FS_AddElement DEF S
  <2>5. CASE blocks[n].kind \notin Loops
    <3>1. LoopsTo(blocks, n) = S
      BY <2>1, <2>5, <1>2 DEF LoopsTo
    <3> QED
      BY <3>1, <2>2, <2>5
  <2> QED
    BY <2>4, <2>5
<1> QED
  BY <1>1, <1>2

(* Up to a block two stacks that agree so far have the same loops.         *)
LEMMA LoopsAgree ==
  ASSUME NEW s, NEW t, NEW n \in Nat, \A i \in 1 .. n : s[i] = t[i]
  PROVE  LoopsTo(s, n) = LoopsTo(t, n)
BY DEF LoopsTo

(* A block entered: a loop adds where `break` closes down to.              *)
LEMMA LoopsPushed ==
  ASSUME NEW blocks \in Seq(Block), NEW loops \in Seq(Nat), LoopsMatch(loops, blocks),
         NEW e \in Block
  PROVE  LoopsMatch(IF e.kind \in Loops THEN Append(loops, e.depth) ELSE loops,
                    Append(blocks, e))
<1> DEFINE n == Len(blocks)
           b2 == Append(blocks, e)
           l2 == IF e.kind \in Loops THEN Append(loops, e.depth) ELSE loops
           C(b) == Cardinality(LoopsTo(blocks, b))
           C2(b) == Cardinality(LoopsTo(b2, b))
<1>1. /\ n \in Nat /\ Len(loops) \in Nat /\ e.depth \in Nat
      /\ b2 \in Seq(Block) /\ Len(b2) = n + 1 /\ b2[n + 1] = e
      /\ \A i \in 1 .. n : b2[i] = blocks[i]
  BY DEF Block
<1>2. /\ C(n) = Len(loops)
      /\ \A b \in LoopsTo(blocks, n) : loops[C(b)] = blocks[b].depth
  BY DEF LoopsMatch
<1> HIDE DEF b2
<1>3. ASSUME NEW b \in 0 .. n
      PROVE  C2(b) = C(b) /\ C(b) \in Nat
  <2>1. LoopsTo(b2, b) = LoopsTo(blocks, b)
    BY <1>1, LoopsAgree
  <2> QED
    BY <2>1, LoopsCount
<1>4. C2(n + 1) = C(n) + IF e.kind \in Loops THEN 1 ELSE 0
  <2>1. n + 1 \in 0 .. Len(b2) /\ n + 1 > 0 /\ (n + 1) - 1 = n
    BY <1>1
  <2>2. C2(n + 1) = C2((n + 1) - 1) + IF b2[n + 1].kind \in Loops THEN 1 ELSE 0
    BY <2>1, <1>1, LoopsCount
  <2> QED
    BY <2>1, <2>2, <1>1, <1>3
<1>5. Len(l2) = C2(n + 1)
  BY <1>1, <1>2, <1>4
<1>6. ASSUME NEW b \in LoopsTo(b2, n + 1)
      PROVE  l2[C2(b)] = b2[b].depth
  <2>1. b \in 1 .. n + 1 /\ b2[b].kind \in Loops
    BY DEF LoopsTo
  <2>2. CASE b = n + 1
    <3>1. e.kind \in Loops
      BY <2>1, <2>2, <1>1
    <3> QED
      BY <2>2, <3>1, <1>1, <1>2, <1>4
  <2>3. CASE b # n + 1
    <3>1. b \in 1 .. n /\ b2[b] = blocks[b] /\ b \in LoopsTo(blocks, n)
      BY <2>1, <2>3, <1>1 DEF LoopsTo
    <3>2. C(b) \in 1 .. Len(loops)
      <4>1. b \in LoopsTo(blocks, b) /\ LoopsTo(blocks, b) \in SUBSET LoopsTo(blocks, n)
        BY <3>1, <1>1 DEF LoopsTo
      <4>2. IsFiniteSet(LoopsTo(blocks, b)) /\ C(b) \in Nat /\ IsFiniteSet(LoopsTo(blocks, n))
        BY <3>1, <1>1, LoopsCount
      <4>3. C(b) # 0
        BY <4>1, <4>2, FS_EmptySet
      <4>4. C(b) <= C(n)
        BY <4>1, <4>2, FS_Subset
      <4> QED
        BY <4>2, <4>3, <4>4, <1>1, <1>2
    <3>3. l2[C(b)] = loops[C(b)]
      BY <3>2, <1>1
    <3>4. C2(b) = C(b)
      BY <1>3, <3>1, <1>1
    <3> QED
      BY <3>1, <3>3, <3>4, <1>2
  <2> QED
    BY <2>2, <2>3
<1> QED
  BY <1>1, <1>5, <1>6 DEF LoopsMatch, b2

(* The innermost loop is the one `break` closes down to.                   *)
LEMMA LoopsLast ==
  ASSUME NEW blocks \in Seq(Block), NEW loops \in Seq(Nat), LoopsMatch(loops, blocks),
         NEW i \in LoopsTo(blocks, Len(blocks)),
         \A j \in LoopsTo(blocks, Len(blocks)) : j <= i
  PROVE  loops # <<>> /\ Last(loops) = blocks[i].depth
<1> DEFINE n == Len(blocks)
<1>1. n \in Nat /\ i \in 1 .. n /\ Len(loops) \in Nat
  BY DEF LoopsTo
<1>2. LoopsTo(blocks, i) = LoopsTo(blocks, n)
  BY <1>1 DEF LoopsTo
<1>3. IsFiniteSet(LoopsTo(blocks, n)) /\ Cardinality(LoopsTo(blocks, n)) \in Nat
  BY <1>1, LoopsCount
<1>4. Cardinality(LoopsTo(blocks, n)) # 0
  BY <1>3, FS_EmptySet
<1> QED
  BY <1>1, <1>2, <1>3, <1>4 DEF LoopsMatch, Last

(* A block left: its loop's entry goes with it.                            *)
LEMMA LoopsPopped ==
  ASSUME NEW blocks \in Seq(Block), NEW loops \in Seq(Nat), LoopsMatch(loops, blocks),
         blocks # <<>>
  PROVE  LoopsMatch(IF Last(blocks).kind \in Loops THEN Front(loops) ELSE loops, Front(blocks))
<1> DEFINE n == Len(blocks)
           b2 == Front(blocks)
           l2 == IF Last(blocks).kind \in Loops THEN Front(loops) ELSE loops
           C(b) == Cardinality(LoopsTo(blocks, b))
           C2(b) == Cardinality(LoopsTo(b2, b))
<1>1. /\ n \in Nat /\ n > 0 /\ n - 1 \in Nat /\ Len(loops) \in Nat
      /\ b2 \in Seq(Block) /\ Len(b2) = n - 1
      /\ \A i \in 1 .. n - 1 : b2[i] = blocks[i]
      /\ Last(blocks) = blocks[n]
  BY FrontAndLast
<1>2. /\ C(n) = Len(loops)
      /\ \A b \in LoopsTo(blocks, n) : loops[C(b)] = blocks[b].depth
  BY DEF LoopsMatch
<1> HIDE DEF b2
<1>3. ASSUME NEW b \in 0 .. n - 1
      PROVE  C2(b) = C(b) /\ C(b) \in Nat
  <2>1. b \in 0 .. n /\ b \in Nat /\ \A i \in 1 .. b : b2[i] = blocks[i]
    BY <1>1
  <2>2. LoopsTo(b2, b) = LoopsTo(blocks, b)
    BY <2>1, LoopsAgree
  <2> QED
    BY <2>1, <2>2, LoopsCount
<1>4. C(n) = C(n - 1) + IF blocks[n].kind \in Loops THEN 1 ELSE 0
  BY <1>1, LoopsCount
<1>5. C(n - 1) \in Nat /\ C2(n - 1) = C(n - 1)
  BY <1>1, <1>3
<1>6. /\ Len(l2) = C(n - 1)
      /\ \A i \in 1 .. C(n - 1) : l2[i] = loops[i]
  <2>1. CASE blocks[n].kind \in Loops
    <3>1. l2 = Front(loops)
      BY <2>1, <1>1
    <3>2. Len(loops) = C(n - 1) + 1
      BY <2>1, <1>2, <1>4
    <3>3. loops # <<>>
      BY <3>2, <1>5
    <3>4. /\ Len(Front(loops)) = Len(loops) - 1
          /\ \A i \in 1 .. Len(loops) - 1 : Front(loops)[i] = loops[i]
      BY <3>3, FrontAndLast
    <3> HIDE DEF C, l2
    <3>5. Len(loops) - 1 = C(n - 1)
      BY <3>2, <1>5
    <3> QED
      BY <3>1, <3>4, <3>5
  <2>2. CASE blocks[n].kind \notin Loops
    <3>1. l2 = loops
      BY <2>2, <1>1
    <3>2. Len(loops) = C(n - 1) + 0
      BY <2>2, <1>2, <1>4
    <3> QED
      BY <3>1, <3>2, <1>5
  <2> QED
    BY <2>1, <2>2
<1>7. ASSUME NEW b \in LoopsTo(b2, n - 1)
      PROVE  l2[C2(b)] = b2[b].depth
  <2>1. b \in 1 .. n - 1 /\ b2[b] = blocks[b] /\ b \in LoopsTo(blocks, n)
    BY <1>1 DEF LoopsTo
  <2>2. C(b) \in 1 .. C(n - 1)
    <3>1. b \in LoopsTo(blocks, b) /\ LoopsTo(blocks, b) \in SUBSET LoopsTo(blocks, n - 1)
      BY <2>1, <1>1 DEF LoopsTo
    <3>2. /\ IsFiniteSet(LoopsTo(blocks, b)) /\ C(b) \in Nat
          /\ IsFiniteSet(LoopsTo(blocks, n - 1))
      BY <2>1, <1>1, LoopsCount
    <3>3. C(b) # 0
      BY <3>1, <3>2, FS_EmptySet
    <3>4. C(b) <= C(n - 1)
      BY <3>1, <3>2, FS_Subset
    <3> QED
      BY <3>2, <3>3, <3>4, <1>5
  <2>3. C2(b) = C(b)
    BY <1>3, <2>1, <1>1
  <2> QED
    BY <2>1, <2>2, <2>3, <1>2, <1>6
<1> QED
  BY <1>1, <1>5, <1>6, <1>7 DEF LoopsMatch, b2

(* What one statement of the lowering has to show for the whole to hold.   *)
LEMMA LowerStep ==
  ASSUME NEW h, Written, Handed(h, body, resolver.jumps), Lowered(h),
         NEW kind, Lower(kind), lowerer' \in LowererSet,
         lowerer'.locals = h[At].locals, lowerer'.blocks = h[At].blocks,
         kind = "label" => ~lowerer'.terminated,
         LoopsKept', DepthsKnown', PendingWait', ClosedSoFar'
  PROVE  IInv'
<1>1. /\ At = Len(scopes) + 1 /\ Len(scopes) \in Nat
      /\ At \in 1 .. Len(body)
      /\ h[At - 1] = h[Len(scopes)] /\ body[At].kind = kind
      /\ UNCHANGED <<body, resolver>>
      /\ phase' \in {"lower", "done"}
      /\ IF phase' = "done" THEN At = Len(body) ELSE At < Len(body)
      /\ scopes' \in Seq(ScopeSet) /\ Len(scopes') = At
      /\ \A s \in 1 .. Len(scopes) : scopes'[s] = scopes[s]
      /\ scopes'[At].locals = lowerer.locals
      /\ scopes'[At].live = ~lowerer.terminated
      /\ scopes'[At].block = Deep(lowerer.blocks)
  BY ScopeAdded DEF Handed
<1>2. /\ lowerer.locals = h[Len(scopes)].locals
      /\ lowerer.blocks = h[Len(scopes)].blocks
      /\ \A s \in 1 .. Len(scopes) :
           /\ scopes[s].locals = h[s - 1].locals
           /\ scopes[s].block = Deep(h[s - 1].blocks)
           /\ s > 1 /\ body[s - 1].kind = "label" => scopes[s].live
      /\ scopes # <<>> /\ body[Len(scopes)].kind = "label" => ~lowerer.terminated
      /\ scopes \in Seq(ScopeSet)
  BY DEF Lowered, Passed
<1>3. Passed(h)'
  <2>1. ASSUME NEW s \in 1 .. At
        PROVE  /\ scopes'[s].locals = h[s - 1].locals
               /\ scopes'[s].block = Deep(h[s - 1].blocks)
               /\ s > 1 /\ body[s - 1].kind = "label" => scopes'[s].live
    <3>1. CASE s = At
      <4>1. s - 1 = Len(scopes) /\ (s > 1 => scopes # <<>>)
        BY <3>1, <1>1
      <4> QED
        BY <3>1, <4>1, <1>1, <1>2
    <3>2. CASE s # At
      <4>1. s \in 1 .. Len(scopes)
        BY <3>2, <1>1
      <4> QED
        BY <4>1, <1>1, <1>2
    <3> QED
      BY <3>1, <3>2
  <2>2. Len(scopes') <= Len(body)
    BY <1>1
  <2> QED
    BY <2>1, <2>2, <1>1 DEF Passed
<1>4. Lowered(h)'
  BY <1>1, <1>3 DEF Lowered
<1>5. Written'
  BY <1>1 DEF Written
<1> QED
  BY <1>1, <1>4, <1>5 DEF IInv

(* The point a statement of the body leads to.                             *)
LEMMA PointAfter ==
  ASSUME NEW h, Written, Handed(h, body, resolver.jumps), Lowered(h), NEW kind, Lower(kind)
  PROVE  /\ Follows([locals |-> lowerer.locals, blocks |-> lowerer.blocks], h[At], body[At], At)
         /\ h[At].locals \in Seq(Bound) /\ h[At].blocks \in Seq(Block)
         /\ lowerer.locals \in Seq(Bound) /\ lowerer.blocks \in Seq(Block)
         /\ Len(lowerer.locals) \in Nat /\ Len(lowerer.locals) < NoClose
         /\ Nested([locals |-> lowerer.locals, blocks |-> lowerer.blocks])
         /\ Places(lowerer.locals) \subseteq 1 .. 5 * MaxStatements
         /\ body[At].kind = "break" =>
              \E i \in 1 .. Len(lowerer.blocks) : lowerer.blocks[i].kind \in Loops
<1>1. /\ At = Len(scopes) + 1 /\ Len(scopes) \in Nat /\ At \in 1 .. Len(body)
      /\ h[At - 1] = h[Len(scopes)]
  BY ScopeAdded DEF Handed
<1>2. /\ lowerer.locals = h[Len(scopes)].locals
      /\ lowerer.blocks = h[Len(scopes)].blocks
  BY DEF Lowered, Passed
<1>3. Len(body) \in Nat /\ Len(body) <= MaxStatements /\ At \in 0 .. Len(body)
      /\ Len(scopes) \in 0 .. Len(body)
  BY <1>1 DEF Written
<1>4. /\ h[At].locals \in Seq(Bound) /\ h[At].blocks \in Seq(Block)
      /\ lowerer.locals \in Seq(Bound) /\ lowerer.blocks \in Seq(Block)
      /\ Len(lowerer.locals) \in Nat /\ h[Len(scopes)] \in Point /\ Nested(h[Len(scopes)])
  BY <1>2, <1>3, PointsAre DEF Handed
<1>5. h[Len(scopes)] = [locals |-> lowerer.locals, blocks |-> lowerer.blocks]
  BY <1>2, <1>4 DEF Point
<1>6. Places(lowerer.locals) \subseteq 1 .. 5 * MaxStatements /\ Len(lowerer.locals) < NoClose
  BY <1>2, <1>3, PlacesAre DEF Handed
<1>7. /\ Follows(h[At - 1], h[At], body[At], At)
      /\ body[At].kind = "break" =>
           \E i \in 1 .. Len(h[At - 1].blocks) : h[At - 1].blocks[i].kind \in Loops
  BY <1>1 DEF Handed, Way
<1> QED
  BY <1>1, <1>2, <1>4, <1>5, <1>6, <1>7

(* Each statement of the lowering, in turn: a local comes into scope.      *)
LEMMA LowerLocalIInv ==
  ASSUME NEW h, Written, Handed(h, body, resolver.jumps), Lowered(h), LowerLocal
  PROVE  IInv'
<1>1. Lower("local") /\ lowerer \in LowererSet
  BY DEF LowerLocal, Lowered
<1>2. lowerer' = [Reachable EXCEPT !.locals = Append(@, Bind(At, Statement.captured))]
  BY DEF LowerLocal
<1>3. /\ lowerer'.locals = Append(lowerer.locals, Bind(At, body[At].captured))
      /\ lowerer'.blocks = lowerer.blocks /\ lowerer'.loops = lowerer.loops
      /\ lowerer'.depths = lowerer.depths /\ lowerer'.pending = lowerer.pending
      /\ lowerer'.closes = lowerer.closes
  BY <1>1, <1>2 DEF LowererSet, Reachable, Statement
<1>4. /\ Follows([locals |-> lowerer.locals, blocks |-> lowerer.blocks], h[At], body[At], At)
      /\ h[At].locals \in Seq(Bound)
      /\ body[At].kind = "local"
  BY <1>1, PointAfter, ScopeAdded DEF Handed
<1>5. lowerer'.locals = h[At].locals /\ lowerer'.blocks = h[At].blocks
  BY <1>3, <1>4 DEF Follows
<1>6. lowerer' \in LowererSet
  BY <1>1, <1>2, <1>4, <1>5 DEF LowererSet, Reachable
<1>7. LoopsKept'
  BY <1>3 DEF Lowered, LoopsKept
<1>8. DepthsKnown' /\ PendingWait' /\ ClosedSoFar'
  <2>1. /\ At \in 1 .. MaxStatements /\ At \in Len(scopes) + 1 .. Len(body)
        /\ lowerer.closes \in [1 .. MaxStatements -> 1 .. NoClose]
    BY <1>1, ScopeAdded DEF Handed, LowererSet
  <2>2. lowerer'.closes = [lowerer.closes EXCEPT ![At] = lowerer.closes[At]]
        /\ lowerer.closes[At] \in 1 .. NoClose
    BY <2>1, <1>3
  <2> QED
    BY <1>1, <1>3, <2>2, PassOther
<1> QED
  BY <1>1, <1>5, <1>6, <1>7, <1>8, LowerStep

(* A global takes no register.                                             *)
LEMMA LowerGlobalIInv ==
  ASSUME NEW h, Written, Handed(h, body, resolver.jumps), Lowered(h), LowerGlobal
  PROVE  IInv'
<1>1. Lower("global") /\ lowerer \in LowererSet /\ lowerer' = Reachable
  BY DEF LowerGlobal, Lowered
<1>3. /\ lowerer'.locals = lowerer.locals
      /\ lowerer'.blocks = lowerer.blocks /\ lowerer'.loops = lowerer.loops
      /\ lowerer'.depths = lowerer.depths /\ lowerer'.pending = lowerer.pending
      /\ lowerer'.closes = lowerer.closes
  BY <1>1 DEF LowererSet, Reachable
<1>4. /\ Follows([locals |-> lowerer.locals, blocks |-> lowerer.blocks], h[At], body[At], At)
      /\ body[At].kind = "global"
  BY <1>1, PointAfter, ScopeAdded DEF Handed
<1>5. lowerer'.locals = h[At].locals /\ lowerer'.blocks = h[At].blocks
  BY <1>3, <1>4, BlocksAssumption DEF Follows
<1>6. lowerer' \in LowererSet
  BY <1>1 DEF LowererSet, Reachable
<1>7. LoopsKept'
  BY <1>3 DEF Lowered, LoopsKept
<1>8. DepthsKnown' /\ PendingWait' /\ ClosedSoFar'
  <2>1. /\ At \in 1 .. MaxStatements /\ At \in Len(scopes) + 1 .. Len(body)
        /\ lowerer.closes \in [1 .. MaxStatements -> 1 .. NoClose]
    BY <1>1, ScopeAdded DEF Handed, LowererSet
  <2>2. lowerer'.closes = [lowerer.closes EXCEPT ![At] = lowerer.closes[At]]
        /\ lowerer.closes[At] \in 1 .. NoClose
    BY <2>1, <1>3
  <2> QED
    BY <1>1, <1>3, <2>2, PassOther
<1> QED
  BY <1>1, <1>5, <1>6, <1>7, <1>8, LowerStep

(* A block opens, a `for` with its four locals.                            *)
LEMMA LowerOpenIInv ==
  ASSUME NEW h, Written, Handed(h, body, resolver.jumps), Lowered(h),
         NEW kind \in Blocks, LowerOpen(kind)
  PROVE  IInv'
<1> DEFINE outer == Len(lowerer.locals)
           depth == IF kind = "for" THEN outer + 3 ELSE outer
           e == [kind |-> kind, depth |-> depth, outer |-> outer]
           locals2 == IF kind = "for"
                      THEN lowerer.locals \o [i \in 1 .. 4 |-> Bind(At, i = 4)]
                      ELSE lowerer.locals
           loops2 == IF kind \in Loops THEN Append(lowerer.loops, depth) ELSE lowerer.loops
<1>1. Lower(kind) /\ lowerer \in LowererSet
  BY DEF LowerOpen, Lowered
<1>2. lowerer' = [Reachable EXCEPT !.locals = locals2, !.blocks = Append(lowerer.blocks, e),
                                   !.loops = loops2]
  BY <1>1 DEF LowerOpen, Reachable, LowererSet
<1>4. /\ Follows([locals |-> lowerer.locals, blocks |-> lowerer.blocks], h[At], body[At], At)
      /\ h[At].locals \in Seq(Bound) /\ h[At].blocks \in Seq(Block)
      /\ lowerer.blocks \in Seq(Block) /\ Len(lowerer.locals) \in Nat
      /\ body[At].kind = kind
  BY <1>1, PointAfter, ScopeAdded DEF Handed
<1>5. locals2 = h[At].locals /\ Append(lowerer.blocks, e) = h[At].blocks
  BY <1>4 DEF Follows
<1>6. e \in Block /\ e.kind = kind /\ e.depth = depth /\ depth \in Nat
  BY <1>4 DEF Block
<1>7. lowerer.loops \in Seq(Nat) /\ loops2 \in Seq(Nat)
  BY <1>1, <1>6 DEF LowererSet
<1> HIDE DEF locals2, loops2, e, depth, outer
<1>8. /\ lowerer'.locals = h[At].locals /\ lowerer'.blocks = h[At].blocks
      /\ lowerer'.loops = loops2
      /\ lowerer'.depths = lowerer.depths /\ lowerer'.pending = lowerer.pending
      /\ lowerer'.closes = lowerer.closes
  BY <1>1, <1>2, <1>5 DEF LowererSet, Reachable
<1>9. lowerer' \in LowererSet
  BY <1>1, <1>2, <1>4, <1>5, <1>7 DEF LowererSet, Reachable
<1>10. LoopsKept'
  <2>1. LoopsMatch(lowerer.loops, lowerer.blocks)
    BY DEF Lowered, LoopsKept
  <2>2. LoopsMatch(IF e.kind \in Loops THEN Append(lowerer.loops, e.depth) ELSE lowerer.loops,
                   Append(lowerer.blocks, e))
    BY <2>1, <1>4, <1>6, <1>7, LoopsPushed
  <2> QED
    BY <2>2, <1>5, <1>6, <1>8 DEF LoopsKept, loops2
<1>11. DepthsKnown' /\ PendingWait' /\ ClosedSoFar'
  <2>1. /\ At \in 1 .. MaxStatements /\ At \in Len(scopes) + 1 .. Len(body)
        /\ lowerer.closes \in [1 .. MaxStatements -> 1 .. NoClose]
    BY <1>1, ScopeAdded DEF Handed, LowererSet
  <2>2. lowerer'.closes = [lowerer.closes EXCEPT ![At] = lowerer.closes[At]]
        /\ lowerer.closes[At] \in 1 .. NoClose
    BY <2>1, <1>8
  <2>3. kind \notin {"goto", "label", "end", "break"}
    BY BlocksAssumption
  <2> QED
    BY <1>1, <1>8, <2>2, <2>3, PassOther
<1>12. kind # "label"
  BY BlocksAssumption
<1> QED
  BY <1>1, <1>8, <1>9, <1>10, <1>11, <1>12, LowerStep

(* The end of a block closes what was captured above where it began, and   *)
(* leaves its scope.                                                       *)
LEMMA LowerEndIInv ==
  ASSUME NEW h, Written, Handed(h, body, resolver.jumps), Lowered(h), LowerEnd
  PROVE  IInv'
<1> DEFINE block == Last(lowerer.blocks)
           loops2 == IF block.kind \in Loops THEN Front(lowerer.loops) ELSE lowerer.loops
           x == CloseUpvals(block.depth)
           closes2 == [lowerer.closes EXCEPT ![At] = x]
           dead == lowerer.terminated /\ block.kind = "do"
<1>1. Lower("end") /\ lowerer \in LowererSet
  BY DEF LowerEnd, Lowered
<1>2. lowerer' = Ended(loops2)
  BY DEF LowerEnd
<1>3. lowerer' = [lowerer EXCEPT !.closes = closes2,
                                 !.locals = SubSeq(lowerer.locals, 1, block.outer),
                                 !.blocks = Front(lowerer.blocks), !.loops = loops2,
                                 !.terminated = dead]
  BY <1>1, <1>2 DEF Ended, LowererSet
<1>4. /\ Follows([locals |-> lowerer.locals, blocks |-> lowerer.blocks], h[At], body[At], At)
      /\ h[At].locals \in Seq(Bound) /\ h[At].blocks \in Seq(Block)
      /\ lowerer.blocks \in Seq(Block) /\ Len(lowerer.locals) \in Nat
      /\ Places(lowerer.locals) \subseteq 1 .. 5 * MaxStatements
      /\ body[At].kind = "end" /\ At \in 1 .. MaxStatements
  BY <1>1, PointAfter, ScopeAdded DEF Handed
<1>5. /\ lowerer.blocks # <<>>
      /\ SubSeq(lowerer.locals, 1, block.outer) = h[At].locals
      /\ Front(lowerer.blocks) = h[At].blocks
  BY <1>4 DEF Follows
<1>6. block \in Block /\ block.depth \in Nat /\ block.depth = Deep(lowerer.blocks)
  <2>1. block \in Block
    BY <1>4, <1>5, FrontAndLast
  <2>2. block.depth = Deep(lowerer.blocks)
    BY <1>5 DEF Deep
  <2> QED
    BY <2>1, <2>2 DEF Block
<1>7. lowerer.loops \in Seq(Nat) /\ LoopsMatch(lowerer.loops, lowerer.blocks)
  BY <1>1 DEF LowererSet, Lowered, LoopsKept
<1>8. LoopsMatch(loops2, Front(lowerer.blocks))
  BY <1>4, <1>5, <1>7, LoopsPopped
<1>9. loops2 \in Seq(Nat)
  <2>1. CASE block.kind \in Loops
    <3>1. \E i \in LoopsTo(lowerer.blocks, Len(lowerer.blocks)) :
            \A j \in LoopsTo(lowerer.blocks, Len(lowerer.blocks)) : j <= i
      <4>1. /\ Len(lowerer.blocks) \in Nat /\ Len(lowerer.blocks) > 0
            /\ block = lowerer.blocks[Len(lowerer.blocks)]
        BY <1>4, <1>5, FrontAndLast
      <4> HIDE DEF block
      <4>2. Len(lowerer.blocks) \in LoopsTo(lowerer.blocks, Len(lowerer.blocks))
        BY <4>1, <2>1 DEF LoopsTo
      <4> QED
        BY <4>1, <4>2 DEF LoopsTo
    <3>2. lowerer.loops # <<>>
      BY <3>1, <1>4, <1>7, LoopsLast
    <3> QED
      BY <3>2, <2>1, <1>7, FrontAndLast
  <2>2. CASE block.kind \notin Loops
    BY <2>2, <1>7
  <2> QED
    BY <2>1, <2>2
<1>10. /\ x \in 1 .. NoClose
       /\ ~lowerer.terminated => \A i \in Places(lowerer.locals) : i > block.depth => i >= x
  <2>1. /\ CloseFrom(CapturedInScope, block.depth) \in 1 .. NoClose
        /\ \A i \in CapturedInScope : i > block.depth => i >= CloseFrom(CapturedInScope, block.depth)
    BY <1>4, <1>6, CloseFromIs DEF CapturedInScope
  <2>2. NoClose \in 1 .. NoClose
    BY BoundsAssumption DEF NoClose
  <2> QED
    BY <2>1, <2>2 DEF CloseUpvals, CapturedInScope
<1> HIDE DEF x, loops2, block
<1>11. closes2 \in [1 .. MaxStatements -> 1 .. NoClose]
  BY <1>1, <1>10 DEF LowererSet
<1>12. dead \in BOOLEAN
  OBVIOUS
<1> HIDE DEF closes2, dead
<1>13. /\ lowerer'.locals = h[At].locals /\ lowerer'.blocks = h[At].blocks
       /\ lowerer'.loops = loops2
       /\ lowerer'.depths = lowerer.depths /\ lowerer'.pending = lowerer.pending
       /\ lowerer'.closes = closes2
  BY <1>1, <1>3, <1>5 DEF LowererSet
<1>14. lowerer' \in LowererSet
  BY <1>1, <1>3, <1>4, <1>5, <1>9, <1>11, <1>12 DEF LowererSet
<1>15. LoopsKept'
  BY <1>5, <1>8, <1>13 DEF LoopsKept
<1>16. DepthsKnown' /\ PendingWait' /\ ClosedSoFar'
  BY <1>1, <1>6, <1>10, <1>13, PassOther DEF closes2
<1> QED
  BY <1>1, <1>13, <1>14, <1>15, <1>16, LowerStep

(* `break` closes down to where the innermost loop began.                  *)
LEMMA LowerBreakIInv ==
  ASSUME NEW h, Written, Handed(h, body, resolver.jumps), Lowered(h), LowerBreak
  PROVE  IInv'
<1> DEFINE x == CloseFrom(CapturedInScope, Last(lowerer.loops))
           closes2 == [lowerer.closes EXCEPT ![At] = x]
<1>1. Lower("break") /\ lowerer \in LowererSet
  BY DEF LowerBreak, Lowered
<1>2. lowerer' = [lowerer EXCEPT !.closes = closes2, !.terminated = TRUE]
  BY <1>1 DEF LowerBreak, LowererSet, Reachable
<1>3. /\ Follows([locals |-> lowerer.locals, blocks |-> lowerer.blocks], h[At], body[At], At)
      /\ h[At].locals \in Seq(Bound) /\ h[At].blocks \in Seq(Block)
      /\ lowerer.blocks \in Seq(Block) /\ Len(lowerer.locals) \in Nat
      /\ Nested([locals |-> lowerer.locals, blocks |-> lowerer.blocks])
      /\ Places(lowerer.locals) \subseteq 1 .. 5 * MaxStatements
      /\ body[At].kind = "break" /\ At \in 1 .. MaxStatements
      /\ \E i \in 1 .. Len(lowerer.blocks) : lowerer.blocks[i].kind \in Loops
  BY <1>1, PointAfter, ScopeAdded DEF Handed
<1>4. lowerer.loops \in Seq(Nat) /\ LoopsMatch(lowerer.loops, lowerer.blocks)
  BY <1>1 DEF LowererSet, Lowered, LoopsKept
<1>5. PICK i \in LoopsTo(lowerer.blocks, Len(lowerer.blocks)) :
        /\ Around(lowerer.blocks) = lowerer.blocks[i].outer
        /\ \A j \in LoopsTo(lowerer.blocks, Len(lowerer.blocks)) : j <= i
  BY <1>3, AroundIs
<1>6. i \in 1 .. Len(lowerer.blocks) /\ lowerer.blocks[i] \in Block
  BY <1>3 DEF LoopsTo
<1>7. Last(lowerer.loops) = lowerer.blocks[i].depth
  BY <1>3, <1>4, <1>5, LoopsLast
<1>8. /\ x \in 1 .. NoClose
      /\ \A p \in Places(lowerer.locals) : p > lowerer.blocks[i].depth => p >= x
  BY <1>3, <1>6, <1>7, CloseFromIs DEF CapturedInScope, Block
<1>9. ASSUME NEW p \in Places(lowerer.locals), p > Around(lowerer.blocks)
      PROVE  p >= x
  <2>1. \A q \in lowerer.blocks[i].outer + 1 .. lowerer.blocks[i].depth : ~lowerer.locals[q].captured
    BY <1>3, <1>6 DEF Nested, NestedBlock
  <2>2. p \in 1 .. Len(lowerer.locals) /\ lowerer.locals[p].captured
    BY DEF Places
  <2>3. lowerer.blocks[i].outer \in Nat /\ lowerer.blocks[i].depth \in Nat
    BY <1>6 DEF Block
  <2>4. p \notin lowerer.blocks[i].outer + 1 .. lowerer.blocks[i].depth
    BY <2>1, <2>2
  <2>5. p > lowerer.blocks[i].depth
    BY <2>2, <2>3, <2>4, <1>5, <1>9, <1>3, SMTT(40)
  <2> QED
    BY <2>5, <1>8
<1> HIDE DEF x
<1>10. closes2 \in [1 .. MaxStatements -> 1 .. NoClose]
  BY <1>1, <1>8 DEF LowererSet
<1> HIDE DEF closes2
<1>11. /\ lowerer'.locals = lowerer.locals /\ lowerer'.blocks = lowerer.blocks
       /\ lowerer'.loops = lowerer.loops
       /\ lowerer'.depths = lowerer.depths /\ lowerer'.pending = lowerer.pending
       /\ lowerer'.closes = closes2
  BY <1>1, <1>2 DEF LowererSet
<1>12. lowerer'.locals = h[At].locals /\ lowerer'.blocks = h[At].blocks
  BY <1>3, <1>11, BlocksAssumption DEF Follows
<1>13. lowerer' \in LowererSet
  BY <1>1, <1>2, <1>10 DEF LowererSet
<1>14. LoopsKept'
  BY <1>4, <1>11 DEF LoopsKept
<1>15. DepthsKnown' /\ PendingWait' /\ ClosedSoFar'
  BY <1>1, <1>8, <1>9, <1>11, PassOther DEF closes2
<1> QED
  BY <1>1, <1>12, <1>13, <1>14, <1>15, LowerStep

(* A goto whose label the body has already passed closes down to it; any   *)
(* other waits, if there is something it might have to close.              *)
LEMMA LowerGotoIInv ==
  ASSUME NEW h, Written, Handed(h, body, resolver.jumps), Lowered(h), LowerGoto
  PROVE  IInv'
<1> DEFINE known == Target \in DOMAIN lowerer.depths
           x == IF known THEN CloseFrom(CapturedInScope, lowerer.depths[Target])
                ELSE lowerer.closes[At]
           waiting == [stat |-> At, label |-> Target, captured |-> CapturedInScope]
           closes2 == [lowerer.closes EXCEPT ![At] = x]
           pending2 == IF known \/ CapturedInScope = {} THEN lowerer.pending
                       ELSE lowerer.pending \cup {waiting}
<1>1. Lower("goto") /\ lowerer \in LowererSet
  BY DEF LowerGoto, Lowered
<1>2. lowerer' = [lowerer EXCEPT !.closes = closes2, !.pending = pending2, !.terminated = TRUE]
  BY <1>1 DEF LowerGoto, LowererSet, Reachable
<1>3. /\ Follows([locals |-> lowerer.locals, blocks |-> lowerer.blocks], h[At], body[At], At)
      /\ Places(lowerer.locals) \subseteq 1 .. 5 * MaxStatements
      /\ body[At].kind = "goto" /\ At \in 1 .. MaxStatements /\ At \in 1 .. Len(body)
      /\ At = Len(scopes) + 1 /\ Len(scopes) \in Nat
  BY <1>1, PointAfter, ScopeAdded DEF Handed
<1>4. /\ Len(body) \in Nat /\ MaxStatements \in Nat /\ Len(body) <= MaxStatements
      /\ lowerer.closes \in [1 .. MaxStatements -> 1 .. NoClose]
  BY <1>1, BoundsAssumption DEF Written, LowererSet
<1>5. /\ Target \in 1 .. Len(body) /\ <<At, Target>> \in resolver.jumps
      /\ \A j \in resolver.jumps : j[1] = At => j[2] = Target
  <2>1. PICK k \in resolver.jumps : k[1] = At
    BY <1>3 DEF Handed, EachGotoSent
  <2>2. k \in (1 .. Len(body)) \X (1 .. Len(body)) /\ k = <<At, k[2]>>
    BY <2>1 DEF Handed, Sent
  <2>3. k[2] \in 1 .. Len(body) /\ <<At, k[2]>> \in resolver.jumps
    BY <2>1, <2>2
  <2>4. Target \in 1 .. Len(body) /\ <<At, Target>> \in resolver.jumps
    BY <2>3 DEF Target
  <2>5. \A j \in resolver.jumps : j[1] = At => j[2] = Target
    BY <2>4 DEF Handed, Sent
  <2> QED
    BY <2>4, <2>5
<1>6. body[Target].kind = "label" /\ Target # At
  BY <1>3, <1>5, SentPairs DEF Handed
<1>7. /\ known <=> Target <= Len(scopes)
      /\ known => lowerer.depths[Target] = Len(scopes[Target].locals)
      /\ lowerer.closes[At] = NoClose
  <2>1. lowerer.closes[At] = NoClose
    <3>1. At \in Len(scopes) + 1 .. Len(body)
      BY <1>3, <1>4
    <3> QED
      BY <3>1 DEF Lowered, ClosedSoFar
  <2>2. /\ DOMAIN lowerer.depths = {l \in 1 .. Len(scopes) : body[l].kind = "label"}
        /\ \A l \in DOMAIN lowerer.depths : lowerer.depths[l] = Len(scopes[l].locals)
    BY DEF Lowered, DepthsKnown
  <2>3. known <=> Target \in 1 .. Len(scopes)
    BY <2>2, <1>6
  <2> QED
    BY <2>1, <2>2, <2>3, <1>3, <1>5
<1>8. x \in 1 .. NoClose
  <2>1. CASE known
    <3>1. lowerer.depths[Target] \in Nat
      <4>1. Target \in 1 .. Len(scopes) /\ scopes \in Seq(ScopeSet)
        BY <2>1, <1>3, <1>5, <1>7 DEF Lowered
      <4>2. scopes[Target] \in ScopeSet
        BY <4>1
      <4>3. scopes[Target].locals \in Seq(Bound)
        BY <4>2 DEF ScopeSet
      <4> QED
        BY <4>3, <2>1, <1>7
    <3> QED
      BY <2>1, <3>1, <1>3, CloseFromIs DEF CapturedInScope
  <2>2. CASE ~known
    BY <2>2, <1>3, <1>4
  <2> QED
    BY <2>1, <2>2
<1>9. closes2 \in [1 .. MaxStatements -> 1 .. NoClose]
  BY <1>4, <1>8
<1>10. pending2 \subseteq [stat : Nat, label : Nat, captured : SUBSET Nat]
  <2>1. lowerer.pending \subseteq [stat : Nat, label : Nat, captured : SUBSET Nat]
    BY <1>1 DEF LowererSet
  <2>2. CapturedInScope \subseteq Nat /\ At \in Nat /\ Target \in Nat
    BY <1>3, <1>4, <1>5 DEF CapturedInScope
  <2>3. waiting \in [stat : Nat, label : Nat, captured : SUBSET Nat]
    BY <2>2
  <2> HIDE DEF waiting
  <2> QED
    BY <2>1, <2>3
<1> HIDE DEF closes2, pending2
<1>11. /\ lowerer'.locals = lowerer.locals /\ lowerer'.blocks = lowerer.blocks
       /\ lowerer'.loops = lowerer.loops /\ lowerer'.depths = lowerer.depths
       /\ lowerer'.pending = pending2 /\ lowerer'.closes = closes2
  BY <1>1, <1>2 DEF LowererSet
<1>12. lowerer'.locals = h[At].locals /\ lowerer'.blocks = h[At].blocks
  BY <1>3, <1>11, BlocksAssumption DEF Follows
<1>13. lowerer' \in LowererSet
  BY <1>1, <1>2, <1>9, <1>10 DEF LowererSet
<1>14. LoopsKept'
  BY <1>11 DEF Lowered, LoopsKept
<1>15. ASSUME NEW j \in resolver.jumps, j[1] = At
       PROVE  IF j[2] <= Len(scopes)
              THEN x = CloseFrom(Places(lowerer.locals), Len(scopes[j[2]].locals))
              ELSE /\ x = NoClose
                   /\ Places(lowerer.locals) # {} =>
                        [stat |-> At, label |-> j[2], captured |-> Places(lowerer.locals)]
                          \in lowerer'.pending
  <2>1. j[2] = Target
    BY <1>5, <1>15
  <2>2. CASE known
    BY <2>1, <2>2, <1>7 DEF CapturedInScope
  <2>3. CASE ~known
    <3>1. Places(lowerer.locals) # {} => waiting \in pending2
      BY <2>3 DEF pending2, CapturedInScope
    <3> QED
      BY <3>1, <2>1, <2>3, <1>7, <1>11 DEF CapturedInScope
  <2> QED
    BY <2>2, <2>3
<1>16. /\ \A p \in lowerer.pending : p \in lowerer'.pending
       /\ \A p \in lowerer'.pending : p \in lowerer.pending \/
            /\ p = [stat |-> At, label |-> p.label, captured |-> Places(lowerer.locals)]
            /\ <<At, p.label>> \in resolver.jumps /\ p.label \in At + 1 .. Len(body)
  <2>1. ASSUME NEW p \in pending2, p \notin lowerer.pending
        PROVE  /\ p = [stat |-> At, label |-> p.label, captured |-> Places(lowerer.locals)]
               /\ <<At, p.label>> \in resolver.jumps /\ p.label \in At + 1 .. Len(body)
    <3>1. p = waiting /\ ~known
      BY <2>1 DEF pending2
    <3>2. p.label = Target
      BY <3>1
    <3>3. Target \in At + 1 .. Len(body)
      BY <3>1, <1>3, <1>4, <1>5, <1>6, <1>7
    <3> QED
      BY <3>1, <3>2, <3>3, <1>5 DEF CapturedInScope
  <2>2. \A p \in lowerer.pending : p \in pending2
    BY DEF pending2
  <2> QED
    BY <2>1, <2>2, <1>11
<1>17. lowerer'.closes = [lowerer.closes EXCEPT ![At] = x]
  BY <1>11 DEF closes2
<1> HIDE DEF x
<1>18. DepthsKnown' /\ PendingWait' /\ ClosedSoFar'
  BY <1>1, <1>8, <1>11, <1>15, <1>16, <1>17, PassStatement
<1> QED
  BY <1>1, <1>12, <1>13, <1>14, <1>18, LowerStep

(* A label tells the gotos that waited for it how deep it is.              *)
LEMMA LowerLabelIInv ==
  ASSUME NEW h, Written, Handed(h, body, resolver.jumps), Lowered(h), LowerLabel
  PROVE  IInv'
<1> DEFINE n == Len(scopes)
           depth == Len(lowerer.locals)
           depths == lowerer.depths
           depths2 == [l \in DOMAIN depths \cup {At} |-> IF l = At THEN depth ELSE depths[l]]
           closes2 == [s \in DOMAIN lowerer.closes |->
                         IF \E p \in Arriving : p.stat = s
                         THEN CloseFrom((CHOOSE p \in Arriving : p.stat = s).captured, depth)
                         ELSE lowerer.closes[s]]
<1>1. Lower("label") /\ lowerer \in LowererSet
  BY DEF LowerLabel, Lowered
<1>2. lowerer' = [lowerer EXCEPT !.depths = depths2, !.closes = closes2,
                                 !.pending = lowerer.pending \ Arriving, !.terminated = FALSE]
  BY <1>1 DEF LowerLabel, LowererSet, Reachable
<1>3. /\ Follows([locals |-> lowerer.locals, blocks |-> lowerer.blocks], h[At], body[At], At)
      /\ Places(lowerer.locals) \subseteq 1 .. 5 * MaxStatements
      /\ Len(lowerer.locals) \in Nat
      /\ body[At].kind = "label" /\ At \in 1 .. MaxStatements /\ At \in 1 .. Len(body)
      /\ At = n + 1 /\ n \in Nat /\ body' = body /\ resolver' = resolver
      /\ Len(scopes') = At
      /\ \A s \in 1 .. n : scopes'[s] = scopes[s]
      /\ scopes'[At].locals = lowerer.locals
  BY <1>1, PointAfter, ScopeAdded DEF Handed
<1>4. /\ Len(body) \in Nat /\ MaxStatements \in Nat /\ Len(body) <= MaxStatements
      /\ lowerer.closes \in [1 .. MaxStatements -> 1 .. NoClose]
  BY <1>1, BoundsAssumption DEF Written, LowererSet
<1>5. ASSUME NEW s \in 1 .. n
      PROVE  Places(scopes[s].locals) \subseteq 1 .. 5 * MaxStatements
  <2>1. scopes[s].locals = h[s - 1].locals /\ s - 1 \in 0 .. Len(body)
    BY <1>3 DEF Lowered, Passed
  <2> QED
    BY <2>1, <1>4, PlacesAre DEF Handed
<1>6. ASSUME NEW p \in Arriving
      PROVE  /\ p.stat \in 1 .. n /\ <<p.stat, At>> \in resolver.jumps
             /\ p = Waits(p.stat, At)
  <2>1. p \in lowerer.pending /\ p.label = At
    BY DEF Arriving
  <2> QED
    BY <2>1 DEF Lowered, PendingWait
<1>7. ASSUME NEW p \in Arriving
      PROVE  (CHOOSE q \in Arriving : q.stat = p.stat) = p
  <2>1. \A q \in Arriving : q.stat = p.stat => q = p
    BY <1>6
  <2> QED
    BY <2>1
<1>8. ASSUME NEW s \in 1 .. MaxStatements
      PROVE  /\ closes2[s] \in 1 .. NoClose
             /\ \A p \in Arriving : p.stat = s =>
                  /\ s \in 1 .. n
                  /\ closes2[s] = CloseFrom(Places(scopes[s].locals), depth)
             /\ (~\E p \in Arriving : p.stat = s) => closes2[s] = lowerer.closes[s]
  <2>1. CASE \E p \in Arriving : p.stat = s
    <3>1. PICK p \in Arriving : p.stat = s
      BY <2>1
    <3>2. (CHOOSE q \in Arriving : q.stat = s) = p
      BY <3>1, <1>7
    <3>3. s \in 1 .. n /\ p.captured = Places(scopes[s].locals)
      <4>1. s \in 1 .. n /\ p = Waits(s, At)
        BY <3>1, <1>6
      <4>2. Waits(s, At).captured = Places(scopes[s].locals)
        BY DEF Waits
      <4> QED
        BY <4>1, <4>2
    <3>4. closes2[s] = CloseFrom(Places(scopes[s].locals), depth)
      BY <3>1, <3>2, <3>3, <1>4
    <3> QED
      BY <3>3, <3>4, <2>1, <1>3, <1>5, CloseFromIs, ZenonT(40)
  <2>2. CASE ~\E p \in Arriving : p.stat = s
    BY <2>2, <1>4
  <2> QED
    BY <2>1, <2>2
<1>9. closes2 \in [1 .. MaxStatements -> 1 .. NoClose]
  <2>1. DOMAIN lowerer.closes = 1 .. MaxStatements
    BY <1>4
  <2>2. closes2 = [s \in 1 .. MaxStatements |-> closes2[s]]
    BY <2>1
  <2> HIDE DEF closes2
  <2> QED
    BY <2>2, <1>8
<1>10. /\ DOMAIN depths = {l \in 1 .. n : body[l].kind = "label"}
       /\ \A l \in DOMAIN depths : depths[l] = Len(scopes[l].locals) /\ depths[l] \in Nat
  <2>1. /\ DOMAIN depths = {l \in 1 .. n : body[l].kind = "label"}
        /\ \A l \in DOMAIN depths : depths[l] = Len(scopes[l].locals)
    BY DEF Lowered, DepthsKnown
  <2>2. ASSUME NEW l \in 1 .. n
        PROVE  Len(scopes[l].locals) \in Nat
    <3>1. scopes[l] \in ScopeSet
      BY DEF Lowered
    <3>2. scopes[l].locals \in Seq(Bound)
      BY <3>1 DEF ScopeSet
    <3> QED
      BY <3>2
  <2> QED
    BY <2>1, <2>2
<1>11. depths2 \in UNION {[d -> Nat] : d \in SUBSET (1 .. MaxStatements)}
  <2> DEFINE d == DOMAIN depths \cup {At}
  <2>1. \A l \in DOMAIN depths : l \in 1 .. n
    BY <1>10
  <2>2. \A l \in d : l \in 1 .. MaxStatements
    BY <2>1, <1>3, <1>4
  <2>3. d \in SUBSET (1 .. MaxStatements)
    BY <2>2
  <2>4. \A l \in d : (IF l = At THEN depth ELSE depths[l]) \in Nat
    BY <1>3, <1>10
  <2>5. depths2 \in [d -> Nat]
    BY <2>4
  <2> HIDE DEF d
  <2> QED
    BY <2>3, <2>5
<1>12. lowerer.pending \ Arriving \subseteq [stat : Nat, label : Nat, captured : SUBSET Nat]
  BY <1>1 DEF LowererSet
<1> HIDE DEF closes2, depths2
<1>13. /\ lowerer'.locals = lowerer.locals /\ lowerer'.blocks = lowerer.blocks
       /\ lowerer'.loops = lowerer.loops /\ lowerer'.depths = depths2
       /\ lowerer'.pending = lowerer.pending \ Arriving /\ lowerer'.closes = closes2
       /\ ~lowerer'.terminated
  BY <1>1, <1>2 DEF LowererSet
<1>14. lowerer' \in LowererSet
  BY <1>1, <1>2, <1>9, <1>11, <1>12 DEF LowererSet
<1>15. lowerer'.locals = h[At].locals /\ lowerer'.blocks = h[At].blocks
  BY <1>3, <1>13, BlocksAssumption DEF Follows
<1>16. LoopsKept'
  BY <1>13 DEF Lowered, LoopsKept
<1>17. DepthsKnown'
  <2>1. /\ DOMAIN depths2 = DOMAIN depths \cup {At}
        /\ depths2[At] = depth /\ \A l \in DOMAIN depths : l # At => depths2[l] = depths[l]
    BY DEF depths2
  <2>2. \A l \in 1 .. n : l \in 1 .. At /\ l # At
    BY <1>3
  <2>3. \A l \in 1 .. At : l = At \/ l \in 1 .. n
    BY <1>3
  <2>4. DOMAIN depths2 = {l \in 1 .. At : body[l].kind = "label"}
    BY <2>1, <2>2, <2>3, <1>3, <1>10
  <2>5. ASSUME NEW l \in DOMAIN depths2
        PROVE  depths2[l] = Len(scopes'[l].locals)
    <3>1. CASE l = At
      BY <3>1, <2>1, <1>3
    <3>2. CASE l # At
      <4>1. l \in DOMAIN depths /\ l \in 1 .. n
        BY <3>2, <2>1, <1>10
      <4> QED
        BY <4>1, <3>2, <2>1, <1>3, <1>10
    <3> QED
      BY <3>1, <3>2
  <2> QED
    BY <2>4, <2>5, <1>3, <1>13 DEF DepthsKnown
<1>18. PendingWait'
  <2> SUFFICES ASSUME NEW p \in lowerer.pending, p \notin Arriving
               PROVE  /\ p.stat \in 1 .. At /\ p.label \in At + 1 .. Len(body)
                      /\ <<p.stat, p.label>> \in resolver.jumps
                      /\ p = Waits(p.stat, p.label)'
    BY <1>3, <1>13 DEF PendingWait
  <2>1. /\ p.stat \in 1 .. n /\ p.label \in n + 1 .. Len(body)
        /\ <<p.stat, p.label>> \in resolver.jumps
        /\ p = Waits(p.stat, p.label)
    BY DEF Lowered, PendingWait
  <2>2. p.label # At
    BY DEF Arriving
  <2>3. Waits(p.stat, p.label)' = Waits(p.stat, p.label)
    BY <2>1, <1>3 DEF Waits
  <2> QED
    BY <2>1, <2>2, <2>3, <1>3, <1>4
<1>19. ClosedSoFar'
  <2>0. \A j \in resolver.jumps : /\ j[1] \in 1 .. Len(body) /\ j[2] \in 1 .. Len(body)
                                  /\ body[j[1]].kind = "goto" /\ j[1] # At
    BY <1>3, SentPairs DEF Handed
  <2>1. ASSUME NEW s \in 1 .. At, NEW i \in Places(scopes'[s].locals),
               \/ body[s].kind = "end" /\ scopes'[s].live /\ i > scopes'[s].block
               \/ body[s].kind = "break" /\ i > scopes'[s].loop
        PROVE  i >= closes2[s]
    <3>1. s # At /\ s \in 1 .. n /\ s \in 1 .. MaxStatements
      BY <2>1, <1>3, <1>4
    <3>2. ~\E p \in Arriving : p.stat = s
      <4> SUFFICES ASSUME NEW p \in Arriving, p.stat = s
                   PROVE  FALSE
        OBVIOUS
      <4>1. <<s, At>> \in resolver.jumps
        BY <1>6
      <4>2. body[s].kind = "goto"
        BY <4>1, <2>0
      <4> QED
        BY <4>2, <2>1
    <3>3. scopes'[s] = scopes[s] /\ closes2[s] = lowerer.closes[s]
      BY <3>1, <3>2, <1>3, <1>8
    <3>4. i \in Places(scopes[s].locals)
      BY <3>3
    <3> QED
      BY <3>1, <3>3, <3>4, <2>1 DEF Lowered, ClosedSoFar
  <2>2. ASSUME NEW j \in resolver.jumps, j[1] \in 1 .. At
        PROVE  IF j[2] <= At
               THEN closes2[j[1]] =
                      CloseFrom(Places(scopes'[j[1]].locals), Len(scopes'[j[2]].locals))
               ELSE /\ closes2[j[1]] = NoClose
                    /\ Places(scopes'[j[1]].locals) # {} =>
                         Waits(j[1], j[2])' \in lowerer.pending \ Arriving
    <3>1. /\ j[1] \in 1 .. n /\ j[1] \in 1 .. MaxStatements /\ j[2] \in 1 .. Len(body)
          /\ scopes'[j[1]] = scopes[j[1]] /\ j = <<j[1], j[2]>>
      <4>1. j[1] # At /\ j[2] \in 1 .. Len(body)
        BY <2>0
      <4>2. j[1] \in 1 .. n /\ j[1] \in 1 .. MaxStatements
        BY <4>1, <2>2, <1>3, <1>4, SMTT(40)
      <4>3. j = <<j[1], j[2]>>
        BY DEF Handed, Sent
      <4> QED
        BY <4>1, <4>2, <4>3, <1>3
    <3>2. Waits(j[1], j[2])' = Waits(j[1], j[2])
      BY <3>1 DEF Waits
    <3>3. IF j[2] <= n
          THEN lowerer.closes[j[1]] =
                 CloseFrom(Places(scopes[j[1]].locals), Len(scopes[j[2]].locals))
          ELSE /\ lowerer.closes[j[1]] = NoClose
               /\ Places(scopes[j[1]].locals) # {} => Waits(j[1], j[2]) \in lowerer.pending
      BY <3>1 DEF Lowered, ClosedSoFar
    <3>4. ASSUME NEW p \in Arriving, p.stat = j[1]
          PROVE  j[2] = At
      <4>1. <<j[1], At>> \in resolver.jumps
        BY <3>4, <1>6
      <4> QED
        BY <4>1 DEF Handed, Sent
    <3>5. CASE j[2] = At
      <4>1. scopes'[At].locals = lowerer.locals /\ ~(j[2] <= n)
        BY <3>5, <1>3
      <4>2. CASE Places(scopes[j[1]].locals) = {}
        <5>1. CloseFrom(Places(scopes[j[1]].locals), depth) = NoClose
          BY <3>1, <4>2, <1>3, <1>5, CloseFromIs
        <5>2. closes2[j[1]] = NoClose
          <6>1. CASE \E p \in Arriving : p.stat = j[1]
            <7>1. closes2[j[1]] = CloseFrom(Places(scopes[j[1]].locals), depth)
              BY <6>1, <3>1, <1>8
            <7> QED
              BY <7>1, <5>1
          <6>2. CASE ~\E p \in Arriving : p.stat = j[1]
            BY <6>2, <3>1, <3>3, <4>1, <1>8
          <6> QED
            BY <6>1, <6>2
        <5> QED
          BY <5>1, <5>2, <3>1, <3>5, <4>1, <1>3
      <4>3. CASE Places(scopes[j[1]].locals) # {}
        <5>1. Waits(j[1], At) \in Arriving /\ Waits(j[1], At).stat = j[1]
          BY <4>3, <4>1, <3>3, <3>5 DEF Arriving, Waits
        <5>2. closes2[j[1]] = CloseFrom(Places(scopes[j[1]].locals), depth)
          BY <5>1, <3>1, <1>8
        <5> QED
          BY <5>2, <3>1, <3>5, <4>1, <1>3
      <4> QED
        BY <4>2, <4>3
    <3>6. CASE j[2] # At
      <4>1. closes2[j[1]] = lowerer.closes[j[1]]
        BY <3>1, <3>4, <3>6, <1>8
      <4>2. CASE j[2] <= At
        <5>1. j[2] \in 1 .. n /\ j[2] <= n /\ scopes'[j[2]] = scopes[j[2]]
          BY <3>1, <3>6, <4>2, <1>3
        <5> QED
          BY <5>1, <4>1, <4>2, <3>1, <3>3
      <4>3. CASE ~(j[2] <= At)
        <5>1. ~(j[2] <= n)
          BY <4>3, <3>1, <1>3
        <5>2. Waits(j[1], j[2]) \notin Arriving
          BY <3>6 DEF Arriving, Waits
        <5> QED
          BY <5>1, <5>2, <4>1, <4>3, <3>1, <3>2, <3>3
      <4> QED
        BY <4>2, <4>3
    <3> QED
      BY <3>5, <3>6
  <2>3. ASSUME NEW s \in At + 1 .. Len(body)
        PROVE  closes2[s] = NoClose
    <3>1. s \in n + 1 .. Len(body) /\ s \in 1 .. MaxStatements /\ s \notin 1 .. n
      BY <1>3, <1>4
    <3>2. ~\E p \in Arriving : p.stat = s
      BY <3>1, <1>6
    <3> QED
      BY <3>1, <3>2, <1>8 DEF Lowered, ClosedSoFar
  <2> QED
    BY <2>1, <2>2, <2>3, <1>3, <1>13 DEF ClosedSoFar
<1> QED
  BY <1>1, <1>13, <1>14, <1>15, <1>16, <1>17, <1>18, <1>19, LowerStep

-----------------------------------------------------------------------------
(* The resolver.  One statement more, and where it leads.                  *)
LEMMA LongerIs ==
  ASSUME NEW h, NEW b \in Seq(Statements), h \in [0 .. Len(b) -> Point],
         NEW s \in Statements, NEW p \in Point
  PROVE  /\ Len(b) \in Nat
         /\ Append(b, s) \in Seq(Statements) /\ Len(Append(b, s)) = Len(b) + 1
         /\ \A i \in 1 .. Len(b) : Append(b, s)[i] = b[i]
         /\ Append(b, s)[Len(b) + 1] = s
         /\ Longer(h, b, p) \in [0 .. Len(b) + 1 -> Point]
         /\ \A k \in 0 .. Len(b) : Longer(h, b, p)[k] = h[k]
         /\ Longer(h, b, p)[Len(b) + 1] = p
<1>1. Len(b) \in Nat /\ 0 .. Len(b) \subseteq 0 .. Len(b) + 1
  OBVIOUS
<1>2. \A k \in 0 .. Len(b) + 1 : k <= Len(b) => k \in 0 .. Len(b)
  BY <1>1
<1>3. Longer(h, b, p) \in [0 .. Len(b) + 1 -> Point]
  BY <1>2 DEF Longer
<1> QED
  BY <1>1, <1>3 DEF Longer

(* The slots of a numeric loop.                                            *)
LEMMA SlotsAre ==
  ASSUME NEW k \in Nat, NEW locals \in Seq(Bound)
  PROVE  LET slots == [i \in 1 .. 4 |-> Bind(k, i = 4)]
         IN  /\ slots \in Seq(Bound) /\ locals \o slots \in Seq(Bound)
             /\ Len(locals \o slots) = Len(locals) + 4
             /\ Agree(locals, locals \o slots, Len(locals))
             /\ \A p \in Len(locals) + 1 .. Len(locals) + 3 : ~(locals \o slots)[p].captured
<1> DEFINE slots == [i \in 1 .. 4 |-> Bind(k, i = 4)]
<1>1. \A i \in 1 .. 4 : Bind(k, i = 4) \in Bound
  BY DEF Bind, Bound
<1>2. slots \in [1 .. 4 -> Bound]
  BY <1>1
<1>3. \A i \in 1 .. 4 : slots[i].captured = (i = 4)
  BY DEF Bind
<1>4. slots \in Seq(Bound)
  <2>1. 4 \in Nat
    OBVIOUS
  <2>2. Seq(Bound) = UNION {[1 .. n -> Bound] : n \in Nat}
    BY SeqDef
  <2>3. \E n \in Nat : slots \in [1 .. n -> Bound]
    BY <1>2, <2>1
  <2> HIDE DEF slots
  <2> QED
    BY <2>2, <2>3, Zenon
<1> HIDE DEF slots
<1>5. Len(slots) = 4
  <2>1. DOMAIN slots = 1 .. 4 /\ DOMAIN slots = 1 .. Len(slots) /\ Len(slots) \in Nat
    BY <1>2, <1>4, LenProperties
  <2> QED
    BY <2>1
<1>6. Len(locals) \in Nat
  OBVIOUS
<1>7. /\ locals \o slots \in Seq(Bound) /\ Len(locals \o slots) = Len(locals) + 4
      /\ \A i \in 1 .. Len(locals) + 4 :
           (locals \o slots)[i] = IF i <= Len(locals) THEN locals[i] ELSE slots[i - Len(locals)]
  <2>1. /\ locals \o slots \in Seq(Bound) /\ Len(locals \o slots) = Len(locals) + Len(slots)
        /\ \A i \in 1 .. Len(locals) + Len(slots) :
             (locals \o slots)[i] = IF i <= Len(locals) THEN locals[i] ELSE slots[i - Len(locals)]
    BY <1>4, ConcatProperties, Zenon
  <2> QED
    BY <2>1, <1>5, Zenon
<1> DEFINE n == Len(locals)
           long == locals \o slots
<1> HIDE DEF n, long
<1>8. n \in Nat /\ \A i \in 1 .. n + 4 : long[i] = IF i <= n THEN locals[i] ELSE slots[i - n]
  BY <1>6, <1>7 DEF n, long
<1>9. \A i \in 1 .. n : locals[i] = long[i]
  BY <1>8
<1>10. ASSUME NEW p \in n + 1 .. n + 3
       PROVE  ~long[p].captured
  <2>1. long[p] = slots[p - n] /\ p - n \in 1 .. 4 /\ p - n # 4
    BY <1>8
  <2> QED
    BY <2>1, <1>3
<1> QED
  BY <1>4, <1>6, <1>7, <1>9, <1>10 DEF n, long, slots, Agree

(* A block keeps its place as long as the locals below it stay.            *)
LEMMA BlockStays ==
  ASSUME NEW locals \in Seq(Bound), NEW now \in Seq(Bound),
         NEW blocks \in Seq(Block), NEW open \in Seq(Block),
         NEW i \in 1 .. Len(blocks), i \in 1 .. Len(open), open[i] = blocks[i],
         NestedBlock(locals, blocks, i),
         NEW keep \in Nat, blocks[i].depth <= keep, Agree(locals, now, keep),
         \A j \in i + 1 .. Len(open) : blocks[i].depth <= open[j].outer
  PROVE  NestedBlock(now, open, i)
<1>0. blocks[i] \in Block
  BY ElementOfSeq
<1>1. blocks[i].depth \in Nat /\ blocks[i].outer \in Nat /\ Len(now) \in Nat
  BY <1>0, SMTT(40) DEF Block
<1>2. ASSUME NEW p \in blocks[i].outer + 1 .. blocks[i].depth
      PROVE  ~now[p].captured
  <2>1. p \in 1 .. keep
    BY <1>1
  <2> QED
    BY <2>1 DEF NestedBlock, Agree
<1>3. blocks[i].depth <= Len(now)
  BY <1>1 DEF Agree
<1>4. blocks[i].depth =
        IF blocks[i].kind = "for" THEN blocks[i].outer + 3 ELSE blocks[i].outer
  BY DEF NestedBlock
<1> QED
  BY <1>2, <1>3, <1>4 DEF NestedBlock

(* Blocks stay nested, whatever the statement.                             *)
LEMMA StaysNested ==
  ASSUME NEW at \in Point, NEW p \in Point, NEW s \in Statements, NEW k \in Nat,
         Nested(at), Follows(at, p, s, k)
  PROVE  Nested(p) /\ Len(p.locals) <= Len(at.locals) + 4
<1> DEFINE m == Len(at.locals)
           n == Len(at.blocks)
<1>1. /\ at.locals \in Seq(Bound) /\ at.blocks \in Seq(Block)
      /\ p.locals \in Seq(Bound) /\ p.blocks \in Seq(Block) /\ m \in Nat /\ n \in Nat
      /\ Len(p.locals) \in Nat /\ Len(p.blocks) \in Nat
  BY DEF Point
<1>2. \A i \in 1 .. n : NestedBlock(at.locals, at.blocks, i) /\ at.blocks[i] \in Block
  BY <1>1 DEF Nested
<1>3. \A i \in 1 .. n : at.blocks[i].depth <= m
  BY <1>2 DEF NestedBlock
<1>4. \A i \in 1 .. n : \A j \in i + 1 .. n : at.blocks[i].depth <= at.blocks[j].outer
  BY <1>2 DEF NestedBlock
<1>5. \A i \in 1 .. n : at.blocks[i].outer <= at.blocks[i].depth
                         /\ at.blocks[i].outer \in Nat /\ at.blocks[i].depth \in Nat
  BY <1>2 DEF NestedBlock, Block
<1>6. "local" \notin Blocks /\ "end" \notin Blocks
  BY BlocksAssumption
<1>7. CASE s.kind = "local"
  <2>1. p.locals = Append(at.locals, Bind(k, s.captured)) /\ p.blocks = at.blocks
    BY <1>7 DEF Follows
  <2>2. Len(p.locals) = m + 1 /\ Agree(at.locals, p.locals, m)
    BY <2>1, <1>1 DEF Agree
  <2>3. \A i \in 1 .. n : NestedBlock(p.locals, p.blocks, i)
    BY <2>1, <2>2, <1>1, <1>2, <1>3, <1>4, BlockStays
  <2> QED
    BY <2>1, <2>2, <2>3, <1>1 DEF Nested
<1>8. CASE s.kind \in Blocks
  <2> DEFINE depth == IF s.kind = "for" THEN m + 3 ELSE m
             new == [kind |-> s.kind, depth |-> depth, outer |-> m]
  <2>1. /\ p.locals = IF s.kind = "for"
                      THEN at.locals \o [i \in 1 .. 4 |-> Bind(k, i = 4)] ELSE at.locals
        /\ p.blocks = Append(at.blocks, new)
    BY <1>8 DEF Follows
  <2>2. /\ Agree(at.locals, p.locals, m)
        /\ Len(p.locals) = IF s.kind = "for" THEN m + 4 ELSE m
        /\ \A i \in m + 1 .. depth : ~p.locals[i].captured
    <3>1. CASE s.kind = "for"
      BY <3>1, <2>1, <1>1, SlotsAre, ZenonT(40)
    <3>2. CASE s.kind # "for"
      BY <3>2, <2>1, <1>1 DEF Agree
    <3> QED
      BY <3>1, <3>2
  <2>3. Len(p.blocks) = n + 1 /\ p.blocks[n + 1] = new
        /\ \A i \in 1 .. n : p.blocks[i] = at.blocks[i]
    BY <2>1, <1>1
  <2>4. new.depth = depth /\ new.outer = m /\ new.kind = s.kind
    OBVIOUS
  <2> HIDE DEF new
  <2>5. NestedBlock(p.locals, p.blocks, n + 1)
    <3>1. depth <= Len(p.locals) /\ depth = IF s.kind = "for" THEN m + 3 ELSE m
      BY <2>2, <1>1
    <3>2. \A j \in (n + 1) + 1 .. Len(p.blocks) : FALSE
      BY <2>3, <1>1
    <3> QED
      BY <3>1, <3>2, <2>2, <2>3, <2>4 DEF NestedBlock
  <2>6. ASSUME NEW i \in 1 .. n
        PROVE  NestedBlock(p.locals, p.blocks, i)
    <3>1. ASSUME NEW j \in i + 1 .. n + 1
          PROVE  at.blocks[i].depth <= p.blocks[j].outer
      <4>1. CASE j = n + 1
        BY <4>1, <2>3, <2>4, <1>3
      <4>2. CASE j # n + 1
        <5> HIDE DEF n
        <5>1. j \in i + 1 .. n /\ j \in 1 .. n
          BY <4>2, <1>1
        <5> QED
          BY <5>1, <2>3, <1>4
      <4> QED
        BY <4>1, <4>2
    <3>2. i \in 1 .. Len(p.blocks) /\ p.blocks[i] = at.blocks[i]
      BY <2>3, <1>1
    <3> QED
      BY <3>1, <3>2, <2>2, <2>3, <1>1, <1>2, <1>3, BlockStays
  <2>7. Nested(p)
    <3>1. \A i \in 1 .. n + 1 : i \in 1 .. n \/ i = n + 1
      <4> HIDE DEF n
      <4> QED
        BY <1>1
    <3> QED
      BY <3>1, <2>3, <2>5, <2>6 DEF Nested
  <2> QED
    BY <2>2, <2>7, <1>1
<1>9. CASE s.kind = "end"
  <2> DEFINE outer == Last(at.blocks).outer
  <2>1. at.blocks # <<>> /\ p.locals = SubSeq(at.locals, 1, outer) /\ p.blocks = Front(at.blocks)
    BY <1>9 DEF Follows
  <2>2. /\ n > 0 /\ Last(at.blocks) = at.blocks[n] /\ n \in 1 .. n
        /\ Len(p.blocks) = n - 1 /\ \A i \in 1 .. n - 1 : p.blocks[i] = at.blocks[i]
    <3>1. /\ Len(at.blocks) > 0 /\ Last(at.blocks) = at.blocks[Len(at.blocks)]
          /\ Len(Front(at.blocks)) = Len(at.blocks) - 1
          /\ \A i \in 1 .. Len(at.blocks) - 1 : Front(at.blocks)[i] = at.blocks[i]
      BY <2>1, <1>1, FrontAndLast
    <3>2. n > 0 => n \in 1 .. n
      BY <1>1
    <3> HIDE DEF outer
    <3> QED
      BY <3>1, <3>2, <2>1
  <2>3. outer \in 0 .. m
    <3>1. at.blocks[n].outer \in Nat /\ at.blocks[n].depth \in Nat
          /\ at.blocks[n].outer <= at.blocks[n].depth /\ at.blocks[n].depth <= m
      BY <2>2, <1>3, <1>5
    <3> QED
      BY <3>1, <2>2, <1>1
  <2>4. Len(p.locals) = outer /\ \A i \in 1 .. outer : at.locals[i] = p.locals[i]
    <3> HIDE DEF outer
    <3> QED
      BY <2>1, <2>3, <1>1
  <2>5. ASSUME NEW i \in 1 .. n - 1
        PROVE  NestedBlock(p.locals, p.blocks, i)
    <3> HIDE DEF n
    <3>1. i \in 1 .. n /\ n \in i + 1 .. n
      BY <1>1
    <3>2. at.blocks[i].depth <= outer
      BY <3>1, <2>2, <1>4
    <3>3. Agree(at.locals, p.locals, outer)
      BY <2>3, <2>4, <1>1 DEF Agree
    <3>4. ASSUME NEW j \in i + 1 .. Len(p.blocks)
          PROVE  at.blocks[i].depth <= p.blocks[j].outer
      <4>1. j \in i + 1 .. n /\ j \in 1 .. n - 1
        BY <2>2, <1>1
      <4> QED
        BY <4>1, <3>1, <2>2, <1>4
    <3>5. i \in 1 .. Len(p.blocks) /\ p.blocks[i] = at.blocks[i] /\ outer \in Nat
      BY <2>2, <2>3
    <3>6. i \in 1 .. Len(at.blocks)
      BY <3>1 DEF n
    <3> HIDE DEF outer
    <3> QED
      BY <3>1, <3>2, <3>3, <3>4, <3>5, <3>6, <1>1, <1>2, BlockStays
  <2> HIDE DEF outer
  <2> QED
    BY <2>2, <2>3, <2>4, <2>5, <1>1 DEF Nested
<1>10. CASE s.kind \notin {"local", "end"} \cup Blocks
  <2>1. p = at
    BY <1>10 DEF Follows
  <2> QED
    BY <2>1, <1>1
<1> QED
  BY <1>7, <1>8, <1>9, <1>10

(* A body one statement longer has its history one point longer, and the   *)
(* gotos that reached their labels reach them still.                       *)
LEMMA WalkOn ==
  ASSUME NEW h, NEW b, NEW s, NEW p, Way(h, b), Tails(h, b), Walks(h, b, s, p)
  PROVE  /\ Way(Longer(h, b, p), Append(b, s)) /\ Tails(Longer(h, b, p), Append(b, s))
         /\ \A l \in 1 .. Len(b) : AliveAt(Longer(h, b, p), Append(b, s), l) = AliveAt(h, b, l)
         /\ \A g, l \in 1 .. Len(b) :
              Reaches(h, b, g, l) => Reaches(Longer(h, b, p), Append(b, s), g, l)
<1> DEFINE n == Len(b)
           b2 == Append(b, s)
           h2 == Longer(h, b, p)
<1>1. /\ b \in Seq(Statements) /\ h \in [0 .. n -> Point] /\ s \in Statements /\ p \in Point
      /\ h[0] = [locals |-> <<>>, blocks |-> <<>>]
  BY DEF Way, Walks
<1>2. /\ n \in Nat /\ b2 \in Seq(Statements) /\ Len(b2) = n + 1
      /\ \A i \in 1 .. n : b2[i] = b[i]
      /\ b2[n + 1] = s /\ h2 \in [0 .. n + 1 -> Point]
      /\ \A k \in 0 .. n : h2[k] = h[k]
      /\ h2[n + 1] = p
  BY <1>1, LongerIs
<1> HIDE DEF h2, b2
<1>3. \A k \in 0 .. n : Nested(h[k]) /\ Len(h[k].locals) <= 4 * k /\ Len(h[k].locals) \in Nat
  BY PointsAre
<1>4. Nested(p) /\ Len(p.locals) <= 4 * (n + 1)
  <2>1. h[n] \in Point /\ n \in 0 .. n /\ n + 1 \in Nat
    BY <1>1, <1>2
  <2>2. Follows(h[n], p, s, n + 1)
    BY DEF Walks
  <2>3. Nested(p) /\ Len(p.locals) <= Len(h[n].locals) + 4
    BY <2>1, <2>2, <1>1, <1>3, StaysNested
  <2>4. Len(p.locals) \in Nat
    BY <1>1 DEF Point
  <2>5. Len(h[n].locals) <= 4 * n /\ Len(h[n].locals) \in Nat
    BY <2>1, <1>3
  <2> HIDE DEF n
  <2> QED
    BY <2>3, <2>4, <2>5, <1>2
<1>5. Way(h2, b2)
  <2>1. ASSUME NEW k \in 1 .. n + 1
        PROVE  /\ Follows(h2[k - 1], h2[k], b2[k], k)
               /\ b2[k].kind = "break" =>
                    \E i \in 1 .. Len(h2[k - 1].blocks) : h2[k - 1].blocks[i].kind \in Loops
    <3>1. CASE k \in 1 .. n
      <4>1. k - 1 \in 0 .. n /\ k \in 0 .. n
        BY <3>1, <1>2
      <4> QED
        BY <3>1, <4>1, <1>2 DEF Way
    <3>2. CASE k = n + 1
      <4>1. k - 1 = n /\ n \in 0 .. n
        BY <3>2, <1>2
      <4> QED
        BY <3>2, <4>1, <1>2 DEF Walks
    <3> QED
      BY <3>1, <3>2, <1>2
  <2>2. ASSUME NEW k \in 0 .. n + 1
        PROVE  Nested(h2[k]) /\ Len(h2[k].locals) <= 4 * k
    <3>1. CASE k = n + 1
      BY <3>1, <1>2, <1>4
    <3>2. CASE k # n + 1
      <4>1. k \in 0 .. n
        BY <3>2, <1>2
      <4> QED
        BY <4>1, <1>2, <1>3
    <3> QED
      BY <3>1, <3>2
  <2>3. h2[0] = [locals |-> <<>>, blocks |-> <<>>]
    BY <1>1, <1>2
  <2> QED
    BY <2>1, <2>2, <2>3, <1>2 DEF Way
<1>6. Tails(h2, b2)
  <2> SUFFICES ASSUME NEW l \in 1 .. n + 1, TailLabel(b2[l]), NEW j \in l .. n + 1,
                      \A i \in l + 1 .. j : b2[i].kind # "end"
               PROVE  TailLabel(b2[j]) /\ h2[j] = h2[l - 1]
    BY <1>2 DEF Tails
  <2>1. CASE j \in 1 .. n
    <3>1. l \in 1 .. n /\ j \in l .. n /\ l - 1 \in 0 .. n /\ j \in 0 .. n
      BY <2>1, <1>2
    <3>2. \A i \in l + 1 .. j : i \in 1 .. n
      BY <3>1, <1>2
    <3>3. TailLabel(b[l]) /\ \A i \in l + 1 .. j : b[i].kind # "end"
      BY <3>1, <3>2, <1>2
    <3>4. TailLabel(b[j]) /\ h[j] = h[l - 1]
      BY <3>1, <3>3 DEF Tails
    <3> QED
      BY <3>1, <3>4, <2>1, <1>2
  <2>2. CASE j = n + 1
    <3>1. h2[n] = h2[l - 1] /\ (l # n + 1 => TailLabel(b[n]) /\ b # <<>>)
      <4>1. CASE l = n + 1
        BY <4>1, <1>2
      <4>2. CASE l # n + 1
        <5>1. l \in 1 .. n /\ n \in l .. n /\ l - 1 \in 0 .. n /\ n \in 0 .. n
          BY <4>2, <1>2
        <5>2. \A i \in l + 1 .. n : i \in 1 .. n /\ i \in l + 1 .. j
          BY <5>1, <2>2, <1>2
        <5>3. TailLabel(b[l]) /\ \A i \in l + 1 .. n : b[i].kind # "end"
          BY <5>1, <5>2, <1>2
        <5>4. TailLabel(b[n]) /\ h[n] = h[l - 1]
          BY <5>1, <5>3 DEF Tails
        <5>5. b # <<>>
          BY <5>1
        <5> QED
          BY <5>1, <5>4, <5>5, <1>2
      <4> QED
        BY <4>1, <4>2
    <3>2. TailLabel(s)
      <4>1. CASE l = n + 1
        BY <4>1, <1>2
      <4>2. CASE l # n + 1
        <5>1. n + 1 \in l + 1 .. j
          BY <4>2, <2>2, <1>2
        <5>2. s.kind # "end"
          BY <5>1, <1>2
        <5> QED
          BY <5>2, <4>2, <3>1 DEF Walks
      <4> QED
        BY <4>1, <4>2
    <3>3. p = h[n]
      <4>1. s.kind \notin {"local", "end"} \cup Blocks
        BY <3>2, BlocksAssumption DEF TailLabel
      <4> QED
        BY <4>1 DEF Walks, Follows
    <3>4. h2[n] = h[n]
      BY <1>2
    <3> QED
      BY <3>1, <3>2, <3>3, <3>4, <2>2, <1>2
  <2> QED
    BY <2>1, <2>2, <1>2
<1>7. \A l \in 1 .. n : /\ h2[l - 1] = h[l - 1] /\ b2[l] = b[l]
                        /\ AliveAt(h2, b2, l) = AliveAt(h, b, l)
  <2>1. \A l \in 1 .. n : l - 1 \in 0 .. n
    BY <1>2
  <2> QED
    BY <2>1, <1>2 DEF AliveAt
<1>8. \A g, l \in 1 .. n : Reaches(h, b, g, l) => Reaches(h2, b2, g, l)
  BY <1>7 DEF Reaches
<1> QED
  BY <1>5, <1>6, <1>7, <1>8 DEF h2, b2

(* The counts measure the history: they grow, up to what is in scope.      *)
LEMMA CountsAre ==
  ASSUME NEW h, NEW b, NEW r, NEW counts, NEW frames, Resolved(h, b, r, counts, frames)
  PROVE  /\ Len(b) \in Nat /\ r.declarations \in Nat /\ r.declarations <= Len(b)
         /\ r.blocks \in Seq(FrameSet) /\ Len(r.blocks) \in Nat /\ Len(r.blocks) > 0
         /\ \A f \in 1 .. Len(r.blocks) :
              r.blocks[f] \in FrameSet /\ r.blocks[f].declarations \in 0 .. r.declarations
         /\ \A f \in 1 .. Len(r.blocks) : Ceiling(r, f) \in 0 .. r.declarations
         /\ counts \in Seq(Nat) /\ Len(counts) = r.declarations
         /\ \A d \in 0 .. r.declarations : Size(counts, d) \in Nat
         /\ \A d \in 0 .. r.declarations : Size(counts, d) \in 0 .. Len(h[Len(b)].locals)
         /\ \A d, e \in 0 .. r.declarations : d <= e => Size(counts, d) <= Size(counts, e)
         /\ Size(counts, r.declarations) = Len(h[Len(b)].locals)
         /\ Len(h[Len(b)].locals) \in Nat
<1>1. /\ Way(h, b) /\ ResolverType(b, r) /\ Stacked(r) /\ Counted(h[Len(b)], r, counts)
  BY DEF Resolved
<1>2. Len(b) \in Nat /\ Len(h[Len(b)].locals) \in Nat
  <2>1. Len(b) \in 0 .. Len(b) /\ Len(b) \in Nat
    BY <1>1 DEF Way
  <2> QED
    BY <2>1, <1>1, PointsAre
<1>3. /\ r.declarations \in Nat /\ r.declarations <= Len(b)
      /\ r.blocks \in Seq(FrameSet) /\ Len(r.blocks) \in Nat
  BY <1>1 DEF ResolverType
<1>4. Len(r.blocks) > 0
  BY <1>1, <1>3 DEF Stacked
<1>5. \A f \in 1 .. Len(r.blocks) :
        r.blocks[f] \in FrameSet /\ r.blocks[f].declarations \in 0 .. r.declarations
  <2>1. \A f \in 1 .. Len(r.blocks) : r.blocks[f] \in FrameSet
    BY <1>3, ElementOfSeq
  <2>2. \A f \in 1 .. Len(r.blocks) : r.blocks[f].declarations \in Nat
    BY <2>1 DEF FrameSet
  <2> QED
    BY <2>1, <2>2, <1>1, <1>3 DEF Stacked
<1>6. \A f \in 1 .. Len(r.blocks) : Ceiling(r, f) \in 0 .. r.declarations
  <2> SUFFICES ASSUME NEW f \in 1 .. Len(r.blocks)
               PROVE  Ceiling(r, f) \in 0 .. r.declarations
    OBVIOUS
  <2>1. CASE f = Len(r.blocks)
    BY <2>1, <1>3 DEF Ceiling
  <2>2. CASE f # Len(r.blocks)
    <3>1. f + 1 \in 1 .. Len(r.blocks)
      BY <2>2, <1>3
    <3> QED
      BY <3>1, <2>2, <1>5 DEF Ceiling
  <2> QED
    BY <2>1, <2>2
<1>7. /\ counts \in Seq(Nat) /\ Len(counts) = r.declarations
      /\ Size(counts, r.declarations) = Len(h[Len(b)].locals)
      /\ \A i \in 1 .. Len(counts), j \in 1 .. Len(counts) : i <= j => counts[i] <= counts[j]
  BY <1>1 DEF Counted
<1>8. \A d \in 0 .. r.declarations : Size(counts, d) \in Nat
  <2> SUFFICES ASSUME NEW d \in 0 .. r.declarations
               PROVE  Size(counts, d) \in Nat
    OBVIOUS
  <2>1. CASE d = 0
    BY <2>1 DEF Size
  <2>2. CASE d # 0
    <3>1. d \in 1 .. Len(counts)
      BY <2>2, <1>3, <1>7
    <3>2. counts[d] \in Nat
      BY <3>1, <1>7, ElementOfSeq
    <3> QED
      BY <3>2, <2>2 DEF Size
  <2> QED
    BY <2>1, <2>2
<1>9. ASSUME NEW d \in 0 .. r.declarations, NEW e \in 0 .. r.declarations, d <= e
      PROVE  Size(counts, d) <= Size(counts, e)
  <2>1. CASE d = 0
    BY <2>1, <1>8 DEF Size
  <2>2. CASE d # 0
    <3>1. d \in 1 .. Len(counts) /\ e \in 1 .. Len(counts) /\ e # 0
      BY <2>2, <1>3, <1>7, <1>9
    <3>2. counts[d] <= counts[e]
      BY <3>1, <1>7, <1>9
    <3> QED
      BY <3>1, <3>2, <2>2 DEF Size
  <2> QED
    BY <2>1, <2>2
<1>10. \A d \in 0 .. r.declarations : Size(counts, d) \in 0 .. Len(h[Len(b)].locals)
  <2>1. \A d \in 0 .. r.declarations : d <= r.declarations /\ r.declarations \in 0 .. r.declarations
    BY <1>3
  <2>2. \A d \in 0 .. r.declarations : Size(counts, d) <= Len(h[Len(b)].locals)
    BY <2>1, <1>7, <1>9
  <2> QED
    BY <2>2, <1>2, <1>8
<1> QED
  BY <1>2, <1>3, <1>4, <1>5, <1>6, <1>7, <1>8, <1>9, <1>10

(* What has been noted of the labels and gotos stays true as long as no    *)
(* block ends.                                                             *)
LEMMA ItemsStay ==
  ASSUME NEW h, NEW b, NEW r, NEW counts, NEW frames, Resolved(h, b, r, counts, frames),
         NEW s, NEW p, Walks(h, b, s, p), NEW q, NEW more, Grows(h, b, r, counts, s, p, q, more)
  PROVE  \A f \in 1 .. Len(r.blocks) :
           /\ \A l \in r.blocks[f].labels :
                LabelAt(Longer(h, b, p), Append(b, s), q, more, f, l)
           /\ \A g \in r.blocks[f].gotos :
                GotoAt(Longer(h, b, p), Append(b, s), q, more, f, g)
<1> DEFINE n == Len(b)
           b2 == Append(b, s)
           h2 == Longer(h, b, p)
           here == h[n].locals
<1> USE DEF Grows
<1>0. Way(h, b) /\ Tails(h, b) /\ Stacked(r)
  BY DEF Resolved
<1>1. /\ n \in Nat /\ Len(b2) = n + 1
      /\ \A i \in 1 .. n : b2[i] = b[i]
      /\ b2[n + 1] = s
      /\ \A k \in 0 .. n : h2[k] = h[k]
      /\ h2[n + 1] = p
  <2>1. b \in Seq(Statements) /\ h \in [0 .. n -> Point] /\ s \in Statements /\ p \in Point
    BY <1>0 DEF Way, Walks
  <2> QED
    BY <2>1, LongerIs
<1>2. \A l \in 1 .. n : AliveAt(h2, b2, l) = AliveAt(h, b, l)
  BY <1>0, WalkOn
<1> HIDE DEF h2, b2
<1>3. /\ r.declarations \in Nat /\ Len(r.blocks) \in Nat
      /\ \A f \in 1 .. Len(r.blocks) : /\ r.blocks[f] \in FrameSet
                                       /\ Ceiling(r, f) \in 0 .. r.declarations
      /\ \A d \in 0 .. r.declarations : Size(counts, d) \in 0 .. Len(here)
      /\ Len(here) \in Nat
  BY CountsAre
<1>4. ASSUME NEW f \in 1 .. Len(r.blocks)
      PROVE  Ceiling(r, f) <= Ceiling(q, f) /\ Ceiling(q, f) \in Nat
  <2>1. CASE f = Len(q.blocks)
    <3>1. f = Len(r.blocks)
      BY <2>1, <1>3
    <3> QED
      BY <2>1, <3>1 DEF Ceiling
  <2>2. CASE f # Len(q.blocks) /\ f = Len(r.blocks)
    <3>1. f + 1 \in Len(r.blocks) + 1 .. Len(q.blocks)
      BY <2>2, <1>3
    <3> QED
      BY <2>2, <3>1 DEF Ceiling
  <2>3. CASE f # Len(r.blocks)
    <3>1. f + 1 \in 1 .. Len(r.blocks) /\ f # Len(q.blocks)
      BY <2>3, <1>3
    <3>2. Ceiling(q, f) = Ceiling(r, f)
      BY <3>1, <2>3 DEF Ceiling
    <3> QED
      BY <3>2, <1>3
  <2> QED
    BY <2>1, <2>2, <2>3
<1>5. ASSUME NEW k \in 1 .. n, NEW d \in 0 .. r.declarations,
             Agree(h[k - 1].locals, here, Size(counts, d))
      PROVE  Agree(h2[k - 1].locals, h2[n + 1].locals, Size(more, d))
  <2>1. h2[k - 1] = h[k - 1] /\ h2[n + 1] = p /\ Size(more, d) = Size(counts, d)
    BY <1>1
  <2>2. Size(counts, d) \in 0 .. Len(here) /\ Agree(here, p.locals, Len(here))
    BY <1>3
  <2>3. Size(counts, d) <= Len(p.locals)
    <3>1. Len(p.locals) \in Nat /\ Len(here) <= Len(p.locals)
      BY <2>2 DEF Agree, Walks, Point
    <3> HIDE DEF here
    <3> QED
      BY <3>1, <2>2, <1>3
  <2>4. \A i \in 1 .. Size(counts, d) : i \in 1 .. Len(here)
    <3> HIDE DEF here
    <3> QED
      BY <2>2, <1>3
  <2> QED
    BY <2>1, <2>2, <2>3, <2>4, <1>5 DEF Agree
<1>6. ASSUME NEW f \in 1 .. Len(r.blocks), NEW l \in r.blocks[f].labels
      PROVE  LabelAt(h2, b2, q, more, f, l)
  <2>1. LabelAt(h, b, r, counts, f, l)
    BY DEF Resolved, LabelsHold
  <2>2. l.declarations \in Nat
    BY <1>3 DEF FrameSet, LabelSet
  <2>3. l.stat \in 1 .. n /\ b[l.stat].kind = "label" /\ l.declarations <= Ceiling(r, f)
    BY <2>1 DEF LabelAt
  <2>4. l.declarations \in 0 .. r.declarations /\ l.declarations <= Ceiling(q, f)
    BY <2>2, <2>3, <1>3, <1>4, SMTT(40)
  <2>5. Agree(h2[l.stat - 1].locals, h2[n + 1].locals, Size(more, l.declarations))
    BY <2>1, <2>3, <2>4, <1>5 DEF LabelAt
  <2>6. AliveAt(h2, b2, l.stat) <= Size(more, l.declarations)
    BY <2>1, <2>3, <2>4, <1>2 DEF LabelAt
  <2>7. b2[l.stat] = b[l.stat] /\ l.stat \in 1 .. n + 1 /\ h2[l.stat - 1] = h[l.stat - 1]
    <3>1. l.stat - 1 \in 0 .. n /\ l.stat \in 1 .. n + 1
      BY <2>3, <1>1
    <3> QED
      BY <3>1, <2>3, <1>1
  <2>8. ASSUME b[l.stat].tail
        PROVE  /\ TailLabel(s) /\ f = Len(q.blocks)
               /\ h2[n + 1] = h2[l.stat - 1] /\ l.height = q.declarations
    <3>1. /\ TailLabel(b[n]) /\ f = Len(r.blocks) /\ h[n] = h[l.stat - 1]
          /\ l.height = r.declarations
      BY <2>1, <2>8 DEF LabelAt
    <3>2. b # <<>>
      BY <2>3
    <3> QED
      BY <3>1, <3>2, <2>7, <1>1
  <2> QED
    BY <2>3, <2>4, <2>5, <2>6, <2>7, <2>8, <1>1 DEF LabelAt
<1>7. ASSUME NEW f \in 1 .. Len(r.blocks), NEW g \in r.blocks[f].gotos
      PROVE  GotoAt(h2, b2, q, more, f, g)
  <2>1. GotoAt(h, b, r, counts, f, g)
    BY DEF Resolved, GotosHold
  <2>2. g.declarations \in Nat
    BY <1>3 DEF FrameSet, GotoSet
  <2>3. g.stat \in 1 .. n /\ b[g.stat].kind = "goto" /\ g.declarations <= Ceiling(r, f)
    BY <2>1 DEF GotoAt
  <2>4. g.declarations \in 0 .. r.declarations /\ g.declarations <= Ceiling(q, f)
    BY <2>2, <2>3, <1>3, <1>4, SMTT(40)
  <2>5. Agree(h2[g.stat - 1].locals, h2[n + 1].locals, Size(more, g.declarations))
    BY <2>1, <2>3, <2>4, <1>5 DEF GotoAt
  <2>6. b2[g.stat] = b[g.stat] /\ g.stat \in 1 .. n + 1
    BY <2>3, <1>1
  <2> QED
    BY <2>3, <2>4, <2>5, <2>6, <1>1 DEF GotoAt
<1> QED
  BY <1>6, <1>7 DEF h2, b2

(* A block and its frame stay a pair when what is around them stays.       *)
LEMMA PairStays ==
  ASSUME NEW at, NEW now, NEW r, NEW q, NEW counts, NEW more, NEW frames, NEW longer,
         frames \in Seq(Nat), NEW i \in 1 .. Len(frames),
         PairedAt(at, r, counts, frames, i),
         longer[i] = frames[i], i > 1 => longer[i - 1] = frames[i - 1],
         now.blocks[i] = at.blocks[i],
         Len(q.blocks) \in Nat, frames[i] <= Len(q.blocks), Len(r.blocks) \in Nat,
         \A f \in 1 .. frames[i] : /\ q.blocks[f].kind = r.blocks[f].kind
                                   /\ q.blocks[f].declarations = r.blocks[f].declarations
                                   /\ r.blocks[f].declarations \in Nat,
         \A d \in 0 .. r.blocks[frames[i]].declarations : Size(more, d) = Size(counts, d)
  PROVE  PairedAt(now, q, more, longer, i)
<1> DEFINE f == frames[i]
           block == at.blocks[i]
           before == IF i = 1 THEN 1 ELSE frames[i - 1]
<1>1. /\ f \in 2 .. Len(r.blocks) /\ r.blocks[f].kind = block.kind
      /\ block.kind = "for" =>
           /\ f = before + 2 /\ r.blocks[f - 1].kind = "control"
           /\ r.blocks[f].declarations = r.blocks[f - 1].declarations + 1
           /\ block.outer = Size(counts, r.blocks[f - 1].declarations)
           /\ block.outer + 4 = Size(counts, r.blocks[f].declarations)
      /\ block.kind # "for" =>
           f = before + 1 /\ block.outer = Size(counts, r.blocks[f].declarations)
  BY DEF PairedAt
<1>2. longer[i] = f /\ now.blocks[i] = block
      /\ before = IF i = 1 THEN 1 ELSE longer[i - 1]
  BY Len(frames) \in Nat
<1> HIDE DEF f, block, before
<1>3. f \in 1 .. f /\ f - 1 \in 1 .. f /\ f \in 2 .. Len(q.blocks)
  BY <1>1, SMTT(40) DEF f
<1>4. /\ q.blocks[f].kind = r.blocks[f].kind
      /\ q.blocks[f].declarations = r.blocks[f].declarations
      /\ q.blocks[f - 1].kind = r.blocks[f - 1].kind
      /\ q.blocks[f - 1].declarations = r.blocks[f - 1].declarations
      /\ r.blocks[f].declarations \in Nat /\ r.blocks[f - 1].declarations \in Nat
  BY <1>3 DEF f
<1>5. Size(more, r.blocks[f].declarations) = Size(counts, r.blocks[f].declarations)
  BY <1>4 DEF f
<1>6. block.kind = "for" =>
        Size(more, r.blocks[f - 1].declarations) = Size(counts, r.blocks[f - 1].declarations)
  <2> SUFFICES ASSUME block.kind = "for"
               PROVE  r.blocks[f - 1].declarations \in 0 .. r.blocks[f].declarations
    BY DEF f
  <2> QED
    BY <1>1, <1>4
<1>7. /\ f \in 2 .. Len(q.blocks) /\ q.blocks[f].kind = block.kind
      /\ block.kind = "for" =>
           /\ f = before + 2 /\ q.blocks[f - 1].kind = "control"
           /\ q.blocks[f].declarations = q.blocks[f - 1].declarations + 1
           /\ block.outer = Size(more, q.blocks[f - 1].declarations)
           /\ block.outer + 4 = Size(more, q.blocks[f].declarations)
      /\ block.kind # "for" =>
           f = before + 1 /\ block.outer = Size(more, q.blocks[f].declarations)
  BY <1>1, <1>3, <1>4, <1>5, <1>6
<1> QED
  BY <1>2, <1>7 DEF PairedAt

(* The innermost block, and how deep its scope starts.                     *)
LEMMA InnermostIs ==
  ASSUME NEW h, NEW b, NEW r, NEW counts, NEW frames, Resolved(h, b, r, counts, frames)
  PROVE  /\ Last(r.blocks) = r.blocks[Len(r.blocks)] /\ Last(r.blocks).kind # "control"
         /\ h[Len(b)].blocks \in Seq(Block)
         /\ Len(r.blocks) > 1 => h[Len(b)].blocks # <<>> /\ frames # <<>>
         /\ Deep(h[Len(b)].blocks) <= Size(counts, Last(r.blocks).declarations)
<1> DEFINE n == Len(frames)
           top == Len(r.blocks)
           blocks == h[Len(b)].blocks
<1>0. Way(h, b) /\ Stacked(r) /\ Paired(h[Len(b)], r, counts, frames)
  BY DEF Resolved
<1>1. Len(b) \in 0 .. Len(b)
  <2>1. Len(b) \in Nat
    BY CountsAre
  <2> QED
    BY <2>1
<1>2. blocks \in Seq(Block)
  BY <1>0, <1>1, PointsAre
<1>3. /\ frames \in Seq(Nat) /\ n = Len(blocks)
      /\ top = IF frames = <<>> THEN 1 ELSE frames[n]
      /\ \A i \in 1 .. n : PairedAt(h[Len(b)], r, counts, frames, i)
  BY <1>0 DEF Paired
<1>4. CASE frames = <<>>
  <2>1. blocks = <<>> /\ top = 1
    BY <1>2, <1>3, <1>4
  <2>2. r.blocks[1].kind = "function" /\ r.blocks[1].declarations = 0
    BY <1>0 DEF Stacked
  <2> QED
    BY <2>1, <2>2, <1>2 DEF Deep, Last, Size
<1>5. CASE frames # <<>>
  <2>1. n \in 1 .. n /\ n > 0 /\ n \in Nat
    BY <1>3, <1>5
  <2>2. blocks # <<>> /\ blocks[n] \in Block /\ Last(blocks) = blocks[n]
    BY <2>1, <1>2, <1>3 DEF Last
  <2> HIDE DEF n
  <2>3. /\ frames[n] = top /\ r.blocks[top].kind = blocks[n].kind
        /\ blocks[n].kind = "for" => blocks[n].outer + 4 = Size(counts, r.blocks[top].declarations)
        /\ blocks[n].kind # "for" => blocks[n].outer = Size(counts, r.blocks[top].declarations)
    BY <2>1, <1>3, <1>5, ZenonT(40) DEF PairedAt
  <2>4. blocks[n].kind # "control"
    BY <2>2, BlocksAssumption DEF Block
  <2>5. blocks[n].depth = IF blocks[n].kind = "for" THEN blocks[n].outer + 3 ELSE blocks[n].outer
    <3>1. Nested(h[Len(b)]) /\ n \in 1 .. Len(blocks)
      BY <1>0, <1>1, <1>3, <2>1, PointsAre
    <3> QED
      BY <3>1 DEF Nested, NestedBlock
  <2>6. blocks[n].outer \in Nat /\ blocks[n].depth \in Nat
    BY <2>2 DEF Block
  <2>7. Deep(blocks) = blocks[n].depth
    BY <2>2 DEF Deep
  <2>8. Deep(blocks) <= Size(counts, r.blocks[top].declarations)
    BY <2>3, <2>5, <2>6, <2>7
  <2> QED
    BY <2>2, <2>3, <2>4, <2>8, <1>2, <1>5 DEF Last
<1> QED
  BY <1>4, <1>5

(* A statement that neither opens nor ends a block adds at most one label  *)
(* or one goto to the innermost frame.                                     *)
LEMMA SameBlocks ==
  ASSUME NEW h, NEW b, NEW r, NEW counts, NEW frames, Resolved(h, b, r, counts, frames),
         NEW s, NEW p, Walks(h, b, s, p),
         NEW q, NEW more, NEW labels, NEW gotos,
         Adds(h, b, r, counts, s, p, q, more, labels, gotos)
  PROVE  Resolved(Longer(h, b, p), Append(b, s), q, more, frames)
<1> USE DEF Adds
<1> DEFINE n == Len(b)
           b2 == Append(b, s)
           h2 == Longer(h, b, p)
           top == Len(r.blocks)
<1>0. /\ Way(h, b) /\ Tails(h, b) /\ Sent(h, b, r.jumps) /\ Stacked(r)
      /\ Paired(h[n], r, counts, frames)
      /\ LabelsHold(h, b, r, counts) /\ GotosHold(h, b, r, counts) /\ GotosOnce(b, r)
  BY DEF Resolved
<1>1. /\ n \in Nat /\ Len(b2) = n + 1
      /\ \A i \in 1 .. n : b2[i] = b[i]
      /\ b2[n + 1] = s
      /\ \A k \in 0 .. n : h2[k] = h[k]
      /\ h2[n + 1] = p
  <2>1. b \in Seq(Statements) /\ h \in [0 .. n -> Point] /\ s \in Statements /\ p \in Point
    BY <1>0 DEF Way, Walks
  <2> QED
    BY <2>1, LongerIs
<1>2. /\ Way(h2, b2) /\ Tails(h2, b2)
      /\ \A g, l \in 1 .. n : Reaches(h, b, g, l) => Reaches(h2, b2, g, l)
  BY <1>0, WalkOn
<1> HIDE DEF h2, b2
<1>3. /\ r.declarations \in Nat /\ top \in Nat /\ top > 0 /\ q.declarations \in Nat
      /\ \A f \in 1 .. top : r.blocks[f] \in FrameSet /\ r.blocks[f].declarations \in 0 .. r.declarations
      /\ Last(r.blocks) = r.blocks[top] /\ Last(r.blocks).kind # "control"
  BY CountsAre, InnermostIs DEF ResolverType
<1> HIDE DEF top
<1>4. \A f \in 1 .. top :
           /\ \A l \in r.blocks[f].labels : LabelAt(h2, b2, q, more, f, l)
           /\ \A g \in r.blocks[f].gotos : GotoAt(h2, b2, q, more, f, g)
  <2>1. \A f \in Len(r.blocks) + 1 .. Len(q.blocks) :
          q.blocks[f].declarations \in Nat /\ r.declarations <= q.blocks[f].declarations
    BY <1>3 DEF top
  <2>2. q.declarations \in Nat /\ Len(q.blocks) \in Nat /\ Len(r.blocks) <= Len(q.blocks)
    BY <1>3 DEF top
  <2>3. \A f \in 1 .. Len(r.blocks) : q.blocks[f].declarations = r.blocks[f].declarations
    OBVIOUS
  <2>4. b # <<>> /\ TailLabel(b[Len(b)]) =>
          /\ TailLabel(s) /\ Len(q.blocks) = Len(r.blocks)
          /\ q.declarations = r.declarations /\ p = h[Len(b)]
    OBVIOUS
  <2>5. \A f \in 1 .. Len(r.blocks) :
           /\ \A l \in r.blocks[f].labels :
                LabelAt(Longer(h, b, p), Append(b, s), q, more, f, l)
           /\ \A g \in r.blocks[f].gotos :
                GotoAt(Longer(h, b, p), Append(b, s), q, more, f, g)
    <3>1. Grows(h, b, r, counts, s, p, q, more)
      BY <2>1, <2>2, <2>3, <2>4 DEF Grows
    <3> QED
      BY <3>1, ItemsStay
  <2> QED
    BY <2>5 DEF h2, b2, top
<1>5. Sent(h2, b2, q.jumps)
  <2>1. /\ r.jumps \subseteq (1 .. n) \X (1 .. n)
        /\ \A j \in r.jumps : Reaches(h, b, j[1], j[2])
        /\ \A j, k \in r.jumps : j[1] = k[1] => j[2] = k[2]
    BY <1>0 DEF Sent
  <2>2. r.jumps \subseteq (1 .. n + 1) \X (1 .. n + 1)
    <3>1. (1 .. n) \subseteq (1 .. n + 1)
      BY <1>1
    <3> QED
      BY <3>1, <2>1
  <2>3. \A j \in r.jumps : Reaches(h2, b2, j[1], j[2])
    BY <2>1, <1>2
  <2> QED
    BY <2>1, <2>2, <2>3, <1>1 DEF Sent
<1>6. Stacked(q)
  <2>1. \A f \in 1 .. top : r.blocks[f].kind = "control" =>
          /\ r.blocks[f].labels = {} /\ r.blocks[f].gotos = {} /\ f # top
    BY <1>0, <1>3 DEF Stacked, top
  <2>2. \A f \in 1 .. top : r.blocks[f].declarations <= q.declarations
    BY <1>3
  <2>3. \A f \in 1 .. top : \A e \in f .. top : e \in 1 .. top
    BY <1>3
  <2>4. \A f \in 1 .. top : \A e \in f .. top :
          r.blocks[f].declarations <= r.blocks[e].declarations
    BY <1>0 DEF Stacked, top
  <2>5. r.blocks[1].declarations = 0 /\ r.blocks[1].kind = "function" /\ 1 \in 1 .. top
    BY <1>0, <1>3 DEF Stacked
  <2>6. q.blocks # <<>>
    BY <1>3 DEF top
  <2> QED
    BY <2>1, <2>2, <2>3, <2>4, <2>5, <2>6 DEF Stacked, top
<1>7. Paired(p, q, more, frames)
  <2>1. /\ frames \in Seq(Nat) /\ Len(frames) = Len(p.blocks)
        /\ Len(q.blocks) = IF frames = <<>> THEN 1 ELSE frames[Len(frames)]
        /\ \A i, j \in 1 .. Len(frames) : i < j => frames[i] < frames[j]
        /\ \A i \in 1 .. Len(frames) : PairedAt(h[n], r, counts, frames, i)
        /\ \A f \in 2 .. top :
             r.blocks[f].kind # "control" => \E i \in 1 .. Len(frames) : frames[i] = f
    BY <1>0 DEF Paired, top
  <2>2. ASSUME NEW i \in 1 .. Len(frames)
        PROVE  PairedAt(p, q, more, frames, i)
    <3>1. frames[i] \in 2 .. top
      BY <2>1 DEF PairedAt, top
    <3>2. /\ Len(q.blocks) \in Nat /\ frames[i] <= Len(q.blocks) /\ Len(r.blocks) \in Nat
          /\ \A f \in 1 .. frames[i] : f \in 1 .. top
          /\ frames[i] \in 1 .. top
      BY <3>1, <1>3 DEF top
    <3>3. \A f \in 1 .. frames[i] : /\ q.blocks[f].kind = r.blocks[f].kind
                                   /\ q.blocks[f].declarations = r.blocks[f].declarations
                                   /\ r.blocks[f].declarations \in Nat
      BY <3>2, <1>3 DEF top
    <3>4. \A d \in 0 .. r.blocks[frames[i]].declarations : d \in 0 .. r.declarations
      <4>1. r.blocks[frames[i]].declarations \in 0 .. r.declarations
        BY <3>2, <1>3
      <4> QED
        BY <4>1, <1>3
    <3> QED
      BY <2>1, <3>2, <3>3, <3>4, PairStays
  <2>3. \A f \in 2 .. top : f \in 1 .. top
    BY <1>3
  <2> QED
    BY <2>1, <2>2, <2>3 DEF Paired, top
<1>8. LabelsHold(h2, b2, q, more)
  <2> SUFFICES ASSUME NEW f \in 1 .. top
               PROVE  /\ \A l \in q.blocks[f].labels : LabelAt(h2, b2, q, more, f, l)
                      /\ \A l, m \in q.blocks[f].labels : l.name = m.name => l = m
    BY DEF LabelsHold, top
  <2>1. \A l, m \in r.blocks[f].labels : l.name = m.name => l = m
    BY <1>0 DEF LabelsHold, top
  <2>2. CASE f = top
    <3>1. q.blocks[f].labels = r.blocks[f].labels \cup labels
      BY <2>2 DEF top
    <3>2. \A l \in labels : /\ LabelAt(h2, b2, q, more, f, l)
                            /\ \A m \in labels : l = m
                            /\ \A m \in r.blocks[f].labels : l.name # m.name
      BY <2>2 DEF top, h2, b2
    <3> QED
      BY <3>1, <3>2, <2>1, <1>4
  <2>3. CASE f # top
    <3>1. q.blocks[f].labels = r.blocks[f].labels
      <4>1. q.blocks[f].labels = r.blocks[f].labels \cup {}
        BY <2>3 DEF top
      <4> QED
        BY <4>1
    <3> QED
      BY <3>1, <2>1, <1>4
  <2> QED
    BY <2>2, <2>3
<1>9. \A f \in 1 .. top : \A g \in q.blocks[f].gotos :
        \/ g \in r.blocks[f].gotos
        \/ g \in gotos /\ f = top /\ g.stat = n + 1
  BY DEF top
<1>10. GotosHold(h2, b2, q, more)
  <2>1. \A g \in gotos : GotoAt(h2, b2, q, more, top, g)
    BY DEF h2, b2, top
  <2> QED
    BY <2>1, <1>4, <1>9 DEF GotosHold, top
<1>11. GotosOnce(b2, q)
  <2>1. \A f \in 1 .. top : \A g \in r.blocks[f].gotos :
          g.stat \in 1 .. n /\ g.stat # n + 1
    BY <1>0, <1>1 DEF GotosHold, GotoAt, top
  <2>2. \A j \in r.jumps : j[1] # n + 1
    <3>1. \A j \in r.jumps : j[1] \in 1 .. n
      BY <1>0, SentPairs
    <3> QED
      BY <3>1, <1>1
  <2>3. \A f \in 1 .. top : \A g \in r.blocks[f].gotos :
          /\ \A j \in r.jumps : j[1] # g.stat
          /\ \A e \in 1 .. top : \A k \in r.blocks[e].gotos : k.stat = g.stat => k = g /\ e = f
    BY <1>0 DEF GotosOnce, top
  <2>4. ASSUME NEW f \in 1 .. top, NEW g \in q.blocks[f].gotos
        PROVE  /\ \A j \in q.jumps : j[1] # g.stat
               /\ \A e \in 1 .. top : \A k \in q.blocks[e].gotos :
                    k.stat = g.stat => k = g /\ e = f
    <3>1. CASE g \in r.blocks[f].gotos
      BY <3>1, <2>1, <2>3, <1>9
    <3>2. CASE g \notin r.blocks[f].gotos
      <4>1. g \in gotos /\ f = top /\ g.stat = n + 1
        BY <3>2, <1>9
      <4>2. \A k \in gotos : g = k
        BY <4>1
      <4> QED
        BY <4>1, <4>2, <2>1, <2>2, <1>9
    <3> QED
      BY <3>1, <3>2
  <2>5. ASSUME NEW i \in 1 .. n + 1, b2[i].kind = "goto"
        PROVE  \/ \E j \in q.jumps : j[1] = i
               \/ \E f \in 1 .. top : \E g \in q.blocks[f].gotos : g.stat = i
    <3>1. CASE i = n + 1
      <4>1. PICK g \in gotos : TRUE
        BY <3>1, <2>5, <1>1
      <4>2. g \in q.blocks[top].gotos /\ g.stat = i /\ top \in 1 .. top
        BY <4>1, <3>1, <1>3 DEF top
      <4> QED
        BY <4>2
    <3>2. CASE i # n + 1
      <4>1. i \in 1 .. n /\ b[i].kind = "goto"
        BY <3>2, <2>5, <1>1
      <4>2. \/ \E j \in r.jumps : j[1] = i
            \/ \E f \in 1 .. top : \E g \in r.blocks[f].gotos : g.stat = i
        BY <4>1, <1>0 DEF GotosOnce, top
      <4>3. \A f \in 1 .. top : r.blocks[f].gotos \subseteq q.blocks[f].gotos
        BY DEF top
      <4> QED
        BY <4>2, <4>3
    <3> QED
      BY <3>1, <3>2
  <2> QED
    BY <2>4, <2>5, <1>1 DEF GotosOnce, top
<1>12. ResolverType(b2, q) /\ Counted(h2[Len(b2)], q, more) /\ Paired(h2[Len(b2)], q, more, frames)
  BY <1>1, <1>7 DEF b2
<1>13. Resolved(h2, b2, q, more, frames)
  BY <1>2, <1>5, <1>6, <1>8, <1>10, <1>11, <1>12 DEF Resolved
<1> QED
  BY <1>13 DEF h2, b2

(* One more statement of the body.                                         *)
LEMMA WriteIs ==
  ASSUME Written, NEW s \in Statements, Write(s)
  PROVE  /\ phase = "resolve" /\ body' = Append(body, s) /\ UNCHANGED <<lowerer, scopes>>
         /\ body' \in Seq(Statements) /\ Len(body') = Len(body) + 1
         /\ s.kind # "end" => Len(body') <= MaxStatements
<1> DEFINE open == Cardinality({b \in 2 .. Len(resolver.blocks) :
                                  resolver.blocks[b].kind # "control"})
<1>1. /\ phase = "resolve" /\ body' = Append(body, s) /\ UNCHANGED <<lowerer, scopes>>
      /\ Len(body) + open < IF s.kind = "end" THEN MaxStatements + 1
                            ELSE IF s.kind \in Blocks THEN MaxStatements - 1
                            ELSE MaxStatements
  BY DEF Write
<1>2. open \in Nat
  <2>1. Len(resolver.blocks) \in Nat
    BY DEF Written, ResolverType
  <2>2. IsFiniteSet(2 .. Len(resolver.blocks))
    BY <2>1, FS_Interval
  <2> QED
    BY <2>2, FS_Subset, FS_CardinalityType
<1> HIDE DEF open
<1>3. body \in Seq(Statements) /\ Len(body) \in Nat /\ MaxStatements \in Nat
  BY BoundsAssumption DEF Written
<1> QED
  BY <1>1, <1>2, <1>3

(* What is left to show of a step of the resolver that goes on.            *)
LEMMA ResolveStep ==
  ASSUME phase' = "resolve", Len(body') <= MaxStatements,
         lowerer' = Unstarted, scopes' = <<>>,
         NEW h, NEW counts, NEW frames, Resolved(h, body', resolver', counts, frames)
  PROVE  IInv'
<1>1. /\ ResolverType(body', resolver') /\ body' \in Seq(Statements)
      /\ resolver'.jumps \subseteq (1 .. Len(body')) \X (1 .. Len(body'))
  BY DEF Resolved, Way, Sent
<1>2. Written'
  BY <1>1 DEF Written
<1>3. Unstarted' = Unstarted
  BY DEF Unstarted, NoClose
<1> QED
  BY <1>2, <1>3 DEF IInv

(* A declaration more to count.                                            *)
LEMMA CountAppended ==
  ASSUME NEW h, NEW b, NEW r, NEW counts, NEW frames, Resolved(h, b, r, counts, frames),
         NEW p \in Point, Len(h[Len(b)].locals) <= Len(p.locals),
         NEW q, q.declarations = r.declarations + 1
  PROVE  /\ Counted(p, q, Append(counts, Len(p.locals)))
         /\ \A d \in 0 .. r.declarations : Size(Append(counts, Len(p.locals)), d) = Size(counts, d)
         /\ Size(Append(counts, Len(p.locals)), q.declarations) = Len(p.locals)
<1> DEFINE x == Len(p.locals)
           more == Append(counts, x)
           m == r.declarations
<1>1. /\ counts \in Seq(Nat) /\ Len(counts) = m /\ m \in Nat /\ x \in Nat
      /\ \A d \in 0 .. m : Size(counts, d) \in 0 .. Len(h[Len(b)].locals)
      /\ Len(h[Len(b)].locals) \in Nat
      /\ \A i \in 1 .. m, j \in 1 .. m : i <= j => counts[i] <= counts[j]
  <2>1. /\ counts \in Seq(Nat) /\ Len(counts) = m /\ m \in Nat
        /\ \A d \in 0 .. m : Size(counts, d) \in 0 .. Len(h[Len(b)].locals)
        /\ Len(h[Len(b)].locals) \in Nat
    BY CountsAre
  <2>2. \A i \in 1 .. Len(counts), j \in 1 .. Len(counts) : i <= j => counts[i] <= counts[j]
    BY DEF Resolved, Counted
  <2>3. x \in Nat
    BY DEF Point
  <2> QED
    BY <2>1, <2>2, <2>3
<1>2. Len(h[Len(b)].locals) <= x
  OBVIOUS
<1> HIDE DEF m, x
<1>3. /\ more \in Seq(Nat) /\ Len(more) = m + 1 /\ more[m + 1] = x
      /\ \A i \in 1 .. m : more[i] = counts[i]
  BY <1>1
<1> HIDE DEF more
<1>4. \A i \in 1 .. m : counts[i] <= x /\ counts[i] \in Nat
  <2> SUFFICES ASSUME NEW i \in 1 .. m
               PROVE  counts[i] <= x /\ counts[i] \in Nat
    OBVIOUS
  <2>1. Size(counts, i) = counts[i] /\ i \in 0 .. m
    BY <1>1 DEF Size
  <2>2. Size(counts, i) \in 0 .. Len(h[Len(b)].locals)
    BY <2>1, <1>1
  <2> QED
    BY <2>1, <2>2, <1>1, <1>2
<1>5. ASSUME NEW i \in 1 .. m + 1, NEW j \in 1 .. m + 1, i <= j
      PROVE  more[i] <= more[j]
  <2>1. CASE j = m + 1
    <3>1. CASE i = m + 1
      BY <3>1, <2>1, <1>1, <1>3
    <3>2. CASE i # m + 1
      <4>1. i \in 1 .. m
        BY <3>2, <1>1
      <4> QED
        BY <4>1, <2>1, <1>3, <1>4
    <3> QED
      BY <3>1, <3>2
  <2>2. CASE j # m + 1
    <3>1. i \in 1 .. m /\ j \in 1 .. m
      BY <2>2, <1>5, <1>1
    <3> QED
      BY <3>1, <1>5, <1>1, <1>3
  <2> QED
    BY <2>1, <2>2
<1>6. q.declarations = m + 1 /\ Size(more, m + 1) = x
  BY <1>1, <1>3 DEF m, Size
<1>7. \A d \in 0 .. m : Size(more, d) = Size(counts, d)
  BY <1>1, <1>3 DEF Size
<1>8. Counted(p, q, more)
  BY <1>3, <1>5, <1>6 DEF Counted, x
<1> QED
  BY <1>6, <1>7, <1>8 DEF x, more, m

(* A declaration more.                                                     *)
LEMMA DeclaredIs ==
  ASSUME NEW b, NEW c, NEW r, ResolverType(b, r), Len(b) \in Nat, Len(c) = Len(b) + 1
  PROVE  /\ ResolverType(c, Declared(r))
         /\ Declared(r).declarations = r.declarations + 1
         /\ Declared(r).blocks = r.blocks /\ Declared(r).jumps = r.jumps
<1>1. /\ r \in [declarations : Nat, blocks : Seq(FrameSet), jumps : SUBSET (Nat \X Nat)]
      /\ r.declarations \in Nat /\ r.declarations <= Len(b)
  BY DEF ResolverType
<1>2. /\ Declared(r).declarations = r.declarations + 1
      /\ Declared(r).blocks = r.blocks /\ Declared(r).jumps = r.jumps
  BY <1>1 DEF Declared
<1>3. Declared(r) \in [declarations : Nat, blocks : Seq(FrameSet), jumps : SUBSET (Nat \X Nat)]
  BY <1>1 DEF Declared
<1>4. Declared(r).declarations <= Len(c)
  BY <1>1, <1>2
<1> QED
  BY <1>2, <1>3, <1>4 DEF ResolverType

(* After a label that ends its block, only such a label or the end.        *)
LEMMA TailGoesOn ==
  ASSUME NEW s \in Statements, NEW h, NEW p, p \in Point, body \in Seq(Statements),
         Follows(h[Len(body)], p, s, Len(body) + 1),
         s.kind = "break" =>
           \E i \in 1 .. Len(h[Len(body)].blocks) : h[Len(body)].blocks[i].kind \in Loops,
         MayGoOn \/ s.kind = "end" \/ (AfterLabel => s.kind = "label" /\ s.tail = Last(body).tail)
  PROVE  /\ Walks(h, body, s, p)
         /\ MayGoOn => ~(body # <<>> /\ TailLabel(body[Len(body)]))
<1>1. Last(body) = body[Len(body)]
  BY DEF Last
<1> QED
  BY <1>1 DEF Walks, TailLabel, MayGoOn, AfterLabel

(* Each statement of the resolver, in turn: a local.                       *)
LEMMA LocalIInv ==
  ASSUME NEW h, NEW counts, NEW frames, Resolved(h, body, resolver, counts, frames),
         Written, lowerer = Unstarted, scopes = <<>>, NEW captured \in BOOLEAN, Local(captured)
  PROVE  IInv'
<1> DEFINE s == [kind |-> "local", captured |-> captured]
           at == h[Len(body)]
           p == [locals |-> Append(at.locals, Bind(Len(body) + 1, captured)), blocks |-> at.blocks]
           more == Append(counts, Len(p.locals))
           h2 == Longer(h, body, p)
<1>1. /\ s \in Statements /\ s.kind = "local" /\ s.captured = captured
      /\ Write(s) /\ resolver' = Declared(resolver) /\ phase' = phase /\ MayGoOn
  BY DEF Local, Statements
<1> HIDE DEF s
<1>2. /\ phase = "resolve" /\ body' = Append(body, s) /\ UNCHANGED <<lowerer, scopes>>
      /\ body \in Seq(Statements) /\ Len(body') = Len(body) + 1 /\ Len(body') <= MaxStatements
  BY <1>1, WriteIs DEF Written
<1>3. Way(h, body) /\ ResolverType(body, resolver)
  BY DEF Resolved
<1>4. /\ at.locals \in Seq(Bound) /\ at.blocks \in Seq(Block) /\ Len(body) \in Nat
  <2>1. Len(body) \in 0 .. Len(body)
    BY <1>2
  <2> QED
    BY <2>1, <1>3, PointsAre
<1>5. /\ p \in Point /\ p.blocks = at.blocks
      /\ p.locals = Append(at.locals, Bind(Len(body) + 1, captured))
      /\ Len(p.locals) = Len(at.locals) + 1 /\ Len(at.locals) \in Nat
      /\ Agree(at.locals, p.locals, Len(at.locals))
  BY <1>4 DEF Point, Bind, Bound, Agree
<1> HIDE DEF p
<1>6. Walks(h, body, s, p) /\ ~(body # <<>> /\ TailLabel(body[Len(body)]))
  <2>1. Follows(at, p, s, Len(body) + 1)
    BY <1>1, <1>5, BlocksAssumption DEF Follows
  <2> QED
    BY <2>1, <1>1, <1>2, <1>5, TailGoesOn
<1>7. /\ resolver'.declarations = resolver.declarations + 1
      /\ resolver'.blocks = resolver.blocks /\ resolver'.jumps = resolver.jumps
      /\ ResolverType(Append(body, s), resolver')
  <2>1. Len(Append(body, s)) = Len(body) + 1
    BY <1>2
  <2> QED
    BY <2>1, <1>1, <1>3, <1>4, DeclaredIs
<1>8. /\ Counted(p, resolver', more)
      /\ \A d \in 0 .. resolver.declarations : Size(more, d) = Size(counts, d)
  <2>1. Len(at.locals) <= Len(p.locals)
    BY <1>5
  <2> QED
    BY <2>1, <1>5, <1>7, CountAppended
<1> HIDE DEF more
<1>9. Adds(h, body, resolver, counts, s, p, resolver', more, {}, {})
  <2>1. resolver.declarations <= resolver'.declarations
    BY <1>3, <1>7 DEF ResolverType
  <2>2. \A f \in 1 .. Len(resolver.blocks) :
       /\ resolver'.blocks[f].kind = resolver.blocks[f].kind
       /\ resolver'.blocks[f].declarations = resolver.blocks[f].declarations
       /\ resolver'.blocks[f].labels = resolver.blocks[f].labels \cup
            (IF f = Len(resolver.blocks) THEN {} ELSE {})
       /\ resolver'.blocks[f].gotos = resolver.blocks[f].gotos \cup
            (IF f = Len(resolver.blocks) THEN {} ELSE {})
    BY <1>7
  <2> QED
    BY <2>1, <2>2, <1>1, <1>5, <1>6, <1>7, <1>8 DEF Adds
<1>10. Resolved(h2, Append(body, s), resolver', more, frames)
  BY <1>6, <1>9, SameBlocks
<1> QED
  BY <1>1, <1>2, <1>10, ResolveStep

(* A global takes a declaration and no register.                           *)
LEMMA GlobalIInv ==
  ASSUME NEW h, NEW counts, NEW frames, Resolved(h, body, resolver, counts, frames),
         Written, lowerer = Unstarted, scopes = <<>>, Global
  PROVE  IInv'
<1> DEFINE s == [kind |-> "global"]
           p == h[Len(body)]
           more == Append(counts, Len(p.locals))
           h2 == Longer(h, body, p)
<1>1. /\ s \in Statements /\ s.kind = "global"
      /\ Write(s) /\ resolver' = Declared(resolver) /\ phase' = phase /\ MayGoOn
  BY DEF Global, Statements
<1> HIDE DEF s
<1>2. /\ phase = "resolve" /\ body' = Append(body, s) /\ UNCHANGED <<lowerer, scopes>>
      /\ body \in Seq(Statements) /\ Len(body') = Len(body) + 1 /\ Len(body') <= MaxStatements
  BY <1>1, WriteIs DEF Written
<1>3. Way(h, body) /\ ResolverType(body, resolver)
  BY DEF Resolved
<1>4. /\ p \in Point /\ p.locals \in Seq(Bound) /\ Len(body) \in Nat /\ Len(p.locals) \in Nat
  <2>1. Len(body) \in 0 .. Len(body)
    BY <1>2
  <2> QED
    BY <2>1, <1>3, PointsAre
<1>5. Agree(p.locals, p.locals, Len(p.locals)) /\ Len(p.locals) <= Len(p.locals)
  BY <1>4 DEF Agree
<1>6. Walks(h, body, s, p) /\ ~(body # <<>> /\ TailLabel(body[Len(body)]))
  <2>1. Follows(p, p, s, Len(body) + 1)
    BY <1>1, BlocksAssumption DEF Follows
  <2> QED
    BY <2>1, <1>1, <1>2, <1>4, TailGoesOn
<1>7. /\ resolver'.declarations = resolver.declarations + 1
      /\ resolver'.blocks = resolver.blocks /\ resolver'.jumps = resolver.jumps
      /\ ResolverType(Append(body, s), resolver')
  <2>1. Len(Append(body, s)) = Len(body) + 1
    BY <1>2
  <2> QED
    BY <2>1, <1>1, <1>3, <1>4, DeclaredIs
<1>8. /\ Counted(p, resolver', more)
      /\ \A d \in 0 .. resolver.declarations : Size(more, d) = Size(counts, d)
  BY <1>4, <1>5, <1>7, CountAppended
<1> HIDE DEF more
<1>9. Adds(h, body, resolver, counts, s, p, resolver', more, {}, {})
  <2>1. resolver.declarations <= resolver'.declarations
    BY <1>3, <1>7 DEF ResolverType
  <2>2. \A f \in 1 .. Len(resolver.blocks) :
       /\ resolver'.blocks[f].kind = resolver.blocks[f].kind
       /\ resolver'.blocks[f].declarations = resolver.blocks[f].declarations
       /\ resolver'.blocks[f].labels = resolver.blocks[f].labels \cup
            (IF f = Len(resolver.blocks) THEN {} ELSE {})
       /\ resolver'.blocks[f].gotos = resolver.blocks[f].gotos \cup
            (IF f = Len(resolver.blocks) THEN {} ELSE {})
    BY <1>7
  <2> QED
    BY <2>1, <2>2, <1>1, <1>5, <1>6, <1>7, <1>8 DEF Adds
<1>10. Resolved(h2, Append(body, s), resolver', more, frames)
  BY <1>6, <1>9, SameBlocks
<1> QED
  BY <1>1, <1>2, <1>10, ResolveStep

(* A body that is refused.                                                 *)
LEMMA RefuseStep ==
  ASSUME Written, phase' = "refused", UNCHANGED resolver, lowerer' = Unstarted, scopes' = <<>>,
         body' \in Seq(Statements), Len(body') <= MaxStatements, Len(body) <= Len(body')
  PROVE  IInv'
<1>1. /\ Len(body) \in Nat /\ Len(body') \in Nat
      /\ resolver.jumps \subseteq (1 .. Len(body)) \X (1 .. Len(body))
      /\ resolver \in [declarations : Nat, blocks : Seq(FrameSet), jumps : SUBSET (Nat \X Nat)]
      /\ resolver.declarations <= Len(body) /\ resolver.declarations \in Nat
  BY DEF Written, ResolverType
<1>2. resolver'.declarations <= Len(body')
  BY <1>1
<1>3. resolver'.jumps \subseteq (1 .. Len(body')) \X (1 .. Len(body'))
  <2>1. (1 .. Len(body)) \subseteq (1 .. Len(body'))
    BY <1>1
  <2> QED
    BY <2>1, <1>1
<1>4. Written'
  BY <1>1, <1>2, <1>3 DEF Written, ResolverType
<1>5. Unstarted' = Unstarted
  BY DEF Unstarted, NoClose
<1> QED
  BY <1>4, <1>5 DEF IInv

(* Another innermost frame.                                                *)
LEMMA CurrentIs ==
  ASSUME NEW b, NEW c, ResolverType(b, resolver), Len(b) \in Nat, Len(c) = Len(b) + 1,
         resolver.blocks # <<>>, NEW frame \in FrameSet
  PROVE  /\ ResolverType(c, Current(frame))
         /\ Current(frame).declarations = resolver.declarations
         /\ Current(frame).jumps = resolver.jumps
         /\ Len(Current(frame).blocks) = Len(resolver.blocks)
         /\ \A f \in 1 .. Len(resolver.blocks) :
              Current(frame).blocks[f] =
                IF f = Len(resolver.blocks) THEN frame ELSE resolver.blocks[f]
<1> DEFINE top == Len(resolver.blocks)
           front == Front(resolver.blocks)
<1>1. /\ resolver \in [declarations : Nat, blocks : Seq(FrameSet), jumps : SUBSET (Nat \X Nat)]
      /\ resolver.declarations \in Nat /\ resolver.declarations <= Len(b)
      /\ resolver.blocks \in Seq(FrameSet)
  BY DEF ResolverType
<1>2. /\ top \in Nat /\ top > 0 /\ front \in Seq(FrameSet) /\ Len(front) = top - 1
      /\ \A f \in 1 .. top - 1 : front[f] = resolver.blocks[f]
  BY <1>1, FrontAndLast
<1>3. /\ Current(frame).declarations = resolver.declarations
      /\ Current(frame).jumps = resolver.jumps
      /\ Current(frame).blocks = Append(front, frame)
  BY <1>1 DEF Current
<1> HIDE DEF front, top
<1>4. /\ Append(front, frame) \in Seq(FrameSet) /\ Len(Append(front, frame)) = top
      /\ Append(front, frame)[top] = frame
      /\ \A f \in 1 .. top - 1 : Append(front, frame)[f] = front[f]
  BY <1>2
<1>5. \A f \in 1 .. top : f # top => f \in 1 .. top - 1
  BY <1>2
<1>6. \A f \in 1 .. top :
        Append(front, frame)[f] = IF f = top THEN frame ELSE resolver.blocks[f]
  BY <1>2, <1>4, <1>5
<1>7. Current(frame) \in [declarations : Nat, blocks : Seq(FrameSet), jumps : SUBSET (Nat \X Nat)]
  BY <1>1, <1>4 DEF Current, front
<1>8. Current(frame).declarations <= Len(c)
  BY <1>1, <1>3
<1> QED
  BY <1>3, <1>4, <1>6, <1>7, <1>8 DEF ResolverType, top

(* A goto notes what is in scope.                                          *)
LEMMA GotoIInv ==
  ASSUME NEW h, NEW counts, NEW frames, Resolved(h, body, resolver, counts, frames),
         Written, lowerer = Unstarted, scopes = <<>>, NEW name \in Names, Goto(name)
  PROVE  IInv'
<1> DEFINE s == [kind |-> "goto"]
           p == h[Len(body)]
           n == Len(body)
           h2 == Longer(h, body, p)
           top == Len(resolver.blocks)
           g == [name |-> name, stat |-> Id, declarations |-> resolver.declarations]
           frame == [Here EXCEPT !.gotos = @ \cup {g}]
<1>1. /\ s \in Statements /\ s.kind = "goto"
      /\ Write(s) /\ phase' = phase /\ MayGoOn /\ resolver' = Current(frame)
  BY DEF Goto, Statements
<1> HIDE DEF s
<1>2. /\ phase = "resolve" /\ body' = Append(body, s) /\ UNCHANGED <<lowerer, scopes>>
      /\ body \in Seq(Statements) /\ Len(body') = n + 1 /\ Len(body') <= MaxStatements
  BY <1>1, WriteIs DEF Written
<1>3. /\ Way(h, body) /\ ResolverType(body, resolver)
      /\ Counted(p, resolver, counts)
  BY DEF Resolved
<1>4. /\ p \in Point /\ p.locals \in Seq(Bound) /\ n \in Nat /\ Len(p.locals) \in Nat
      /\ n \in 0 .. n
  <2>1. n \in 0 .. n
    BY <1>2
  <2> QED
    BY <2>1, <1>3, PointsAre
<1>5. Agree(p.locals, p.locals, Len(p.locals))
  BY <1>4 DEF Agree
<1>6. Walks(h, body, s, p) /\ ~(body # <<>> /\ TailLabel(body[n]))
  <2>1. Follows(p, p, s, n + 1)
    BY <1>1, BlocksAssumption DEF Follows
  <2> QED
    BY <2>1, <1>1, <1>2, <1>4, TailGoesOn
<1>7. /\ top \in Nat /\ top > 0 /\ Here = resolver.blocks[top] /\ Here \in FrameSet
      /\ resolver.declarations \in Nat /\ resolver.blocks # <<>>
      /\ Size(counts, resolver.declarations) = Len(p.locals)
  <2>1. /\ top \in Nat /\ top > 0 /\ resolver.declarations \in Nat
        /\ \A f \in 1 .. top : resolver.blocks[f] \in FrameSet
        /\ Size(counts, resolver.declarations) = Len(p.locals)
    BY CountsAre
  <2> QED
    BY <2>1 DEF Here, Last
<1>8. g \in GotoSet /\ g.stat = n + 1 /\ g.declarations = resolver.declarations
  BY <1>4, <1>7 DEF GotoSet, Id
<1> HIDE DEF g
<1>9. /\ frame \in FrameSet /\ frame.kind = Here.kind
      /\ frame.declarations = Here.declarations /\ frame.labels = Here.labels
      /\ frame.gotos = Here.gotos \cup {g}
  BY <1>7, <1>8 DEF FrameSet
<1> HIDE DEF frame
<1>10. /\ ResolverType(Append(body, s), resolver')
       /\ resolver'.declarations = resolver.declarations /\ resolver'.jumps = resolver.jumps
       /\ Len(resolver'.blocks) = top
       /\ \A f \in 1 .. top :
            resolver'.blocks[f] = IF f = top THEN frame ELSE resolver.blocks[f]
  BY <1>1, <1>2, <1>3, <1>4, <1>7, <1>9, CurrentIs
<1>11. GotoAt(h2, Append(body, s), resolver', counts, top, g)
  <2>1. /\ Len(Append(body, s)) = n + 1 /\ Append(body, s)[n + 1] = s
        /\ h2[n] = p /\ h2[n + 1] = p
    <3>1. h \in [0 .. n -> Point]
      BY <1>3 DEF Way
    <3> QED
      BY <3>1, <1>1, <1>2, <1>4, LongerIs
  <2> HIDE DEF h2
  <2>2. g.declarations <= Ceiling(resolver', top)
    BY <1>7, <1>8, <1>10 DEF Ceiling
  <2>3. Agree(h2[g.stat - 1].locals, h2[n + 1].locals, Size(counts, g.declarations))
    <3>1. g.stat - 1 = n
      BY <1>4, <1>8
    <3> QED
      BY <3>1, <2>1, <1>5, <1>7, <1>8
  <2> QED
    BY <2>1, <2>2, <2>3, <1>1, <1>4, <1>8 DEF GotoAt
<1>12. Adds(h, body, resolver, counts, s, p, resolver', counts, {}, {g})
  <2>1. resolver.declarations <= resolver'.declarations
    BY <1>7, <1>10
  <2>2. \A f \in 1 .. top :
       /\ resolver'.blocks[f].kind = resolver.blocks[f].kind
       /\ resolver'.blocks[f].declarations = resolver.blocks[f].declarations
       /\ resolver'.blocks[f].labels = resolver.blocks[f].labels \cup
            (IF f = top THEN {} ELSE {})
       /\ resolver'.blocks[f].gotos = resolver.blocks[f].gotos \cup
            (IF f = top THEN {g} ELSE {})
    <3> SUFFICES ASSUME NEW f \in 1 .. top
                 PROVE  /\ resolver'.blocks[f].kind = resolver.blocks[f].kind
                        /\ resolver'.blocks[f].declarations = resolver.blocks[f].declarations
                        /\ resolver'.blocks[f].labels = resolver.blocks[f].labels \cup {}
                        /\ resolver'.blocks[f].gotos = resolver.blocks[f].gotos \cup
                             (IF f = top THEN {g} ELSE {})
      OBVIOUS
    <3>1. CASE f = top
      BY <3>1, <1>7, <1>9, <1>10
    <3>2. CASE f # top
      BY <3>2, <1>10
    <3> QED
      BY <3>1, <3>2
  <2>3. Counted(p, resolver', counts)
    BY <1>3, <1>10 DEF Counted
  <2> HIDE DEF h2, p
  <2>4. \A k \in {g} : /\ GotoAt(h2, Append(body, s), resolver', counts, top, k)
                       /\ k.stat = n + 1 /\ \A m \in {g} : k = m
    BY <1>8, <1>11
  <2> QED
    BY <2>1, <2>2, <2>3, <2>4, <1>5, <1>6, <1>10 DEF Adds, p, h2
<1>13. Resolved(h2, Append(body, s), resolver', counts, frames)
  BY <1>6, <1>12, SameBlocks
<1> QED
  BY <1>1, <1>2, <1>13, ResolveStep

(* A break has a loop around it.                                           *)
LEMMA BreakIInv ==
  ASSUME NEW h, NEW counts, NEW frames, Resolved(h, body, resolver, counts, frames),
         Written, lowerer = Unstarted, scopes = <<>>, Break
  PROVE  IInv'
<1> DEFINE s == [kind |-> "break"]
           p == h[Len(body)]
           n == Len(body)
           h2 == Longer(h, body, p)
           top == Len(resolver.blocks)
<1>1. /\ s \in Statements /\ s.kind = "break"
      /\ Write(s) /\ phase' = phase /\ MayGoOn /\ resolver' = resolver
      /\ \E f \in 1 .. top : resolver.blocks[f].kind \in Loops
  BY DEF Break, Statements
<1> HIDE DEF s
<1>2. /\ phase = "resolve" /\ body' = Append(body, s) /\ UNCHANGED <<lowerer, scopes>>
      /\ body \in Seq(Statements) /\ Len(body') = n + 1 /\ Len(body') <= MaxStatements
  BY <1>1, WriteIs DEF Written
<1>3. /\ Way(h, body) /\ ResolverType(body, resolver) /\ Stacked(resolver)
      /\ Counted(p, resolver, counts) /\ Paired(p, resolver, counts, frames)
  BY DEF Resolved
<1>4. /\ p \in Point /\ p.locals \in Seq(Bound) /\ n \in Nat /\ Len(p.locals) \in Nat
      /\ Len(p.blocks) \in Nat /\ n \in 0 .. n /\ top \in Nat
  <2>1. n \in 0 .. n
    BY <1>2
  <2> QED
    BY <2>1, <1>3, PointsAre DEF ResolverType
<1>5. Agree(p.locals, p.locals, Len(p.locals))
  BY <1>4 DEF Agree
<1>6. \E i \in 1 .. Len(p.blocks) : p.blocks[i].kind \in Loops
  <2>1. PICK f \in 1 .. top : resolver.blocks[f].kind \in Loops
    BY <1>1
  <2>2. f # 1 /\ resolver.blocks[f].kind # "control"
    BY <2>1, <1>3 DEF Stacked, Loops
  <2>3. f \in 2 .. top
    BY <2>2, <1>4
  <2>4. PICK i \in 1 .. Len(frames) : frames[i] = f
    BY <2>2, <2>3, <1>3 DEF Paired
  <2>5. i \in 1 .. Len(p.blocks) /\ PairedAt(p, resolver, counts, frames, i)
    BY <1>3 DEF Paired
  <2>6. p.blocks[i].kind = resolver.blocks[f].kind
    BY <2>4, <2>5 DEF PairedAt
  <2> QED
    BY <2>1, <2>5, <2>6
<1>7. Walks(h, body, s, p) /\ ~(body # <<>> /\ TailLabel(body[n]))
  <2>1. Follows(p, p, s, n + 1)
    BY <1>1, BlocksAssumption DEF Follows
  <2> QED
    BY <2>1, <1>1, <1>2, <1>4, <1>6, TailGoesOn
<1>8. ResolverType(Append(body, s), resolver) /\ resolver.declarations \in Nat
  <2>1. Len(Append(body, s)) = Len(body) + 1
    BY <1>2
  <2> QED
    BY <2>1, <1>3, <1>4 DEF ResolverType
<1>9. Adds(h, body, resolver, counts, s, p, resolver', counts, {}, {})
  <2>1. resolver.declarations <= resolver'.declarations
    BY <1>1, <1>8
  <2>2. \A f \in 1 .. top :
       /\ resolver'.blocks[f].kind = resolver.blocks[f].kind
       /\ resolver'.blocks[f].declarations = resolver.blocks[f].declarations
       /\ resolver'.blocks[f].labels = resolver.blocks[f].labels \cup
            (IF f = top THEN {} ELSE {})
       /\ resolver'.blocks[f].gotos = resolver.blocks[f].gotos \cup
            (IF f = top THEN {} ELSE {})
    BY <1>1
  <2>3. ResolverType(Append(body, s), resolver') /\ Counted(p, resolver', counts)
    BY <1>1, <1>3, <1>8
  <2> QED
    BY <2>1, <2>2, <2>3, <1>1, <1>5, <1>7 DEF Adds
<1>10. Resolved(h2, Append(body, s), resolver', counts, frames)
  BY <1>7, <1>9, SameBlocks
<1> QED
  BY <1>1, <1>2, <1>10, ResolveStep

(* A label notes what is alive once it is reached.                         *)
LEMMA LabelIInv ==
  ASSUME NEW h, NEW counts, NEW frames, Resolved(h, body, resolver, counts, frames),
         Written, lowerer = Unstarted, scopes = <<>>,
         NEW name \in Names, NEW tail \in BOOLEAN, Label(name, tail)
  PROVE  IInv'
<1> DEFINE s == [kind |-> "label", tail |-> tail]
           p == h[Len(body)]
           n == Len(body)
           h2 == Longer(h, body, p)
           top == Len(resolver.blocks)
           l == [name |-> name, stat |-> Id, declarations |-> DeclaredAt(tail),
                 height |-> resolver.declarations]
           frame == [Here EXCEPT !.labels = @ \cup {l}]
           taken == \E f \in 1 .. top : \E m \in resolver.blocks[f].labels : m.name = name
<1>1. /\ s \in Statements /\ s.kind = "label" /\ s.tail = tail
      /\ Write(s) /\ (AfterLabel => tail = Last(body).tail)
      /\ IF taken THEN phase' = "refused" /\ UNCHANGED resolver
         ELSE resolver' = Current(frame) /\ phase' = phase
  BY DEF Label, Statements
<1> HIDE DEF s
<1>2. /\ phase = "resolve" /\ body' = Append(body, s) /\ UNCHANGED <<lowerer, scopes>>
      /\ body \in Seq(Statements) /\ body' \in Seq(Statements)
      /\ Len(body') = n + 1 /\ Len(body') <= MaxStatements
  BY <1>1, WriteIs DEF Written
<1>3. /\ Way(h, body) /\ ResolverType(body, resolver)
      /\ Counted(p, resolver, counts)
  BY DEF Resolved
<1>4. /\ p \in Point /\ p.locals \in Seq(Bound) /\ n \in Nat /\ Len(p.locals) \in Nat
      /\ n \in 0 .. n
  <2>1. n \in 0 .. n
    BY <1>2
  <2> QED
    BY <2>1, <1>3, PointsAre
<1>5. CASE taken
  <2>1. Len(body) <= Len(body')
    BY <1>2, <1>4
  <2>2. phase' = "refused" /\ UNCHANGED resolver
    BY <1>1, <1>5
  <2> QED
    BY <2>1, <2>2, <1>2, RefuseStep
<1>6. CASE ~taken
  <2>1. Agree(p.locals, p.locals, Len(p.locals))
    BY <1>4 DEF Agree
  <2>2. Walks(h, body, s, p) /\ (body # <<>> /\ TailLabel(body[n]) => TailLabel(s))
    <3>1. Follows(p, p, s, n + 1)
      BY <1>1, BlocksAssumption DEF Follows
    <3>2. Walks(h, body, s, p)
      BY <3>1, <1>1, <1>2, <1>4, TailGoesOn
    <3> QED
      BY <3>2, <1>1 DEF TailLabel, AfterLabel, Last
  <2>3. /\ top \in Nat /\ top > 0 /\ Here = resolver.blocks[top] /\ Here \in FrameSet
        /\ resolver.declarations \in Nat /\ resolver.blocks # <<>>
        /\ Here.declarations \in 0 .. resolver.declarations
        /\ Size(counts, resolver.declarations) = Len(p.locals)
        /\ Size(counts, Here.declarations) \in 0 .. Len(p.locals)
        /\ Deep(p.blocks) <= Size(counts, Here.declarations)
    <3>1. /\ top \in Nat /\ top > 0 /\ resolver.declarations \in Nat
          /\ \A f \in 1 .. top : resolver.blocks[f] \in FrameSet
                                 /\ resolver.blocks[f].declarations \in 0 .. resolver.declarations
          /\ Size(counts, resolver.declarations) = Len(p.locals)
          /\ \A d \in 0 .. resolver.declarations : Size(counts, d) \in 0 .. Len(p.locals)
      BY CountsAre
    <3>2. /\ Deep(p.blocks) <= Size(counts, Last(resolver.blocks).declarations)
          /\ Last(resolver.blocks) = resolver.blocks[top]
      BY InnermostIs
    <3> HIDE DEF p
    <3> QED
      BY <3>1, <3>2 DEF Here
  <2>4. /\ l \in LabelSet /\ l.stat = n + 1 /\ l.height = resolver.declarations /\ l.name = name
        /\ l.declarations = IF tail THEN Here.declarations ELSE resolver.declarations
    BY <2>3, <1>4 DEF LabelSet, Id, DeclaredAt
  <2> HIDE DEF l
  <2>5. /\ frame \in FrameSet /\ frame.kind = Here.kind
        /\ frame.declarations = Here.declarations /\ frame.gotos = Here.gotos
        /\ frame.labels = Here.labels \cup {l}
    BY <2>3, <2>4 DEF FrameSet
  <2>6. phase' = phase /\ resolver' = Current(frame)
    BY <1>1, <1>6
  <2> HIDE DEF frame
  <2>7. /\ ResolverType(Append(body, s), resolver')
        /\ resolver'.declarations = resolver.declarations /\ resolver'.jumps = resolver.jumps
        /\ Len(resolver'.blocks) = top
        /\ \A f \in 1 .. top :
             resolver'.blocks[f] = IF f = top THEN frame ELSE resolver.blocks[f]
    BY <2>3, <2>5, <2>6, <1>2, <1>3, <1>4, CurrentIs
  <2>8. LabelAt(h2, Append(body, s), resolver', counts, top, l)
    <3>1. /\ Len(Append(body, s)) = n + 1 /\ Append(body, s)[n + 1] = s
          /\ h2[n] = p /\ h2[n + 1] = p
      <4>1. h \in [0 .. n -> Point]
        BY <1>3 DEF Way
      <4> QED
        BY <4>1, <1>1, <1>2, <1>4, LongerIs
    <3> HIDE DEF h2
    <3>2. l.stat - 1 = n /\ n + 1 \in 1 .. n + 1
      BY <1>4, <2>4
    <3>3. l.declarations <= Ceiling(resolver', top)
      BY <2>3, <2>4, <2>7 DEF Ceiling
    <3> HIDE DEF p
    <3>4. Size(counts, l.declarations) \in 0 .. Len(p.locals)
      BY <2>3, <2>4, <1>4
    <3>5. Agree(h2[l.stat - 1].locals, h2[n + 1].locals, Size(counts, l.declarations))
      BY <3>1, <3>2, <3>4, <1>4 DEF Agree
    <3>6. AliveAt(h2, Append(body, s), l.stat) <= Size(counts, l.declarations)
      <4>1. AliveAt(h2, Append(body, s), l.stat) = IF tail THEN Deep(p.blocks) ELSE Len(p.locals)
        BY <3>1, <3>2, <2>4, <1>1 DEF AliveAt
      <4> QED
        BY <4>1, <2>3, <2>4, <1>4
    <3>7. s.tail => TailLabel(s)
      BY <1>1 DEF TailLabel
    <3> QED
      BY <3>1, <3>2, <3>3, <3>5, <3>6, <3>7, <2>4, <2>7, <1>1 DEF LabelAt
  <2>9. Adds(h, body, resolver, counts, s, p, resolver', counts, {l}, {})
    <3>1. resolver.declarations <= resolver'.declarations
      BY <2>3, <2>7
    <3>2. \A f \in 1 .. top :
       /\ resolver'.blocks[f].kind = resolver.blocks[f].kind
       /\ resolver'.blocks[f].declarations = resolver.blocks[f].declarations
       /\ resolver'.blocks[f].labels = resolver.blocks[f].labels \cup
            (IF f = top THEN {l} ELSE {})
       /\ resolver'.blocks[f].gotos = resolver.blocks[f].gotos \cup
            (IF f = top THEN {} ELSE {})
      <4> SUFFICES ASSUME NEW f \in 1 .. top
                   PROVE  /\ resolver'.blocks[f].kind = resolver.blocks[f].kind
                          /\ resolver'.blocks[f].declarations = resolver.blocks[f].declarations
                          /\ resolver'.blocks[f].labels = resolver.blocks[f].labels \cup
                               (IF f = top THEN {l} ELSE {})
                          /\ resolver'.blocks[f].gotos = resolver.blocks[f].gotos \cup {}
        OBVIOUS
      <4>1. CASE f = top
        BY <4>1, <2>3, <2>5, <2>7
      <4>2. CASE f # top
        BY <4>2, <2>7
      <4> QED
        BY <4>1, <4>2
    <3>3. Counted(p, resolver', counts)
      BY <1>3, <2>7 DEF Counted
    <3>4. \A m \in resolver.blocks[top].labels : name # m.name
      BY <1>6, <2>3
    <3> HIDE DEF h2, p
    <3>5. \A k \in {l} : /\ LabelAt(h2, Append(body, s), resolver', counts, top, k)
                         /\ \A m \in {l} : k = m
                         /\ \A m \in resolver.blocks[top].labels : k.name # m.name
      BY <2>4, <2>8, <3>4
    <3> QED
      BY <3>1, <3>2, <3>3, <3>5, <2>1, <2>2, <2>7, <1>1 DEF Adds, p, h2
  <2>10. Resolved(h2, Append(body, s), resolver', counts, frames)
    BY <2>2, <2>9, SameBlocks
  <2> QED
    BY <2>6, <2>10, <1>2, ResolveStep
<1> QED
  BY <1>5, <1>6

(* A statement that opens a block adds a frame, or two.                    *)
LEMMA MoreBlocks ==
  ASSUME NEW h, NEW b, NEW r, NEW counts, NEW frames, Resolved(h, b, r, counts, frames),
         NEW s, NEW p, Walks(h, b, s, p), NEW q, NEW more,
         Opens(h, b, r, counts, frames, s, p, q, more)
  PROVE  Resolved(Longer(h, b, p), Append(b, s), q, more, Append(frames, Len(q.blocks)))
<1> DEFINE n == Len(b)
           b2 == Append(b, s)
           h2 == Longer(h, b, p)
           top == Len(r.blocks)
           last == Len(q.blocks)
           frames2 == Append(frames, last)
<1>0. /\ Way(h, b) /\ Tails(h, b) /\ Sent(h, b, r.jumps) /\ Stacked(r)
      /\ Paired(h[n], r, counts, frames)
      /\ LabelsHold(h, b, r, counts) /\ GotosHold(h, b, r, counts) /\ GotosOnce(b, r)
  BY DEF Resolved
<1>1. /\ n \in Nat /\ Len(b2) = n + 1
      /\ \A i \in 1 .. n : b2[i] = b[i]
      /\ b2[n + 1] = s
      /\ \A k \in 0 .. n : h2[k] = h[k]
      /\ h2[n + 1] = p
  <2>1. b \in Seq(Statements) /\ h \in [0 .. n -> Point] /\ s \in Statements /\ p \in Point
    BY <1>0 DEF Way, Walks
  <2> QED
    BY <2>1, LongerIs
<1>2. /\ Way(h2, b2) /\ Tails(h2, b2)
      /\ \A g, l \in 1 .. n : Reaches(h, b, g, l) => Reaches(h2, b2, g, l)
  BY <1>0, WalkOn
<1> HIDE DEF h2, b2
<1>3. /\ r.declarations \in Nat /\ top \in Nat /\ top > 0 /\ q.declarations \in Nat
      /\ last \in Nat /\ top < last
      /\ \A f \in 1 .. top : r.blocks[f] \in FrameSet /\ r.blocks[f].declarations \in 0 .. r.declarations
  BY CountsAre DEF ResolverType, Opens
<1>4. /\ \A f \in 1 .. top : q.blocks[f] = r.blocks[f]
      /\ \A f \in top + 1 .. last :
           /\ q.blocks[f].labels = {} /\ q.blocks[f].gotos = {}
           /\ q.blocks[f].declarations \in r.declarations .. q.declarations
           /\ \A e \in f .. last : q.blocks[f].declarations <= q.blocks[e].declarations
           /\ f # last => q.blocks[f].kind = "control"
      /\ r.declarations <= q.declarations /\ q.jumps = r.jumps
      /\ \A d \in 0 .. r.declarations : Size(more, d) = Size(counts, d)
  BY DEF Opens
<1>5. \A f \in 1 .. top :
        /\ \A l \in r.blocks[f].labels : LabelAt(h2, b2, q, more, f, l)
        /\ \A g \in r.blocks[f].gotos : GotoAt(h2, b2, q, more, f, g)
  <2>1. \A f \in top + 1 .. last :
          q.blocks[f].declarations \in Nat /\ r.declarations <= q.blocks[f].declarations
    <3> HIDE DEF top, last
    <3> QED
      BY <1>3, <1>4
  <2>2. Grows(h, b, r, counts, s, p, q, more)
    BY <2>1, <1>3, <1>4 DEF Grows, Opens
  <2> QED
    BY <2>2, ItemsStay DEF h2, b2
<1> HIDE DEF top, last
<1>6. \A f \in 1 .. last : f \in 1 .. top \/ f \in top + 1 .. last
  BY <1>3
<1>7. Sent(h2, b2, q.jumps)
  <2>1. /\ r.jumps \subseteq (1 .. n) \X (1 .. n)
        /\ \A j \in r.jumps : Reaches(h, b, j[1], j[2])
        /\ \A j, k \in r.jumps : j[1] = k[1] => j[2] = k[2]
    BY <1>0 DEF Sent
  <2>2. r.jumps \subseteq (1 .. n + 1) \X (1 .. n + 1)
    <3>1. (1 .. n) \subseteq (1 .. n + 1)
      BY <1>1
    <3> QED
      BY <3>1, <2>1
  <2>3. \A j \in r.jumps : Reaches(h2, b2, j[1], j[2])
    BY <2>1, <1>2
  <2> QED
    BY <2>1, <2>2, <2>3, <1>1, <1>4 DEF Sent
<1>8. Stacked(q)
  <2>1. q.blocks # <<>> /\ q.blocks[1].declarations = 0 /\ q.blocks[1].kind = "function"
    <3>1. 1 \in 1 .. top
      BY <1>3
    <3> QED
      BY <3>1, <1>0, <1>3, <1>4 DEF Stacked, last
  <2>2. ASSUME NEW f \in 1 .. last
        PROVE  /\ q.blocks[f].declarations <= q.declarations
               /\ \A e \in f .. last : q.blocks[f].declarations <= q.blocks[e].declarations
               /\ q.blocks[f].kind = "control" => q.blocks[f].labels = {} /\ q.blocks[f].gotos = {}
    <3>1. CASE f \in top + 1 .. last
      <4>1. q.blocks[f].declarations \in r.declarations .. q.declarations
        BY <3>1, <1>4
      <4> QED
        BY <3>1, <4>1, <1>3, <1>4
    <3>2. CASE f \in 1 .. top
      <4>1. /\ r.blocks[f].declarations \in 0 .. r.declarations /\ q.blocks[f] = r.blocks[f]
            /\ r.blocks[f].kind = "control" => r.blocks[f].labels = {} /\ r.blocks[f].gotos = {}
            /\ \A e \in f .. top : r.blocks[f].declarations <= r.blocks[e].declarations
        BY <3>2, <1>0, <1>3, <1>4 DEF Stacked, top
      <4>2. ASSUME NEW e \in f .. last
            PROVE  q.blocks[f].declarations <= q.blocks[e].declarations
        <5>1. CASE e \in f .. top
          <6>1. e \in 1 .. top
            BY <3>2, <5>1, <1>3
          <6> QED
            BY <6>1, <5>1, <4>1, <1>4
        <5>2. CASE e \notin f .. top
          <6>1. e \in top + 1 .. last
            BY <3>2, <5>2, <1>3
          <6>2. q.blocks[e].declarations \in r.declarations .. q.declarations
            BY <6>1, <1>4
          <6> QED
            BY <6>2, <4>1, <1>3
        <5> QED
          BY <5>1, <5>2
      <4> QED
        BY <4>1, <4>2, <1>3, <1>4
    <3> QED
      BY <3>1, <3>2, <1>6
  <2> QED
    BY <2>1, <2>2 DEF Stacked, last
<1>9. Paired(p, q, more, frames2)
  <2> DEFINE m == Len(frames)
  <2>1. /\ frames \in Seq(Nat) /\ m = Len(h[n].blocks) /\ m \in Nat
        /\ top = IF frames = <<>> THEN 1 ELSE frames[m]
        /\ \A i, j \in 1 .. m : i < j => frames[i] < frames[j]
        /\ \A i \in 1 .. m : PairedAt(h[n], r, counts, frames, i)
        /\ \A f \in 2 .. top :
             r.blocks[f].kind # "control" => \E i \in 1 .. m : frames[i] = f
    BY <1>0 DEF Paired, top
  <2>2. PICK block \in Block : p.blocks = Append(h[n].blocks, block)
    BY DEF Opens
  <2>3. h[n].blocks \in Seq(Block)
    BY <1>0, <1>1, PointsAre
  <2>4. /\ Len(p.blocks) = m + 1 /\ \A i \in 1 .. m : p.blocks[i] = h[n].blocks[i]
        /\ frames2 \in Seq(Nat) /\ Len(frames2) = m + 1 /\ frames2[m + 1] = last
        /\ \A i \in 1 .. m : frames2[i] = frames[i]
    BY <2>1, <2>2, <2>3, <1>3
  <2>5. \A i \in 1 .. m : frames[i] \in 2 .. top
    BY <2>1 DEF PairedAt, top
  <2>6. PairedAt(p, q, more, frames2, m + 1)
    BY DEF last, Opens
  <2> HIDE DEF m, frames2
  <2>7. ASSUME NEW i \in 1 .. m
        PROVE  PairedAt(p, q, more, frames2, i)
    <3>1. /\ Len(q.blocks) \in Nat /\ frames[i] <= Len(q.blocks) /\ Len(r.blocks) \in Nat
          /\ \A f \in 1 .. frames[i] : f \in 1 .. top
          /\ frames[i] \in 1 .. top
      BY <2>5, <1>3 DEF top, last
    <3>2. \A f \in 1 .. frames[i] : /\ q.blocks[f].kind = r.blocks[f].kind
                                   /\ q.blocks[f].declarations = r.blocks[f].declarations
                                   /\ r.blocks[f].declarations \in Nat
      BY <3>1, <1>3, <1>4, SMTT(40)
    <3>3. \A d \in 0 .. r.blocks[frames[i]].declarations : Size(more, d) = Size(counts, d)
      <4>1. r.blocks[frames[i]].declarations \in 0 .. r.declarations
        BY <3>1, <1>3
      <4>2. \A d \in 0 .. r.blocks[frames[i]].declarations : d \in 0 .. r.declarations
        BY <4>1, <1>3
      <4> QED
        BY <4>2, <1>4
    <3>4. /\ frames2[i] = frames[i] /\ p.blocks[i] = h[n].blocks[i] /\ i \in 1 .. Len(frames)
          /\ i > 1 => frames2[i - 1] = frames[i - 1]
          /\ PairedAt(h[n], r, counts, frames, i)
      <4>1. i > 1 => i - 1 \in 1 .. m
        BY <2>1
      <4> QED
        BY <4>1, <2>1, <2>4 DEF m
    <3> QED
      <4>1. frames \in Seq(Nat)
        BY <2>1
      <4> HIDE DEF n
      <4> QED
        BY <4>1, <3>1, <3>2, <3>3, <3>4, PairStays, SMTT(30)
  <2>8. ASSUME NEW i \in 1 .. m + 1
        PROVE  PairedAt(p, q, more, frames2, i)
    <3>1. i \in 1 .. m \/ i = m + 1
      BY <2>1
    <3> QED
      BY <3>1, <2>6, <2>7
  <2>9. ASSUME NEW i \in 1 .. m + 1, NEW j \in 1 .. m + 1, i < j
        PROVE  frames2[i] < frames2[j]
    <3>1. i \in 1 .. m /\ frames2[i] = frames[i] /\ frames[i] \in 2 .. top
      <4>1. i \in 1 .. m
        BY <2>1, <2>9
      <4> QED
        BY <4>1, <2>4, <2>5
    <3>2. CASE j = m + 1
      BY <3>1, <3>2, <2>4, <1>3
    <3>3. CASE j # m + 1
      <4>1. j \in 1 .. m
        BY <3>3, <2>1
      <4> QED
        BY <3>1, <4>1, <2>1, <2>4, <2>9
    <3> QED
      BY <3>2, <3>3
  <2>10. ASSUME NEW f \in 2 .. last, q.blocks[f].kind # "control"
         PROVE  \E i \in 1 .. m + 1 : frames2[i] = f
    <3>1. CASE f = last
      <4>1. m + 1 \in 1 .. m + 1
        BY <2>1
      <4> QED
        BY <3>1, <4>1, <2>4
    <3>2. CASE f # last
      <4>1. f \in 2 .. top /\ f \in 1 .. top
        <5>1. f \notin top + 1 .. last
          BY <3>2, <2>10, <1>4
        <5> QED
          BY <5>1, <1>3
      <4>2. PICK i \in 1 .. m : frames[i] = f
        BY <4>1, <2>1, <2>10, <1>4
      <4>3. i \in 1 .. m + 1 /\ frames2[i] = f
        BY <4>2, <2>1, <2>4, SMTT(40)
      <4> QED
        BY <4>3
    <3> QED
      BY <3>1, <3>2
  <2>11. frames2 # <<>>
    BY <2>1, <2>4
  <2> QED
    BY <2>4, <2>8, <2>9, <2>10, <2>11 DEF Paired, last
<1>10. LabelsHold(h2, b2, q, more)
  <2>1. ASSUME NEW f \in 1 .. last
        PROVE  /\ \A l \in q.blocks[f].labels : LabelAt(h2, b2, q, more, f, l)
               /\ \A l, m \in q.blocks[f].labels : l.name = m.name => l = m
    <3>1. CASE f \in 1 .. top
      BY <3>1, <1>0, <1>4, <1>5 DEF LabelsHold, top
    <3>2. CASE f \in top + 1 .. last
      BY <3>2, <1>4
    <3> QED
      BY <3>1, <3>2, <1>6
  <2> QED
    BY <2>1 DEF LabelsHold, last
<1>11. \A f \in 1 .. last : \A g \in q.blocks[f].gotos : f \in 1 .. top /\ g \in r.blocks[f].gotos
  BY <1>4, <1>6
<1>12. GotosHold(h2, b2, q, more)
  BY <1>5, <1>11 DEF GotosHold, last
<1>13. GotosOnce(b2, q)
  <2>1. \A f \in 1 .. top : \A g \in r.blocks[f].gotos :
          /\ \A j \in r.jumps : j[1] # g.stat
          /\ \A e \in 1 .. top : \A k \in r.blocks[e].gotos : k.stat = g.stat => k = g /\ e = f
    BY <1>0 DEF GotosOnce, top
  <2>2. ASSUME NEW i \in 1 .. n + 1, b2[i].kind = "goto"
        PROVE  \/ \E j \in q.jumps : j[1] = i
               \/ \E f \in 1 .. last : \E g \in q.blocks[f].gotos : g.stat = i
    <3>1. s.kind # "goto"
      BY BlocksAssumption DEF Opens
    <3>2. i \in 1 .. n /\ b[i].kind = "goto"
      BY <3>1, <2>2, <1>1
    <3>3. \/ \E j \in r.jumps : j[1] = i
          \/ \E f \in 1 .. top : \E g \in r.blocks[f].gotos : g.stat = i
      BY <3>2, <1>0 DEF GotosOnce, top
    <3>4. \A f \in 1 .. top : f \in 1 .. last /\ q.blocks[f] = r.blocks[f]
      BY <1>3, <1>4
    <3> QED
      BY <3>3, <3>4, <1>4
  <2> QED
    BY <2>1, <2>2, <1>1, <1>4, <1>11 DEF GotosOnce, last
<1>14. ResolverType(b2, q) /\ Counted(h2[Len(b2)], q, more) /\ Paired(h2[Len(b2)], q, more, frames2)
  BY <1>1, <1>9 DEF b2, Opens
<1>15. Resolved(h2, b2, q, more, frames2)
  BY <1>2, <1>7, <1>8, <1>10, <1>12, <1>13, <1>14 DEF Resolved
<1> QED
  BY <1>15 DEF h2, b2, last

(* A longer body has room for what a shorter one has.                      *)
LEMMA RoomStays ==
  ASSUME NEW b, NEW c, NEW r, ResolverType(b, r), Len(b) \in Nat, Len(c) \in Nat, Len(b) <= Len(c)
  PROVE  ResolverType(c, r)
BY DEF ResolverType

(* Entering a block.                                                       *)
LEMMA EnterIs ==
  ASSUME NEW b, NEW r, ResolverType(b, r), NEW kind \in {"control"} \cup Blocks
  PROVE  /\ ResolverType(b, EnterBlock(r, kind))
         /\ EnterBlock(r, kind).declarations = r.declarations
         /\ EnterBlock(r, kind).jumps = r.jumps
         /\ Len(EnterBlock(r, kind).blocks) = Len(r.blocks) + 1
         /\ \A f \in 1 .. Len(r.blocks) : EnterBlock(r, kind).blocks[f] = r.blocks[f]
         /\ EnterBlock(r, kind).blocks[Len(r.blocks) + 1] =
              [kind |-> kind, declarations |-> r.declarations, labels |-> {}, gotos |-> {}]
<1> DEFINE new == [kind |-> kind, declarations |-> r.declarations, labels |-> {}, gotos |-> {}]
<1>1. /\ r \in [declarations : Nat, blocks : Seq(FrameSet), jumps : SUBSET (Nat \X Nat)]
      /\ r.declarations \in Nat /\ r.declarations <= Len(b) /\ r.blocks \in Seq(FrameSet)
  BY DEF ResolverType
<1>2. new \in FrameSet /\ new = Frame(kind, r.declarations)
  BY <1>1 DEF FrameSet, Frame
<1> HIDE DEF new
<1>3. EnterBlock(r, kind) = [r EXCEPT !.blocks = Append(r.blocks, new)]
  BY <1>2 DEF EnterBlock
<1>4. /\ Append(r.blocks, new) \in Seq(FrameSet) /\ Len(Append(r.blocks, new)) = Len(r.blocks) + 1
      /\ Append(r.blocks, new)[Len(r.blocks) + 1] = new
      /\ \A f \in 1 .. Len(r.blocks) : Append(r.blocks, new)[f] = r.blocks[f]
  BY <1>1, <1>2
<1>5. EnterBlock(r, kind) \in [declarations : Nat, blocks : Seq(FrameSet), jumps : SUBSET (Nat \X Nat)]
  BY <1>1, <1>3, <1>4
<1>6. /\ EnterBlock(r, kind).declarations = r.declarations
      /\ EnterBlock(r, kind).jumps = r.jumps
      /\ EnterBlock(r, kind).blocks = Append(r.blocks, new)
  BY <1>1, <1>3
<1> QED
  BY <1>1, <1>4, <1>5, <1>6 DEF ResolverType, new

(* Entering the two blocks of a `for`, with the variable between them.     *)
LEMMA EnterForIs ==
  ASSUME NEW b, NEW c, NEW r, ResolverType(b, r), Len(b) \in Nat, Len(c) = Len(b) + 1,
         "for" \in Blocks,
         NEW q, q = EnterBlock(Declared(EnterBlock(r, "control")), "for")
  PROVE  EnteredFor(c, r, q)
<1> DEFINE control == EnterBlock(r, "control")
           mid == Declared(control)
           top == Len(r.blocks)
<1>0. top \in Nat
  BY DEF ResolverType
<1>1. "control" \in {"control"} \cup Blocks /\ "for" \in {"control"} \cup Blocks
  OBVIOUS
<1>2. /\ ResolverType(b, control) /\ control.declarations = r.declarations
      /\ control.jumps = r.jumps /\ Len(control.blocks) = top + 1
      /\ \A f \in 1 .. top : control.blocks[f] = r.blocks[f]
      /\ control.blocks[top + 1] =
           [kind |-> "control", declarations |-> r.declarations, labels |-> {}, gotos |-> {}]
  BY <1>1, EnterIs
<1> HIDE DEF control
<1>3. ResolverType(c, mid)
  BY <1>2, DeclaredIs
<1>4. /\ mid.declarations = control.declarations + 1
      /\ mid.blocks = control.blocks /\ mid.jumps = control.jumps
  BY <1>2, <1>3, DeclaredIs
<1>5. q = EnterBlock(mid, "for")
  BY DEF control
<1> HIDE DEF mid, top
<1>6. /\ ResolverType(c, q)
      /\ q.declarations = mid.declarations /\ q.jumps = mid.jumps
      /\ Len(q.blocks) = Len(mid.blocks) + 1
      /\ \A f \in 1 .. Len(mid.blocks) : q.blocks[f] = mid.blocks[f]
      /\ q.blocks[Len(mid.blocks) + 1] =
           [kind |-> "for", declarations |-> mid.declarations, labels |-> {}, gotos |-> {}]
  BY <1>1, <1>3, <1>5, EnterIs
<1>7. Len(mid.blocks) = top + 1 /\ (top + 1) + 1 = top + 2
      /\ (\A f \in 1 .. top : f \in 1 .. top + 1)
      /\ top + 1 \in 1 .. top + 1
  BY <1>0, <1>2, <1>4
<1> QED
  BY <1>2, <1>4, <1>6, <1>7 DEF top, EnteredFor

(* The block of a `for` and its frame, with the control frame below it.    *)
LEMMA PairsFor ==
  ASSUME NEW at, NEW r, NEW counts, NEW frames, NEW i, NEW block, NEW top \in Nat, NEW d \in Nat,
         at.blocks[i] = block, block.kind = "for",
         frames[i] = top + 2, top = IF i = 1 THEN 1 ELSE frames[i - 1],
         top > 0, Len(r.blocks) = top + 2,
         r.blocks[top + 2].kind = "for", r.blocks[top + 2].declarations = d + 1,
         r.blocks[top + 1].kind = "control", r.blocks[top + 1].declarations = d,
         Size(counts, d + 1) = block.outer + 4, Size(counts, d) = block.outer
  PROVE  PairedAt(at, r, counts, frames, i)
<1> DEFINE f == frames[i]
           before == IF i = 1 THEN 1 ELSE frames[i - 1]
<1>1. f = top + 2 /\ f - 1 = top + 1 /\ before = top /\ f \in Nat /\ f \in 2 .. top + 2
  OBVIOUS
<1> HIDE DEF f, before
<1>3. /\ r.blocks[f].kind = "for" /\ r.blocks[f].declarations = d + 1
      /\ r.blocks[f - 1].kind = "control" /\ r.blocks[f - 1].declarations = d
  BY <1>1
<1>2. /\ f \in 2 .. Len(r.blocks) /\ r.blocks[f].kind = block.kind
      /\ f = before + 2 /\ r.blocks[f - 1].kind = "control"
      /\ r.blocks[f].declarations = r.blocks[f - 1].declarations + 1
      /\ block.outer = Size(counts, r.blocks[f - 1].declarations)
      /\ block.outer + 4 = Size(counts, r.blocks[f].declarations)
  BY <1>1, <1>3
<1> QED
  BY <1>2 DEF PairedAt, f, before

(* A block opens, and a `for` opens two.                                   *)
LEMMA OpenIInv ==
  ASSUME NEW h, NEW counts, NEW frames, Resolved(h, body, resolver, counts, frames),
         Written, lowerer = Unstarted, scopes = <<>>, NEW kind \in Blocks, Open(kind)
  PROVE  IInv'
<1> DEFINE s == [kind |-> kind]
           n == Len(body)
           at == h[n]
           top == Len(resolver.blocks)
           m == Len(frames)
           outer == Len(at.locals)
           depth == IF kind = "for" THEN outer + 3 ELSE outer
           block == [kind |-> kind, depth |-> depth, outer |-> outer]
           p == [locals |-> IF kind = "for"
                            THEN at.locals \o [i \in 1 .. 4 |-> Bind(n + 1, i = 4)] ELSE at.locals,
                 blocks |-> Append(at.blocks, block)]
           more == IF kind = "for" THEN Append(counts, Len(p.locals)) ELSE counts
           h2 == Longer(h, body, p)
           control == EnterBlock(resolver, "control")
           two == EnterBlock(Declared(control), kind)
           one == EnterBlock(resolver, kind)
           D == resolver.declarations
           last == Len(resolver'.blocks)
<1>1. /\ s \in Statements /\ s.kind = kind /\ kind # "end" /\ kind # "label" /\ kind # "break"
      /\ kind # "local"
      /\ Write(s) /\ phase' = phase /\ MayGoOn
      /\ resolver' = IF kind = "for" THEN two ELSE one
  BY BlocksAssumption DEF Open, Statements
<1> HIDE DEF s
<1>2. /\ phase = "resolve" /\ body' = Append(body, s) /\ UNCHANGED <<lowerer, scopes>>
      /\ body \in Seq(Statements) /\ Len(body') = n + 1 /\ Len(body') <= MaxStatements
      /\ n \in Nat
  BY <1>1, WriteIs DEF Written
<1>3. /\ Way(h, body) /\ ResolverType(body, resolver)
      /\ Counted(at, resolver, counts) /\ Paired(at, resolver, counts, frames)
  BY DEF Resolved
<1>4. /\ at \in Point /\ at.locals \in Seq(Bound) /\ at.blocks \in Seq(Block) /\ outer \in Nat
      /\ top \in Nat /\ top > 0 /\ D \in Nat
      /\ m \in Nat /\ frames \in Seq(Nat) /\ m = Len(at.blocks)
      /\ Size(counts, D) = outer
  <2>1. n \in 0 .. n
    BY <1>2
  <2>2. /\ at \in Point /\ at.locals \in Seq(Bound) /\ at.blocks \in Seq(Block) /\ outer \in Nat
    BY <2>1, <1>3, PointsAre
  <2>3. top \in Nat /\ top > 0 /\ D \in Nat
    BY CountsAre
  <2>4. frames \in Seq(Nat) /\ m = Len(at.blocks)
    BY <1>3 DEF Paired
  <2>5. Size(counts, D) = outer
    BY <1>3 DEF Counted
  <2> QED
    BY <2>2, <2>3, <2>4, <2>5
<1> HIDE DEF at
<1>5. /\ p \in Point /\ p.blocks = Append(at.blocks, block)
      /\ p.locals = IF kind = "for"
                    THEN at.locals \o [i \in 1 .. 4 |-> Bind(n + 1, i = 4)] ELSE at.locals
      /\ Len(p.locals) = IF kind = "for" THEN outer + 4 ELSE outer
      /\ Agree(at.locals, p.locals, outer)
      /\ block \in Block
  <2> DEFINE slots == [i \in 1 .. 4 |-> Bind(n + 1, i = 4)]
             long == IF kind = "for" THEN at.locals \o slots ELSE at.locals
  <2>1. n + 1 \in Nat
    BY <1>2
  <2>2. /\ at.locals \o slots \in Seq(Bound) /\ Len(at.locals \o slots) = outer + 4
        /\ Agree(at.locals, at.locals \o slots, outer)
    BY <2>1, <1>4, SlotsAre
  <2> HIDE DEF slots
  <2>3. /\ long \in Seq(Bound) /\ Len(long) = IF kind = "for" THEN outer + 4 ELSE outer
        /\ Agree(at.locals, long, outer)
    <3>1. Agree(at.locals, at.locals, outer)
      BY <1>4 DEF Agree
    <3> QED
      BY <3>1, <2>2, <1>4
  <2>4. block \in Block
    BY <1>4 DEF Block
  <2>5. p = [locals |-> long, blocks |-> Append(at.blocks, block)]
    BY DEF slots
  <2> HIDE DEF long, block, p
  <2>6. Append(at.blocks, block) \in Seq(Block)
    BY <2>4, <1>4
  <2>7. p \in Point /\ p.blocks = Append(at.blocks, block) /\ p.locals = long
    BY <2>3, <2>5, <2>6 DEF Point
  <2> QED
    BY <2>3, <2>4, <2>7 DEF long, slots
<1>6. block.kind = kind /\ block.depth = depth /\ block.outer = outer
  OBVIOUS
<1>7. Follows(at, p, s, n + 1)
  BY <1>1, <1>5 DEF Follows
<1> HIDE DEF p, block
<1>8. Walks(h, body, s, p) /\ ~(body # <<>> /\ TailLabel(body[n]))
  BY <1>1, <1>2, <1>5, <1>7, TailGoesOn DEF at
<1>9. CASE kind # "for"
  <2>1. resolver' = one /\ more = counts /\ Len(p.locals) = outer
    BY <1>1, <1>5, <1>9
  <2>2. /\ ResolverType(Append(body, s), resolver')
        /\ resolver'.declarations = D /\ resolver'.jumps = resolver.jumps
        /\ Len(resolver'.blocks) = top + 1
        /\ \A f \in 1 .. top : resolver'.blocks[f] = resolver.blocks[f]
        /\ resolver'.blocks[top + 1] =
             [kind |-> kind, declarations |-> D, labels |-> {}, gotos |-> {}]
    <3>1. Len(Append(body, s)) \in Nat /\ n <= Len(Append(body, s))
      BY <1>2
    <3>2. resolver' = EnterBlock(resolver, kind) /\ kind \in {"control"} \cup Blocks
      BY <2>1
    <3>3. /\ ResolverType(body, resolver')
          /\ resolver'.declarations = D /\ resolver'.jumps = resolver.jumps
          /\ Len(resolver'.blocks) = top + 1
          /\ \A f \in 1 .. top : resolver'.blocks[f] = resolver.blocks[f]
          /\ resolver'.blocks[top + 1] =
               [kind |-> kind, declarations |-> D, labels |-> {}, gotos |-> {}]
      BY <3>2, <1>3, EnterIs
    <3>4. ResolverType(Append(body, s), resolver')
      BY <3>1, <3>3, <1>2, RoomStays
    <3> QED
      BY <3>3, <3>4
  <2> HIDE DEF top, D, n
  <2>3. Counted(p, resolver', counts)
    BY <2>1, <2>2, <1>3, <1>4 DEF Counted, D
  <2>4. PairedAt(p, resolver', counts, Append(frames, top + 1), m + 1)
    <3>1. /\ Append(frames, top + 1)[m + 1] = top + 1 /\ p.blocks[m + 1] = block
          /\ \A i \in 1 .. m : Append(frames, top + 1)[i] = frames[i]
      BY <1>4, <1>5, SMTT(40)
    <3>2. top = IF m + 1 = 1 THEN 1 ELSE Append(frames, top + 1)[m + 1 - 1]
      <4>1. top = IF frames = <<>> THEN 1 ELSE frames[m]
        BY <1>3 DEF Paired, top
      <4>2. frames = <<>> <=> m = 0
        BY <1>4
      <4>3. m # 0 => m \in 1 .. m
        BY <1>4
      <4>4. m + 1 - 1 = m /\ (m + 1 = 1 <=> m = 0)
        BY <1>4
      <4> HIDE DEF m
      <4> QED
        BY <4>1, <4>2, <4>3, <4>4, <3>1
    <3>3. top + 1 \in 2 .. top + 1
      BY <1>4
    <3> QED
      BY <3>1, <3>2, <3>3, <2>2, <1>4, <1>6, <1>9 DEF PairedAt, D
  <2>5. Opens(h, body, resolver, counts, frames, s, p, resolver', counts)
    <3>1. /\ D <= resolver'.declarations /\ top < Len(resolver'.blocks)
          /\ D \in D .. D
      BY <2>2, <1>4
    <3>2. \A f \in top + 1 .. Len(resolver'.blocks) :
            f = top + 1 /\ \A e \in f .. Len(resolver'.blocks) : e = f
      BY <2>2, <1>4
    <3>3. \A f \in top + 1 .. Len(resolver'.blocks) :
       /\ resolver'.blocks[f].labels = {} /\ resolver'.blocks[f].gotos = {}
       /\ resolver'.blocks[f].declarations \in D .. resolver'.declarations
       /\ \A e \in f .. Len(resolver'.blocks) :
            resolver'.blocks[f].declarations <= resolver'.blocks[e].declarations
       /\ f # Len(resolver'.blocks) => resolver'.blocks[f].kind = "control"
      BY <3>1, <3>2, <2>2, <1>4
    <3>4. PairedAt(p, resolver', counts, Append(frames, Len(resolver'.blocks)), m + 1)
      BY <2>2, <2>4
    <3>5. s.kind \in Blocks /\ ~(body # <<>> /\ TailLabel(body[Len(body)]))
          /\ \E x \in Block : p.blocks = Append(h[Len(body)].blocks, x)
          /\ Agree(h[Len(body)].locals, p.locals, Len(h[Len(body)].locals))
      BY <1>1, <1>5, <1>8 DEF n, at
    <3> QED
      BY <3>1, <3>3, <3>4, <3>5, <2>2, <2>3 DEF Opens, D, top
  <2>6. Resolved(h2, Append(body, s), resolver', counts, Append(frames, Len(resolver'.blocks)))
    BY <2>5, <1>8, MoreBlocks
  <2> QED
    BY <2>6, <1>1, <1>2, ResolveStep
<1>10. CASE kind = "for"
  <2>1. resolver' = two /\ more = Append(counts, Len(p.locals)) /\ Len(p.locals) = outer + 4
    BY <1>1, <1>5, <1>10
  <2>2. /\ ResolverType(Append(body, s), resolver')
        /\ resolver'.declarations = D + 1 /\ resolver'.jumps = resolver.jumps
        /\ Len(resolver'.blocks) = top + 2
        /\ \A f \in 1 .. top : resolver'.blocks[f] = resolver.blocks[f]
        /\ resolver'.blocks[top + 1] =
             [kind |-> "control", declarations |-> D, labels |-> {}, gotos |-> {}]
        /\ resolver'.blocks[top + 2] =
             [kind |-> kind, declarations |-> D + 1, labels |-> {}, gotos |-> {}]
    <3>1. Len(Append(body, s)) = n + 1
      BY <1>2
    <3>2. resolver' = EnterBlock(Declared(EnterBlock(resolver, "control")), "for") /\ "for" \in Blocks
      BY <2>1, <1>10
    <3>3. EnteredFor(Append(body, s), resolver, resolver')
      BY <3>1, <3>2, <1>2, <1>3, EnterForIs
    <3> QED
      BY <3>3, <1>10 DEF EnteredFor
  <2>3. Counted(p, resolver', more)
        /\ (\A d \in 0 .. D : Size(more, d) = Size(counts, d))
        /\ Size(more, D + 1) = outer + 4
    <3>1. Len(h[Len(body)].locals) <= Len(p.locals)
      BY <2>1, <1>4 DEF at
    <3>2. resolver'.declarations = resolver.declarations + 1 /\ p \in Point
      BY <2>2, <1>5
    <3>3. /\ Counted(p, resolver', Append(counts, Len(p.locals)))
          /\ \A d \in 0 .. resolver.declarations :
               Size(Append(counts, Len(p.locals)), d) = Size(counts, d)
          /\ Size(Append(counts, Len(p.locals)), resolver'.declarations) = Len(p.locals)
      BY <3>1, <3>2, CountAppended
    <3> HIDE DEF more
    <3> QED
      BY <3>2, <3>3, <2>1
  <2> HIDE DEF top, D, n, more
  <2>4. PairedAt(p, resolver', more, Append(frames, top + 2), m + 1)
    <3>1. /\ Append(frames, top + 2)[m + 1] = top + 2 /\ p.blocks[m + 1] = block
          /\ \A i \in 1 .. m : Append(frames, top + 2)[i] = frames[i]
      BY <1>4, <1>5
    <3>2. top = IF m + 1 = 1 THEN 1 ELSE Append(frames, top + 2)[m + 1 - 1]
      <4>1. top = IF frames = <<>> THEN 1 ELSE frames[m]
        BY <1>3 DEF Paired, top
      <4>2. frames = <<>> <=> m = 0
        BY <1>4
      <4>3. m # 0 => m \in 1 .. m
        BY <1>4
      <4>4. m + 1 - 1 = m /\ (m + 1 = 1 <=> m = 0)
        BY <1>4
      <4> HIDE DEF m
      <4> QED
        BY <4>1, <4>2, <4>3, <4>4, <3>1
    <3>3. top + 2 \in 2 .. top + 2 /\ top + 2 - 1 = top + 1
      BY <1>4
    <3>4. Size(more, D) = outer
      BY <2>3, <1>4
    <3>5. /\ resolver'.blocks[top + 2].kind = "for" /\ resolver'.blocks[top + 2].declarations = D + 1
          /\ resolver'.blocks[top + 1].kind = "control" /\ resolver'.blocks[top + 1].declarations = D
          /\ block.kind = "for" /\ Len(resolver'.blocks) = top + 2
          /\ Size(more, D + 1) = block.outer + 4 /\ Size(more, D) = block.outer
      BY <3>4, <2>2, <2>3, <1>6, <1>10
    <3> DEFINE longer == Append(frames, top + 2)
               i == m + 1
               new == resolver'
    <3>6. /\ p.blocks[i] = block /\ longer[i] = top + 2
          /\ top = IF i = 1 THEN 1 ELSE longer[i - 1]
      BY <3>1, <3>2
    <3>7. /\ new.blocks[top + 2].kind = "for" /\ new.blocks[top + 2].declarations = D + 1
          /\ new.blocks[top + 1].kind = "control" /\ new.blocks[top + 1].declarations = D
          /\ Len(new.blocks) = top + 2
      BY <3>5
    <3> HIDE DEF i, longer, new, block
    <3>8. PairedAt(p, new, more, longer, i)
      BY <3>5, <3>6, <3>7, <1>4, PairsFor
    <3> QED
      BY <3>8 DEF longer, i, new
  <2>5. Opens(h, body, resolver, counts, frames, s, p, resolver', more)
    <3>1. /\ D <= resolver'.declarations /\ top < Len(resolver'.blocks)
          /\ D \in D .. D + 1 /\ D + 1 \in D .. D + 1 /\ D <= D + 1 /\ top + 2 # top + 1
      BY <2>2, <1>4
    <3>2. \A f \in top + 1 .. top + 2 : f = top + 1 \/ f = top + 2
      BY <1>4
    <3>3. ASSUME NEW f \in top + 1 .. Len(resolver'.blocks)
          PROVE  /\ resolver'.blocks[f].labels = {} /\ resolver'.blocks[f].gotos = {}
                 /\ resolver'.blocks[f].declarations \in D .. resolver'.declarations
                 /\ \A e \in f .. Len(resolver'.blocks) :
                      resolver'.blocks[f].declarations <= resolver'.blocks[e].declarations
                 /\ f # Len(resolver'.blocks) => resolver'.blocks[f].kind = "control"
      <4>1. CASE f = top + 1
        <5>1. resolver'.blocks[f].declarations = D
          BY <4>1, <2>2
        <5>2. \A e \in f .. top + 2 : resolver'.blocks[e].declarations \in {D, D + 1}
          BY <4>1, <3>2, <2>2
        <5> QED
          BY <4>1, <5>1, <5>2, <3>1, <2>2, <1>4
      <4>2. CASE f = top + 2
        <5>1. \A e \in f .. top + 2 : e = f
          BY <4>2, <1>4
        <5> QED
          BY <4>2, <5>1, <3>1, <2>2, <1>4
      <4> QED
        BY <4>1, <4>2, <3>2, <2>2
    <3>4. PairedAt(p, resolver', more, Append(frames, Len(resolver'.blocks)), m + 1)
      BY <2>2, <2>4
    <3>5. s.kind \in Blocks /\ ~(body # <<>> /\ TailLabel(body[Len(body)]))
          /\ \E x \in Block : p.blocks = Append(h[Len(body)].blocks, x)
          /\ Agree(h[Len(body)].locals, p.locals, Len(h[Len(body)].locals))
      BY <1>1, <1>5, <1>8 DEF n, at
    <3> QED
      BY <3>1, <3>3, <3>4, <3>5, <2>2, <2>3 DEF Opens, D, top
  <2>6. Resolved(h2, Append(body, s), resolver', more, Append(frames, Len(resolver'.blocks)))
    BY <2>5, <1>8, MoreBlocks
  <2> QED
    BY <2>6, <1>1, <1>2, ResolveStep
<1> QED
  BY <1>9, <1>10

(* The gotos a frame's labels answer, unless one jumps into a scope.       *)
LEMMA JumpsSent ==
  ASSUME NEW h, NEW counts, NEW frames, Resolved(h, body, resolver, counts, frames),
         ~IntoScope(Here), Skips(Here) => SkipsToTail
  PROVE  Sent(h, body, resolver.jumps \cup Jumps(Here))
<1> DEFINE n == Len(body)
           r == resolver
           top == Len(resolver.blocks)
           now == h[Len(body)]
<1>0. /\ Way(h, body) /\ Tails(h, body) /\ Sent(h, body, r.jumps)
      /\ LabelsHold(h, body, r, counts) /\ GotosHold(h, body, r, counts) /\ GotosOnce(body, r)
  BY DEF Resolved
<1>1. /\ n \in Nat /\ top \in Nat /\ top > 0 /\ top \in 1 .. top /\ r.declarations \in Nat
      /\ Here = r.blocks[top] /\ Here \in FrameSet
      /\ \A d \in 0 .. r.declarations : Size(counts, d) \in Nat
      /\ \A d, e \in 0 .. r.declarations : d <= e => Size(counts, d) <= Size(counts, e)
      /\ Size(counts, r.declarations) = Len(now.locals)
  <2>1. /\ n \in Nat /\ top \in Nat /\ top > 0 /\ r.declarations \in Nat
        /\ \A f \in 1 .. top : r.blocks[f] \in FrameSet
        /\ \A d \in 0 .. r.declarations : Size(counts, d) \in Nat
        /\ \A d, e \in 0 .. r.declarations : d <= e => Size(counts, d) <= Size(counts, e)
        /\ Size(counts, r.declarations) = Len(now.locals)
    BY CountsAre
  <2>2. Here = r.blocks[top]
    BY InnermostIs DEF Here
  <2>3. top \in 1 .. top
    BY <2>1
  <2> QED
    BY <2>1, <2>2, <2>3
<1>2. /\ \A g \in Here.gotos : GotoAt(h, body, r, counts, top, g) /\ g \in GotoSet
      /\ \A l \in Here.labels : LabelAt(h, body, r, counts, top, l) /\ l \in LabelSet
      /\ \A l, m \in Here.labels : l.name = m.name => l = m
      /\ \A g \in Here.gotos : /\ \A j \in r.jumps : j[1] # g.stat
                               /\ \A k \in Here.gotos : k.stat = g.stat => k = g
  BY <1>0, <1>1 DEF GotosHold, LabelsHold, GotosOnce, FrameSet
<1> HIDE DEF n, top, now, r
<1>3. ASSUME NEW g \in Here.gotos, NEW l \in Here.labels, g.name = l.name
      PROVE  /\ g.stat \in 1 .. n /\ l.stat \in 1 .. n
             /\ Reaches(h, body, g.stat, l.stat)
  <2>1. <<g, l>> \in Answered(Here) /\ <<g, l>>[1] = g /\ <<g, l>>[2] = l
    BY <1>3 DEF Answered
  <2>2. ~(l.declarations > g.declarations)
    BY <2>1 DEF IntoScope
  <2>3. /\ g.stat \in 1 .. n /\ body[g.stat].kind = "goto" /\ g.declarations <= Ceiling(r, top)
        /\ Agree(h[g.stat - 1].locals, now.locals, Size(counts, g.declarations))
        /\ g.declarations \in Nat
    BY <1>2 DEF GotoAt, GotoSet, n, now
  <2>4. /\ l.stat \in 1 .. n /\ body[l.stat].kind = "label" /\ l.declarations <= Ceiling(r, top)
        /\ Agree(h[l.stat - 1].locals, now.locals, Size(counts, l.declarations))
        /\ AliveAt(h, body, l.stat) <= Size(counts, l.declarations)
        /\ body[l.stat].tail => now = h[l.stat - 1] /\ l.height = r.declarations
        /\ l.declarations \in Nat
    BY <1>2 DEF LabelAt, LabelSet, n, now
  <2>5. Ceiling(r, top) = r.declarations
    BY DEF Ceiling, top, r
  <2>6. l.declarations \in 0 .. r.declarations /\ g.declarations \in 0 .. r.declarations
        /\ l.declarations <= g.declarations
    BY <2>2, <2>3, <2>4, <2>5, <1>1
  <2>7. Size(counts, l.declarations) <= Size(counts, g.declarations)
        /\ Size(counts, l.declarations) \in Nat /\ Size(counts, g.declarations) \in Nat
    BY <2>6, <1>1
  <2>8. AliveAt(h, body, l.stat) \in Nat
    <3>1. l.stat - 1 \in 0 .. n
      BY <2>4, <1>1
    <3>2. Deep(h[l.stat - 1].blocks) \in Nat /\ Len(h[l.stat - 1].locals) \in Nat
      BY <3>1, <1>0, PointsAre DEF n
    <3> QED
      BY <3>2 DEF AliveAt
  <2>9. Agree(h[g.stat - 1].locals, h[l.stat - 1].locals, AliveAt(h, body, l.stat))
    <3>1. Len(h[g.stat - 1].locals) \in Nat /\ Len(h[l.stat - 1].locals) \in Nat
      <4>1. l.stat - 1 \in 0 .. n /\ g.stat - 1 \in 0 .. n
        BY <2>3, <2>4, <1>1, SMTT(40)
      <4> QED
        BY <4>1, <1>0, PointsAre DEF n
    <3>2. \A a, c, d \in Nat : \A s, t, u :
            /\ Len(s) \in Nat /\ Len(t) \in Nat
            /\ Agree(s, u, c) /\ Agree(t, u, d) /\ a <= d /\ d <= c
            => Agree(s, t, a)
      BY DEF Agree
    <3> QED
      BY <3>1, <3>2, <2>3, <2>4, <2>7, <2>8
  <2>10. ASSUME ~SkipsToTail, body[l.stat].tail
         PROVE  Agree(h[g.stat - 1].locals, h[l.stat - 1].locals, Len(h[l.stat - 1].locals))
    <3>1. ~(l.height > g.declarations)
      BY <2>1, <2>10 DEF Skips
    <3>2. g.declarations = r.declarations
      BY <3>1, <2>4, <2>6, <2>10, <1>1
    <3> QED
      BY <3>2, <2>3, <2>4, <2>10, <1>1
  <2> QED
    BY <2>3, <2>4, <2>9, <2>10 DEF Reaches
<1>4. \A j \in Jumps(Here) : \E g \in Here.gotos, l \in Here.labels :
        j = <<g.stat, l.stat>> /\ g.name = l.name
  BY DEF Jumps, Answered
<1>5. /\ r.jumps \subseteq (1 .. n) \X (1 .. n)
      /\ \A j \in r.jumps : Reaches(h, body, j[1], j[2])
      /\ \A j, k \in r.jumps : j[1] = k[1] => j[2] = k[2]
  BY <1>0 DEF Sent, n
<1>6. \A j \in Jumps(Here) : j \in (1 .. n) \X (1 .. n) /\ Reaches(h, body, j[1], j[2])
  BY <1>3, <1>4
<1>7. ASSUME NEW j \in r.jumps \cup Jumps(Here), NEW k \in r.jumps \cup Jumps(Here), j[1] = k[1]
      PROVE  j[2] = k[2]
  <2>1. CASE j \in r.jumps /\ k \in r.jumps
    BY <2>1, <1>5, <1>7
  <2>2. CASE j \in Jumps(Here) /\ k \in Jumps(Here)
    <3>1. PICK g \in Here.gotos, l \in Here.labels : j = <<g.stat, l.stat>> /\ g.name = l.name
      BY <2>2, <1>4
    <3>2. PICK x \in Here.gotos, m \in Here.labels : k = <<x.stat, m.stat>> /\ x.name = m.name
      BY <2>2, <1>4
    <3>3. x = g
      BY <3>1, <3>2, <1>2, <1>7
    <3> QED
      BY <3>1, <3>2, <3>3, <1>2
  <2>3. ASSUME NEW x \in r.jumps, NEW y \in Jumps(Here)
        PROVE  x[1] # y[1]
    BY <1>2, <1>4
  <2> QED
    BY <2>1, <2>2, <2>3, <1>7
<1> QED
  BY <1>5, <1>6, <1>7 DEF Sent, n, r

(* Leaving a block: its gotos are answered or escape.                      *)
LEMMA LeaveIs ==
  ASSUME NEW b, NEW r, ResolverType(b, r), Len(b) \in Nat, Len(r.blocks) > 1,
         r.blocks[Len(r.blocks)].declarations <= r.declarations
  PROVE  LeftBlock(b, r, LeaveBlock(r))
<1> DEFINE top == Len(r.blocks)
           frame == r.blocks[top]
           outer == r.blocks[top - 1]
           escaping == {Escaped(g, frame.declarations) : g \in Unresolved(frame)}
           next == [outer EXCEPT !.gotos = @ \cup escaping]
           front == SubSeq(r.blocks, 1, top - 2)
           q == LeaveBlock(r)
<1>1. /\ r.declarations \in Nat /\ r.declarations <= Len(b)
      /\ r.jumps \subseteq Nat \X Nat /\ r.blocks \in Seq(FrameSet)
      /\ top \in Nat /\ top > 1
  BY DEF ResolverType
<1>2. frame \in FrameSet /\ outer \in FrameSet /\ Last(r.blocks) = frame
  <2>1. \A f \in 1 .. top : r.blocks[f] \in FrameSet
    BY <1>1, ElementOfSeq
  <2>2. top \in 1 .. top /\ top - 1 \in 1 .. top
    BY <1>1
  <2> QED
    BY <2>1, <2>2 DEF Last
<1>3. escaping \subseteq GotoSet
  <2> SUFFICES ASSUME NEW g \in Unresolved(frame)
               PROVE  Escaped(g, frame.declarations) \in GotoSet
    OBVIOUS
  <2>1. g \in GotoSet /\ frame.declarations \in Nat /\ g.declarations \in Nat
    BY <1>2 DEF Unresolved, FrameSet, GotoSet
  <2>2. Least(g.declarations, frame.declarations) \in Nat
    BY <2>1 DEF Least
  <2> QED
    BY <2>1, <2>2 DEF Escaped, GotoSet
<1>4. Jumps(frame) \subseteq Nat \X Nat
  BY <1>2 DEF Jumps, Answered, FrameSet, GotoSet, LabelSet
<1>5. q = [declarations |-> frame.declarations, jumps |-> r.jumps \cup Jumps(frame),
           blocks |-> Append(front, next)]
  BY <1>2 DEF LeaveBlock, Left, Escaped
<1> HIDE DEF escaping
<1>6. /\ next \in FrameSet /\ next.kind = outer.kind
      /\ next.declarations = outer.declarations /\ next.labels = outer.labels
      /\ next.gotos = outer.gotos \cup escaping
  BY <1>2, <1>3 DEF FrameSet
<1>7. /\ front \in Seq(FrameSet) /\ Len(front) = top - 2
      /\ \A f \in 1 .. top - 2 : front[f] = r.blocks[f]
  <2>1. \A f \in 1 .. top - 2 : r.blocks[f] \in FrameSet
    <3>1. \A f \in 1 .. top - 2 : f \in 1 .. top
      BY <1>1
    <3> QED
      BY <3>1, <1>1, ElementOfSeq
  <2> DEFINE k == top - 2
  <2>2. k \in Nat /\ k \in Int
    BY <1>1
  <2>3. \A f \in 1 .. k : r.blocks[f] \in FrameSet
    BY <2>1
  <2> HIDE DEF k
  <2>4. /\ SubSeq(r.blocks, 1, k) \in Seq(FrameSet)
        /\ Len(SubSeq(r.blocks, 1, k)) = IF 1 <= k THEN k - 1 + 1 ELSE 0
        /\ \A f \in 1 .. k - 1 + 1 : SubSeq(r.blocks, 1, k)[f] = r.blocks[1 + f - 1]
    BY <2>2, <2>3, SubSeqProperties
  <2>5. Len(SubSeq(r.blocks, 1, k)) = k
    BY <2>2, <2>4
  <2>6. \A f \in 1 .. k : f \in 1 .. k - 1 + 1 /\ 1 + f - 1 = f
    BY <2>2
  <2> QED
    BY <2>4, <2>5, <2>6 DEF k
<1> HIDE DEF front, next, frame, outer, q
<1>8. /\ Append(front, next) \in Seq(FrameSet) /\ Len(Append(front, next)) = top - 1
      /\ Append(front, next)[top - 1] = next
      /\ \A f \in 1 .. top - 2 : Append(front, next)[f] = front[f]
  <2>1. Len(front) + 1 = top - 1
    BY <1>1, <1>7
  <2> HIDE DEF top
  <2> QED
    BY <2>1, <1>6, <1>7, AppendProperties
<1>9. frame.declarations \in Nat /\ frame.declarations <= Len(b)
  BY <1>1, <1>2 DEF FrameSet, frame
<1>10. /\ q.declarations = frame.declarations /\ q.jumps = r.jumps \cup Jumps(frame)
       /\ q.blocks = Append(front, next)
       /\ q \in [declarations : Nat, blocks : Seq(FrameSet), jumps : SUBSET (Nat \X Nat)]
  BY <1>1, <1>4, <1>5, <1>8, <1>9
<1>11. ResolverType(b, q)
  BY <1>9, <1>10 DEF ResolverType
<1> QED
  BY <1>6, <1>7, <1>8, <1>10, <1>11 DEF LeftBlock, frame, outer, escaping, q

(* A list of counts cut short.                                             *)
LEMMA CountsCut ==
  ASSUME NEW counts \in Seq(Nat), NEW d \in 0 .. Len(counts),
         \A i \in 1 .. Len(counts), j \in 1 .. Len(counts) : i <= j => counts[i] <= counts[j],
         NEW q, q.declarations = d, NEW at, Size(counts, d) = Len(at.locals)
  PROVE  /\ Counted(at, q, SubSeq(counts, 1, d))
         /\ \A e \in 0 .. d : Size(SubSeq(counts, 1, d), e) = Size(counts, e)
<1> DEFINE more == SubSeq(counts, 1, d)
<1>1. d \in Nat /\ d \in Int /\ d <= Len(counts) /\ Len(counts) \in Nat
  OBVIOUS
<1>2. /\ more \in Seq(Nat) /\ Len(more) = d
      /\ \A i \in 1 .. d : more[i] = counts[i]
  <2>1. \A i \in 1 .. d : counts[i] \in Nat
    <3>1. \A i \in 1 .. d : i \in 1 .. Len(counts)
      BY <1>1
    <3> QED
      BY <3>1, ElementOfSeq
  <2>2. /\ more \in Seq(Nat)
        /\ Len(more) = IF 1 <= d THEN d - 1 + 1 ELSE 0
        /\ \A i \in 1 .. d - 1 + 1 : more[i] = counts[1 + i - 1]
    BY <1>1, <2>1, SubSeqProperties
  <2>3. \A i \in 1 .. d : i \in 1 .. d - 1 + 1 /\ 1 + i - 1 = i
    BY <1>1
  <2> HIDE DEF more
  <2>4. Len(more) = d
    BY <2>2, <1>1
  <2> QED
    BY <2>2, <2>3, <2>4
<1> HIDE DEF more
<1>3. ASSUME NEW i \in 1 .. Len(more), NEW j \in 1 .. Len(more), i <= j
      PROVE  more[i] <= more[j]
  <2>1. i \in 1 .. Len(counts) /\ j \in 1 .. Len(counts) /\ i \in 1 .. d /\ j \in 1 .. d
    BY <1>1, <1>2
  <2> QED
    BY <2>1, <1>2, <1>3
<1>4. \A e \in 0 .. d : Size(more, e) = Size(counts, e)
  <2>1. \A e \in 0 .. d : e # 0 => e \in 1 .. d
    BY <1>1
  <2> QED
    BY <2>1, <1>2 DEF Size
<1>5. Size(more, q.declarations) = Len(at.locals)
  <2>1. d \in 0 .. d
    BY <1>1
  <2> QED
    BY <2>1, <1>4
<1>6. Len(more) = q.declarations
  BY <1>2
<1> QED
  BY <1>2, <1>3, <1>4, <1>5, <1>6 DEF Counted, more

(* The innermost block, and its frame or frames.                           *)
LEMMA InnermostPair ==
  ASSUME NEW h, NEW b, NEW r, NEW counts, NEW frames, Resolved(h, b, r, counts, frames),
         frames # <<>>
  PROVE  Innermost(h[Len(b)], r, counts, frames)
<1> DEFINE n == Len(frames)
           top == Len(r.blocks)
           at == h[Len(b)]
           block == at.blocks[n]
           m == Below(frames)
<1>0. Way(h, b) /\ Stacked(r) /\ Paired(at, r, counts, frames)
  BY DEF Resolved
<1>1. top \in Nat
  BY CountsAre
<1>2. at.blocks \in Seq(Block) /\ at.blocks # <<>>
  <2>1. at.blocks \in Seq(Block)
    BY InnermostIs
  <2> QED
    BY <2>1, <1>0 DEF Paired
<1>3. /\ frames \in Seq(Nat) /\ n = Len(at.blocks)
      /\ top = frames[n]
      /\ \A i \in 1 .. n : PairedAt(at, r, counts, frames, i)
  BY <1>0, <1>2 DEF Paired
<1>4. n \in Nat /\ n > 0 /\ n \in 1 .. n
  BY <1>2, <1>3
<1>5. /\ block \in Block /\ Last(at.blocks) = block /\ block.kind \in Blocks
  <2>1. n \in 1 .. Len(at.blocks)
    BY <1>3, <1>4
  <2>2. block \in Block
    BY <2>1, <1>2, ElementOfSeq
  <2> QED
    BY <2>2, <1>3 DEF Last, Block
<1>10. m = IF n = 1 THEN 1 ELSE frames[n - 1]
  BY DEF Below
<1> HIDE DEF n, top, at, m
<1>6. /\ top \in 2 .. top /\ r.blocks[top].kind = block.kind
      /\ block.kind = "for" =>
           /\ top = m + 2 /\ r.blocks[top - 1].kind = "control"
           /\ block.outer = Size(counts, r.blocks[top - 1].declarations)
      /\ block.kind # "for" =>
           top = m + 1 /\ block.outer = Size(counts, r.blocks[top].declarations)
  <2>1. PairedAt(at, r, counts, frames, n)
    BY <1>3, <1>4
  <2> QED
    BY <2>1, <1>3, <1>10 DEF PairedAt, n, top
<1>7. m \in Nat /\ m > 0 /\ r.blocks[m].kind # "control"
  <2>1. CASE n = 1
    <3>1. m = 1
      BY <2>1, <1>10
    <3> QED
      BY <3>1, <1>0 DEF Stacked
  <2>2. CASE n # 1
    <3>0. n - 1 \in 1 .. n
      BY <2>2, <1>4
    <3>1. n - 1 \in 1 .. n /\ n - 1 \in 1 .. Len(at.blocks)
      BY <3>0, <1>3
    <3>2. m = frames[n - 1] /\ PairedAt(at, r, counts, frames, n - 1)
      BY <3>1, <2>2, <1>3, <1>10
    <3>3. m \in 2 .. Len(r.blocks) /\ r.blocks[m].kind = at.blocks[n - 1].kind
      BY <3>2 DEF PairedAt
    <3>4. at.blocks[n - 1] \in Block
      BY <3>1, <1>2, ElementOfSeq
    <3>5. at.blocks[n - 1].kind # "control"
      BY <3>4, BlocksAssumption DEF Block
    <3> QED
      BY <3>3, <3>5, <1>1 DEF top
  <2> QED
    BY <2>1, <2>2
<1> HIDE DEF block
<1>8. /\ m \in 1 .. top - 1
      /\ m = top - (IF r.blocks[top].kind = "for" THEN 2 ELSE 1)
  BY <1>1, <1>6, <1>7
<1>9. /\ block.outer = Size(counts, r.blocks[m + 1].declarations)
      /\ \A f \in m + 1 .. top - 1 : r.blocks[f].kind = "control"
  <2>1. CASE block.kind = "for"
    <3>1. m + 1 = top - 1 /\ \A f \in m + 1 .. top - 1 : f = top - 1
      BY <2>1, <1>1, <1>6, <1>7
    <3> QED
      BY <3>1, <2>1, <1>6
  <2>2. CASE block.kind # "for"
    <3>1. m + 1 = top /\ \A f \in m + 1 .. top - 1 : FALSE
      BY <2>2, <1>1, <1>6, <1>7
    <3> QED
      BY <3>1, <2>2, <1>6
  <2> QED
    BY <2>1, <2>2
<1> QED
  BY <1>2, <1>3, <1>4, <1>5, <1>6, <1>7, <1>8, <1>9 DEF Innermost, n, top, at, block, m

(* The end of a block takes its frame away, or its two.                    *)
LEMMA FewerBlocks ==
  ASSUME NEW h, NEW b, NEW r, NEW counts, NEW frames, Resolved(h, b, r, counts, frames),
         frames # <<>>,
         NEW s, NEW p, Walks(h, b, s, p), NEW q, NEW m, Leaves(h, b, r, frames, s, p, q, m)
  PROVE  Resolved(Longer(h, b, p), Append(b, s), q,
                  SubSeq(counts, 1, q.declarations), Front(frames))
<1> DEFINE n == Len(b)
           b2 == Append(b, s)
           h2 == Longer(h, b, p)
           top == Len(r.blocks)
           frame == r.blocks[top]
           at == h[n]
           d == q.declarations
           more == SubSeq(counts, 1, d)
           fewer == Front(frames)
           k == Len(frames)
           outer == Last(at.blocks).outer
<1>0. /\ Way(h, b) /\ Tails(h, b) /\ Sent(h, b, r.jumps) /\ Stacked(r)
      /\ Counted(at, r, counts) /\ Paired(at, r, counts, frames)
      /\ LabelsHold(h, b, r, counts) /\ GotosHold(h, b, r, counts) /\ GotosOnce(b, r)
  BY DEF Resolved
<1>1. /\ n \in Nat /\ Len(b2) = n + 1
      /\ \A i \in 1 .. n : b2[i] = b[i]
      /\ b2[n + 1] = s
      /\ \A i \in 0 .. n : h2[i] = h[i]
      /\ h2[n + 1] = p
  <2>1. b \in Seq(Statements) /\ h \in [0 .. n -> Point] /\ s \in Statements /\ p \in Point
    BY <1>0 DEF Way, Walks
  <2> QED
    BY <2>1, LongerIs
<1>2. /\ Way(h2, b2) /\ Tails(h2, b2)
      /\ \A g, l \in 1 .. n : Reaches(h, b, g, l) => Reaches(h2, b2, g, l)
      /\ \A l \in 1 .. n : AliveAt(h2, b2, l) = AliveAt(h, b, l)
  BY <1>0, WalkOn
<1>3. /\ s.kind = "end" /\ at.blocks # <<>> /\ p.blocks = Front(at.blocks)
      /\ p.locals = SubSeq(at.locals, 1, outer)
      /\ ResolverType(b2, q) /\ Sent(h, b, q.jumps) /\ q.jumps = r.jumps \cup Jumps(frame)
      /\ m = IF k = 1 THEN 1 ELSE frames[k - 1]
      /\ m \in 1 .. top - 1 /\ Len(q.blocks) = m
      /\ r.blocks[m].kind # "control"
      /\ \A f \in m + 1 .. top - 1 : r.blocks[f].kind = "control"
      /\ d = r.blocks[m + 1].declarations /\ outer \in Nat
      /\ \A f \in 1 .. m :
           /\ q.blocks[f].kind = r.blocks[f].kind
           /\ q.blocks[f].declarations = r.blocks[f].declarations
           /\ q.blocks[f].labels = r.blocks[f].labels
           /\ f # m => q.blocks[f].gotos = r.blocks[f].gotos
      /\ q.blocks[m].gotos = r.blocks[m].gotos \cup {Escaped(g, d) : g \in Unresolved(frame)}
  BY DEF Leaves, Below
<1>4. /\ top \in Nat /\ top > 1 /\ m \in Nat /\ m > 0 /\ m < top /\ m + 1 \in 1 .. top
      /\ r.declarations \in Nat /\ d \in 0 .. r.declarations /\ d \in Nat
      /\ \A f \in 1 .. m : f \in 1 .. top /\ f + 1 \in 1 .. top
      /\ \A f \in 1 .. top : r.blocks[f] \in FrameSet /\ r.blocks[f].declarations \in 0 .. r.declarations
      /\ \A f \in 1 .. m : r.blocks[f].declarations \in Nat /\ r.blocks[f].declarations <= d
      /\ \A f \in 1 .. m : r.blocks[f + 1].declarations \in Nat /\ r.blocks[f + 1].declarations <= d
  <2>1. /\ top \in Nat /\ r.declarations \in Nat
        /\ \A f \in 1 .. top : r.blocks[f] \in FrameSet /\ r.blocks[f].declarations \in 0 .. r.declarations
    BY CountsAre
  <2> HIDE DEF top
  <2>2. /\ top > 1 /\ m \in Nat /\ m > 0 /\ m < top /\ m + 1 \in 1 .. top
        /\ \A f \in 1 .. m : f \in 1 .. top /\ f + 1 \in 1 .. top
                             /\ m + 1 \in f .. top /\ m + 1 \in f + 1 .. top
    <3>1. m \in 1 .. top - 1
      BY <1>3
    <3> QED
      BY <3>1, <2>1
  <2>3. d \in 0 .. r.declarations /\ d \in Nat
    <3>1. r.blocks[m + 1].declarations \in 0 .. r.declarations
      BY <2>1, <2>2
    <3>2. d = r.blocks[m + 1].declarations
      BY <1>3
    <3>3. d \in 0 .. r.declarations
      BY <3>1, <3>2
    <3> HIDE DEF d
    <3> QED
      BY <3>3, <2>1
  <2>4. \A f \in 1 .. top : \A e \in f .. top : r.blocks[f].declarations <= r.blocks[e].declarations
    BY <1>0 DEF Stacked, top
  <2>5. \A f \in 1 .. m : r.blocks[f].declarations <= d /\ r.blocks[f + 1].declarations <= d
    BY <2>2, <2>4, <1>3
  <2>6. \A f \in 1 .. m : r.blocks[f].declarations \in Nat /\ r.blocks[f + 1].declarations \in Nat
    BY <2>1, <2>2
  <2> QED
    BY <2>1, <2>2, <2>3, <2>5, <2>6
<1>5. /\ k \in Nat /\ k > 0 /\ frames[k] = top
      /\ at.blocks \in Seq(Block) /\ outer = Size(counts, d)
      /\ \A e \in 0 .. r.declarations : Size(counts, e) \in 0 .. Len(at.locals)
      /\ \A e, f \in 0 .. r.declarations : e <= f => Size(counts, e) <= Size(counts, f)
      /\ at.locals \in Seq(Bound) /\ Len(at.locals) \in Nat
  <2>1. n \in 0 .. n
    BY <1>1
  <2>2. at.locals \in Seq(Bound) /\ Len(at.locals) \in Nat
    BY <2>1, <1>0, PointsAre
  <2>3. /\ \A e \in 0 .. r.declarations : Size(counts, e) \in 0 .. Len(at.locals)
        /\ \A e, f \in 0 .. r.declarations : e <= f => Size(counts, e) <= Size(counts, f)
    BY CountsAre
  <2>4. /\ k \in Nat /\ k > 0 /\ frames[k] = top /\ at.blocks \in Seq(Block)
        /\ Last(at.blocks).outer = Size(counts, r.blocks[m + 1].declarations)
    <3>1. m = Below(frames) /\ frames # <<>>
      BY DEF Leaves
    <3>2. Innermost(h[Len(b)], r, counts, frames)
      BY <3>1, InnermostPair
    <3> HIDE DEF at, top, k
    <3>3. Innermost(at, r, counts, frames)
      BY <3>2 DEF at
    <3>4. /\ Len(frames) \in Nat /\ Len(frames) > 0 /\ frames[Len(frames)] = Len(r.blocks)
          /\ at.blocks \in Seq(Block)
          /\ Last(at.blocks).outer = Size(counts, r.blocks[Below(frames) + 1].declarations)
      BY <3>3 DEF Innermost
    <3> QED
      BY <3>1, <3>4 DEF at, top, k
  <2> QED
    BY <2>2, <2>3, <2>4, <1>3
<1> HIDE DEF h2, b2, top, at, d, outer
<1>6. /\ Len(p.locals) = outer
      /\ \A e \in 0 .. d : Size(counts, e) \in 0 .. outer
      /\ \A i \in 1 .. outer : p.locals[i] = at.locals[i]
  <2>1. outer \in Nat /\ outer <= Len(at.locals)
    BY <1>4, <1>5
  <2>2. /\ Len(p.locals) = outer
        /\ \A i \in 1 .. outer : p.locals[i] = at.locals[i]
    <3>1. outer \in Int /\ \A i \in 1 .. outer : at.locals[i] \in Bound
      <4>1. \A i \in 1 .. outer : i \in 1 .. Len(at.locals)
        BY <2>1, <1>5
      <4> QED
        BY <4>1, <2>1, <1>5, ElementOfSeq
    <3>2. /\ Len(SubSeq(at.locals, 1, outer)) = IF 1 <= outer THEN outer - 1 + 1 ELSE 0
          /\ \A i \in 1 .. outer - 1 + 1 : SubSeq(at.locals, 1, outer)[i] = at.locals[1 + i - 1]
      BY <3>1, SubSeqProperties
    <3>3. \A i \in 1 .. outer : i \in 1 .. outer - 1 + 1 /\ 1 + i - 1 = i
      BY <2>1
    <3>4. Len(p.locals) = outer
      BY <3>2, <2>1, <1>3
    <3> QED
      BY <3>2, <3>3, <3>4, <1>3
  <2>3. \A e \in 0 .. d : e \in 0 .. r.declarations /\ e <= d
    BY <1>4
  <2>4. \A e \in 0 .. d : Size(counts, e) <= outer /\ Size(counts, e) \in Nat
    BY <2>3, <1>4, <1>5
  <2> QED
    BY <2>2, <2>4, <2>1
<1>7. Counted(p, q, more) /\ \A e \in 0 .. d : Size(more, e) = Size(counts, e)
  <2>1. /\ counts \in Seq(Nat) /\ Len(counts) = r.declarations
        /\ \A i \in 1 .. Len(counts), j \in 1 .. Len(counts) : i <= j => counts[i] <= counts[j]
    BY <1>0 DEF Counted
  <2>2. d \in 0 .. Len(counts) /\ q.declarations = d /\ Size(counts, d) = Len(p.locals)
    BY <2>1, <1>4, <1>5, <1>6 DEF d
  <2> QED
    BY <2>1, <2>2, CountsCut
<1> HIDE DEF more
<1>8. Stacked(q)
  <2>1. /\ q.blocks[1].declarations = 0 /\ q.blocks[1].kind = "function" /\ q.blocks # <<>>
    <3>1. 1 \in 1 .. m /\ r.blocks[1].declarations = 0 /\ r.blocks[1].kind = "function"
      BY <1>0, <1>4 DEF Stacked
    <3>2. q.blocks # <<>>
      BY <1>3, <1>4
    <3> QED
      BY <3>1, <3>2, <1>3
  <2>2. ASSUME NEW f \in 1 .. m
        PROVE  /\ q.blocks[f].declarations <= d
               /\ \A e \in f .. m : q.blocks[f].declarations <= q.blocks[e].declarations
               /\ q.blocks[f].kind = "control" => q.blocks[f].labels = {} /\ q.blocks[f].gotos = {}
    <3>1. \A e \in f .. m : e \in 1 .. m /\ e \in f .. top
      BY <1>4
    <3>2. \A e \in f .. top : r.blocks[f].declarations <= r.blocks[e].declarations
      BY <1>0, <1>4 DEF Stacked, top
    <3>3. r.blocks[f].kind = "control" => r.blocks[f].labels = {} /\ r.blocks[f].gotos = {}
      BY <1>0, <1>4 DEF Stacked, top
    <3>4. q.blocks[f].kind = "control" => f # m
      BY <1>3
    <3> QED
      BY <3>1, <3>2, <3>3, <3>4, <1>3, <1>4
  <2>3. Len(q.blocks) = m
    BY <1>3
  <2> QED
    BY <2>1, <2>2, <2>3 DEF Stacked, d

<1>9. Paired(p, q, more, fewer)
  <2>1. /\ frames \in Seq(Nat) /\ k = Len(at.blocks)
        /\ \A i, j \in 1 .. k : i < j => frames[i] < frames[j]
        /\ \A i \in 1 .. k : PairedAt(at, r, counts, frames, i)
        /\ \A f \in 2 .. top :
             r.blocks[f].kind # "control" => \E i \in 1 .. k : frames[i] = f
    BY <1>0 DEF Paired, top
  <2>2. /\ fewer \in Seq(Nat) /\ Len(fewer) = k - 1
        /\ \A i \in 1 .. k - 1 : fewer[i] = frames[i]
        /\ Len(p.blocks) = k - 1
        /\ \A i \in 1 .. k - 1 : p.blocks[i] = at.blocks[i]
    <3>1. frames # <<>> /\ at.blocks # <<>> /\ p.blocks = Front(at.blocks)
      <4>1. frames # <<>>
        BY <1>5
      <4> QED
        BY <4>1, <1>3
    <3>2. /\ Front(frames) \in Seq(Nat) /\ Len(Front(frames)) = Len(frames) - 1
          /\ \A i \in 1 .. Len(frames) - 1 : Front(frames)[i] = frames[i]
      BY <3>1, <2>1, FrontAndLast
    <3>3. /\ Len(Front(at.blocks)) = Len(at.blocks) - 1
          /\ \A i \in 1 .. Len(at.blocks) - 1 : Front(at.blocks)[i] = at.blocks[i]
      BY <3>1, <1>5, FrontAndLast
    <3> QED
      BY <3>1, <3>2, <3>3, <2>1
  <2>3. \A i \in 1 .. k - 1 : i \in 1 .. k
    BY <1>5
  <2>4. \A i \in 1 .. k - 1 : frames[i] \in 2 .. m
    <3> SUFFICES ASSUME NEW i \in 1 .. k - 1
                 PROVE  frames[i] \in 2 .. m
      OBVIOUS
    <3>1. frames[i] \in 2 .. top
      BY <2>1, <2>3 DEF PairedAt, top
    <3>2. k # 1 /\ k - 1 \in 1 .. k
      BY <1>5
    <3>3. i = k - 1 \/ i < k - 1
      BY <1>5
    <3>4. m = frames[k - 1]
      BY <3>2, <1>3
    <3>5. frames[i] <= m
      <4>1. CASE i = k - 1
        BY <4>1, <3>4, <1>4
      <4>2. CASE i < k - 1
        <5>1. frames[i] < frames[k - 1]
          BY <4>2, <3>2, <2>1, <2>3
        <5> QED
          BY <5>1, <3>1, <3>4, <1>4
      <4> QED
        BY <3>3, <4>1, <4>2
    <3> QED
      BY <3>1, <3>5, <1>4
  <2> HIDE DEF fewer, k
  <2>5. ASSUME NEW i \in 1 .. k - 1
        PROVE  PairedAt(p, q, more, fewer, i)
    <3>1. frames[i] \in 2 .. m /\ i \in 1 .. k
      BY <2>3, <2>4
    <3>2. /\ Len(q.blocks) \in Nat /\ frames[i] <= Len(q.blocks) /\ Len(r.blocks) \in Nat
          /\ \A f \in 1 .. frames[i] : f \in 1 .. m
          /\ frames[i] \in 1 .. m
      BY <3>1, <1>3, <1>4 DEF top
    <3>3. \A f \in 1 .. frames[i] : /\ q.blocks[f].kind = r.blocks[f].kind
                                   /\ q.blocks[f].declarations = r.blocks[f].declarations
                                   /\ r.blocks[f].declarations \in Nat
      BY <3>2, <1>3, <1>4
    <3>4. \A e \in 0 .. r.blocks[frames[i]].declarations : Size(more, e) = Size(counts, e)
      <4>1. r.blocks[frames[i]].declarations \in Nat /\ r.blocks[frames[i]].declarations <= d
        BY <3>2, <1>4
      <4>2. \A e \in 0 .. r.blocks[frames[i]].declarations : e \in 0 .. d
        BY <4>1, <1>4
      <4> QED
        BY <4>2, <1>7
    <3>5. /\ fewer[i] = frames[i] /\ p.blocks[i] = at.blocks[i] /\ i \in 1 .. Len(frames)
          /\ i > 1 => fewer[i - 1] = frames[i - 1]
          /\ PairedAt(at, r, counts, frames, i) /\ frames \in Seq(Nat)
      <4>1. i > 1 => i - 1 \in 1 .. k - 1
        BY <1>5
      <4> QED
        BY <4>1, <3>1, <2>1, <2>2 DEF k
    <3> QED
      BY <3>2, <3>3, <3>4, <3>5, PairStays, SMTT(30)
  <2>6. ASSUME NEW i \in 1 .. k - 1, NEW j \in 1 .. k - 1, i < j
        PROVE  fewer[i] < fewer[j]
    BY <2>1, <2>2, <2>3, <2>6
  <2>7. ASSUME NEW f \in 2 .. m, q.blocks[f].kind # "control"
        PROVE  \E i \in 1 .. k - 1 : fewer[i] = f
    <3>1. f \in 2 .. top /\ f \in 1 .. m /\ f # top
      BY <1>4
    <3>2. PICK i \in 1 .. k : frames[i] = f
      BY <3>1, <2>1, <2>7, <1>3
    <3>3. i # k
      BY <3>1, <3>2, <1>5
    <3>4. i \in 1 .. k - 1
      BY <3>3, <1>5
    <3> QED
      BY <3>2, <3>4, <2>2
  <2>8. m = IF fewer = <<>> THEN 1 ELSE fewer[k - 1]
    <3>1. fewer = <<>> <=> k = 1
      BY <2>2, <1>5
    <3>2. k # 1 => fewer[k - 1] = frames[k - 1]
      <4>1. k # 1 => k - 1 \in 1 .. k - 1
        BY <1>5
      <4> QED
        BY <4>1, <2>2
    <3> QED
      BY <3>1, <3>2, <1>3 DEF k
  <2> QED
    BY <2>2, <2>5, <2>6, <2>7, <2>8, <1>3 DEF Paired
<1> HIDE DEF fewer, k, frame
<1>10. ASSUME NEW x \in 1 .. n, NEW e \in 0 .. d,
              Agree(h[x - 1].locals, at.locals, Size(counts, e))
       PROVE  Agree(h2[x - 1].locals, h2[n + 1].locals, Size(more, e))
  <2>1. x - 1 \in 0 .. n
    BY <1>1
  <2>2. h2[x - 1] = h[x - 1] /\ h2[n + 1] = p /\ Size(more, e) = Size(counts, e)
    BY <2>1, <1>1, <1>7
  <2> DEFINE z == Size(counts, e)
  <2>3. z \in 0 .. outer /\ outer \in Nat
    BY <1>3, <1>6
  <2>4. /\ z <= Len(h[x - 1].locals) /\ z <= Len(at.locals)
        /\ \A i \in 1 .. z : h[x - 1].locals[i] = at.locals[i]
    BY <1>10 DEF Agree
  <2> HIDE DEF z
  <2>5. z <= Len(p.locals) /\ \A i \in 1 .. z : i \in 1 .. outer
    BY <2>3, <1>6
  <2>6. \A i \in 1 .. z : p.locals[i] = at.locals[i]
    BY <2>5, <1>6
  <2>7. Agree(h[x - 1].locals, p.locals, z)
    BY <2>4, <2>5, <2>6 DEF Agree
  <2> QED
    BY <2>2, <2>7 DEF z
<1>11. \A f \in 1 .. m : Ceiling(q, f) = Ceiling(r, f) /\ Ceiling(q, f) \in 0 .. d
  <2> SUFFICES ASSUME NEW f \in 1 .. m
               PROVE  Ceiling(q, f) = Ceiling(r, f) /\ Ceiling(q, f) \in 0 .. d
    OBVIOUS
  <2>1. Ceiling(r, f) = r.blocks[f + 1].declarations
    <3>1. f # Len(r.blocks)
      BY <1>4 DEF top
    <3> QED
      BY <3>1 DEF Ceiling
  <2>2. Ceiling(q, f) = r.blocks[f + 1].declarations
    <3>1. CASE f = m
      BY <3>1, <1>3 DEF Ceiling, d
    <3>2. CASE f # m
      <4>1. f + 1 \in 1 .. m
        BY <3>2, <1>4
      <4> QED
        BY <4>1, <3>2, <1>3 DEF Ceiling
    <3> QED
      BY <3>1, <3>2
  <2>3. r.blocks[f + 1].declarations \in 0 .. d
    BY <1>4
  <2> QED
    BY <2>1, <2>2, <2>3
<1>12. LabelsHold(h2, b2, q, more)
  <2> SUFFICES ASSUME NEW f \in 1 .. m
               PROVE  /\ \A l \in q.blocks[f].labels : LabelAt(h2, b2, q, more, f, l)
                      /\ \A l, x \in q.blocks[f].labels : l.name = x.name => l = x
    BY <1>3 DEF LabelsHold
  <2>0. f \in 1 .. top /\ f # top
    BY <1>4
  <2>1. f \in 1 .. top /\ f # top /\ q.blocks[f].labels = r.blocks[f].labels
    BY <2>0, <1>3
  <2>2. ASSUME NEW l \in r.blocks[f].labels
        PROVE  LabelAt(h2, b2, q, more, f, l)
    <3>1. LabelAt(h, b, r, counts, f, l)
      BY <2>1, <1>0 DEF LabelsHold, top
    <3>2. l.declarations \in Nat
      BY <2>1, <1>4 DEF FrameSet, LabelSet
    <3>3. /\ l.stat \in 1 .. n /\ b[l.stat].kind = "label" /\ l.declarations <= Ceiling(r, f)
          /\ Agree(h[l.stat - 1].locals, at.locals, Size(counts, l.declarations))
          /\ AliveAt(h, b, l.stat) <= Size(counts, l.declarations)
          /\ ~b[l.stat].tail
      BY <3>1, <2>1 DEF LabelAt, top, at
    <3>4. l.declarations \in 0 .. d /\ l.declarations <= Ceiling(q, f)
      BY <3>2, <3>3, <1>4, <1>11
    <3>5. Agree(h2[l.stat - 1].locals, h2[n + 1].locals, Size(more, l.declarations))
      BY <3>3, <3>4, <1>10
    <3>6. AliveAt(h2, b2, l.stat) <= Size(more, l.declarations)
      BY <3>3, <3>4, <1>2, <1>7
    <3>7. b2[l.stat] = b[l.stat] /\ l.stat \in 1 .. n + 1
      BY <3>3, <1>1
    <3> QED
      BY <3>3, <3>4, <3>5, <3>6, <3>7, <1>1 DEF LabelAt
  <2>3. \A l, x \in r.blocks[f].labels : l.name = x.name => l = x
    BY <2>1, <1>0 DEF LabelsHold, top
  <2> QED
    BY <2>1, <2>2, <2>3
<1>13. ASSUME NEW f \in 1 .. m, NEW g \in q.blocks[f].gotos
       PROVE  \E e \in 1 .. top : \E u \in r.blocks[e].gotos :
                /\ g.stat = u.stat
                /\ \/ e = f /\ g = u
                   \/ e = top /\ f = m /\ u \in Unresolved(frame) /\ g = Escaped(u, d)
  <2>1. CASE g \in r.blocks[f].gotos
    <3>1. f \in 1 .. top
      BY <1>4
    <3> QED
      BY <2>1, <3>1
  <2>2. CASE g \notin r.blocks[f].gotos
    <3>1. f = m /\ g \in {Escaped(u, d) : u \in Unresolved(frame)}
      BY <2>2, <1>3
    <3>2. PICK u \in Unresolved(frame) : g = Escaped(u, d)
      BY <3>1
    <3>3. u \in r.blocks[top].gotos /\ top \in 1 .. top
      BY <1>4 DEF Unresolved, frame
    <3>4. u \in GotoSet
      BY <3>3, <1>4 DEF FrameSet
    <3>5. g.stat = u.stat
      BY <3>2, <3>4 DEF Escaped, GotoSet
    <3> QED
      BY <3>1, <3>2, <3>3, <3>5
  <2> QED
    BY <2>1, <2>2
<1>14. ASSUME NEW e \in 1 .. top, NEW u \in r.blocks[e].gotos
       PROVE  /\ GotoAt(h, b, r, counts, e, u) /\ u \in GotoSet /\ u.declarations \in Nat
              /\ \A j \in r.jumps : j[1] # u.stat
              /\ \A x \in 1 .. top : \A y \in r.blocks[x].gotos :
                   y.stat = u.stat => y = u /\ x = e
  BY <1>0, <1>4 DEF GotosHold, GotosOnce, FrameSet, GotoSet, top
<1>15. GotosHold(h2, b2, q, more)
  <2> SUFFICES ASSUME NEW f \in 1 .. m, NEW g \in q.blocks[f].gotos
               PROVE  GotoAt(h2, b2, q, more, f, g)
    BY <1>3 DEF GotosHold
  <2>1. PICK e, u :
                /\ e \in 1 .. top /\ u \in r.blocks[e].gotos
                /\ g.stat = u.stat
                /\ \/ e = f /\ g = u
                   \/ e = top /\ f = m /\ u \in Unresolved(frame) /\ g = Escaped(u, d)
    BY <1>13
  <2>2. /\ GotoAt(h, b, r, counts, e, u) /\ u.declarations \in Nat /\ u \in GotoSet
    BY <2>1, <1>14
  <2>3. /\ u.stat \in 1 .. n /\ b[u.stat].kind = "goto" /\ u.declarations <= Ceiling(r, e)
        /\ Agree(h[u.stat - 1].locals, at.locals, Size(counts, u.declarations))
    BY <2>2 DEF GotoAt, at
  <2>4. /\ g.declarations \in 0 .. d /\ g.declarations <= Ceiling(q, f)
        /\ Agree(h[u.stat - 1].locals, at.locals, Size(counts, g.declarations))
    <3>1. CASE e = f /\ g = u
      <4>1. Ceiling(r, f) \in 0 .. d /\ Ceiling(q, f) = Ceiling(r, f)
        BY <1>11
      <4> QED
        BY <4>1, <3>1, <2>2, <2>3, <1>4
    <3>2. CASE e = top /\ f = m /\ g = Escaped(u, d)
      <4>1. g.declarations = Least(u.declarations, d)
        BY <3>2, <2>2 DEF Escaped, GotoSet
      <4>2. g.declarations \in 0 .. d /\ g.declarations <= u.declarations
        BY <4>1, <2>2, <1>4 DEF Least
      <4>3. Ceiling(q, f) = d
        BY <3>2, <1>3 DEF Ceiling, d
      <4>4. Ceiling(r, e) = r.declarations
        BY <3>2 DEF Ceiling, top
      <4>5. u.declarations \in 0 .. r.declarations /\ g.declarations \in 0 .. r.declarations
        BY <4>2, <4>4, <2>2, <2>3, <1>4
      <4>6. /\ Size(counts, g.declarations) <= Size(counts, u.declarations)
            /\ Size(counts, g.declarations) \in Nat /\ Size(counts, u.declarations) \in Nat
        BY <4>2, <4>5, <1>5
      <4>7. Agree(h[u.stat - 1].locals, at.locals, Size(counts, g.declarations))
        <5>1. Len(h[u.stat - 1].locals) \in Nat
          <6>1. u.stat - 1 \in 0 .. n
            BY <2>3, <1>1
          <6> QED
            BY <6>1, <1>0, PointsAre
        <5>2. \A a, c \in Nat : \A v, w : Len(v) \in Nat /\ Len(w) \in Nat /\ a <= c /\ Agree(v, w, c)
                => Agree(v, w, a)
          BY DEF Agree
        <5> QED
          BY <5>1, <5>2, <4>6, <2>3, <1>5
      <4> QED
        BY <4>2, <4>3, <4>7
    <3> QED
      BY <2>1, <3>1, <3>2
  <2>5. Agree(h2[u.stat - 1].locals, h2[n + 1].locals, Size(more, g.declarations))
    BY <2>3, <2>4, <1>10
  <2>6. b2[u.stat] = b[u.stat] /\ u.stat \in 1 .. n + 1
    BY <2>3, <1>1
  <2> QED
    BY <2>1, <2>3, <2>4, <2>5, <2>6, <1>1 DEF GotoAt
<1>16. GotosOnce(b2, q)
  <2>1. ASSUME NEW f \in 1 .. m, NEW g \in q.blocks[f].gotos, NEW j \in q.jumps
        PROVE  j[1] # g.stat
    <3>1. PICK e, u :
                  /\ e \in 1 .. top /\ u \in r.blocks[e].gotos
                  /\ g.stat = u.stat
                  /\ \/ e = f /\ g = u
                     \/ e = top /\ f = m /\ u \in Unresolved(frame) /\ g = Escaped(u, d)
      BY <1>13
    <3>2. CASE j \in r.jumps
      BY <3>1, <3>2, <1>14
    <3>3. CASE j \in Jumps(frame)
      <4>1. PICK x \in frame.gotos, l \in frame.labels : j = <<x.stat, l.stat>> /\ x.name = l.name
        BY <3>3 DEF Jumps, Answered
      <4>2. x \in r.blocks[top].gotos /\ top \in 1 .. top
        BY <1>4, <4>1 DEF frame
      <4> SUFFICES ASSUME x.stat = u.stat
                   PROVE  FALSE
        BY <3>1, <4>1
      <4>3. x = u /\ top = e
        BY <3>1, <4>2, <1>14
      <4>4. f # top
        BY <1>4
      <4>5. u \in Unresolved(frame)
        BY <3>1, <4>3, <4>4
      <4> QED
        BY <4>1, <4>3, <4>5 DEF Unresolved
    <3> QED
      BY <3>2, <3>3, <1>3
  <2>2. ASSUME NEW f \in 1 .. m, NEW g \in q.blocks[f].gotos,
               NEW e \in 1 .. m, NEW x \in q.blocks[e].gotos, x.stat = g.stat
        PROVE  x = g /\ e = f
    <3>1. PICK a, u :
                  /\ a \in 1 .. top /\ u \in r.blocks[a].gotos
                  /\ g.stat = u.stat
                  /\ \/ a = f /\ g = u
                     \/ a = top /\ f = m /\ u \in Unresolved(frame) /\ g = Escaped(u, d)
      BY <1>13
    <3>2. PICK c, v :
                  /\ c \in 1 .. top /\ v \in r.blocks[c].gotos
                  /\ x.stat = v.stat
                  /\ \/ c = e /\ x = v
                     \/ c = top /\ e = m /\ v \in Unresolved(frame) /\ x = Escaped(v, d)
      BY <1>13
    <3>3. v = u /\ c = a
      BY <3>1, <3>2, <2>2, <1>14, ZenonT(40)
    <3>4. e # top /\ f # top
      BY <1>4
    <3> QED
      BY <3>1, <3>2, <3>3, <3>4
  <2>3. ASSUME NEW i \in 1 .. n + 1, b2[i].kind = "goto"
        PROVE  \/ \E j \in q.jumps : j[1] = i
               \/ \E f \in 1 .. m : \E g \in q.blocks[f].gotos : g.stat = i
    <3>1. i \in 1 .. n /\ b[i].kind = "goto"
      BY <2>3, <1>1, <1>3
    <3>2. CASE \E j \in r.jumps : j[1] = i
      BY <3>2, <1>3
    <3>3. CASE \E f \in 1 .. top : \E g \in r.blocks[f].gotos : g.stat = i
      <4>1. PICK f, g : f \in 1 .. top /\ g \in r.blocks[f].gotos /\ g.stat = i
        BY <3>3
      <4>2. CASE f \in 1 .. m
        <5>1. g \in q.blocks[f].gotos
          BY <4>1, <4>2, <1>3
        <5> QED
          BY <5>1, <4>1, <4>2
      <4>3. CASE f = top
        <5>1. g \in frame.gotos /\ g \in GotoSet
          BY <4>3, <4>1, <1>14 DEF frame
        <5>2. CASE g \in Unresolved(frame)
          <6>1. Escaped(g, d) \in q.blocks[m].gotos
            BY <5>2, <1>3, ZenonT(40)
          <6>2. m \in 1 .. m
            BY <1>4
          <6>3. Escaped(g, d).stat = i
            BY <5>1, <4>1 DEF Escaped, GotoSet
          <6> QED
            BY <6>1, <6>2, <6>3
        <5>3. CASE g \notin Unresolved(frame)
          <6>1. PICK l \in frame.labels : l.name = g.name
            BY <5>1, <5>3 DEF Unresolved
          <6>2. <<g, l>> \in Answered(frame) /\ <<g, l>>[1] = g /\ <<g, l>>[2] = l
            BY <5>1, <6>1 DEF Answered
          <6>3. <<g.stat, l.stat>> \in Jumps(frame)
            BY <6>2 DEF Jumps
          <6>4. <<g.stat, l.stat>> \in q.jumps /\ <<g.stat, l.stat>>[1] = i
            BY <6>3, <4>1, <1>3
          <6> QED
            BY <6>4
        <5> QED
          BY <5>2, <5>3
      <4>4. CASE f \in m + 1 .. top - 1
        <5>1. r.blocks[f].kind = "control"
          BY <4>4, <1>3
        <5>2. r.blocks[f].gotos = {}
          BY <4>1, <5>1, <1>0 DEF Stacked, top
        <5> QED
          BY <5>2, <4>1
      <4>5. f \in 1 .. m \/ f = top \/ f \in m + 1 .. top - 1
        BY <4>1, <1>4
      <4> QED
        BY <4>2, <4>3, <4>4, <4>5
    <3> QED
      BY <3>1, <3>2, <3>3, <1>0 DEF GotosOnce, top
  <2>4. Len(q.blocks) = m
    BY <1>3
  <2> QED
    BY <2>1, <2>2, <2>3, <2>4, <1>1 DEF GotosOnce
<1>17. Sent(h2, b2, q.jumps)
  <2>1. /\ q.jumps \subseteq (1 .. n) \X (1 .. n)
        /\ \A j \in q.jumps : Reaches(h, b, j[1], j[2])
        /\ \A j, y \in q.jumps : j[1] = y[1] => j[2] = y[2]
    BY <1>3 DEF Sent
  <2>2. q.jumps \subseteq (1 .. n + 1) \X (1 .. n + 1)
    <3>1. (1 .. n) \subseteq (1 .. n + 1)
      BY <1>1
    <3> QED
      BY <3>1, <2>1
  <2>3. \A j \in q.jumps : Reaches(h2, b2, j[1], j[2])
    BY <2>1, <1>2
  <2> QED
    BY <2>1, <2>2, <2>3, <1>1 DEF Sent
<1>18. Counted(h2[Len(b2)], q, more) /\ Paired(h2[Len(b2)], q, more, fewer)
  BY <1>1, <1>7, <1>9
<1>19. Resolved(h2, b2, q, more, fewer)
  BY <1>2, <1>3, <1>8, <1>12, <1>15, <1>16, <1>17, <1>18 DEF Resolved
<1> QED
  BY <1>19 DEF h2, b2, more, d, fewer

(* One block less,                                                         *)
LEMMA UnwoundOne ==
  ASSUME NEW b, NEW r, NEW q, ResolverType(b, r), Len(r.blocks) \in Nat, Len(r.blocks) > 1,
         LeftBlock(b, r, q)
  PROVE  Unwound(b, r, q, Len(r.blocks) - 1)
<1> DEFINE top == Len(r.blocks)
           m == top - 1
           frame == r.blocks[top]
<1>1. /\ ResolverType(b, q) /\ q.declarations = frame.declarations
      /\ q.jumps = r.jumps \cup Jumps(frame) /\ Len(q.blocks) = m
      /\ \A f \in 1 .. top - 2 : q.blocks[f] = r.blocks[f]
      /\ q.blocks[m].kind = r.blocks[m].kind
      /\ q.blocks[m].declarations = r.blocks[m].declarations
      /\ q.blocks[m].labels = r.blocks[m].labels
      /\ q.blocks[m].gotos =
           r.blocks[m].gotos \cup {Escaped(g, frame.declarations) : g \in Unresolved(frame)}
  BY DEF LeftBlock
<1>2. m + 1 = top /\ m \in Nat /\ m > 0 /\ top - 2 = m - 1
  OBVIOUS
<1> HIDE DEF m, top, frame
<1>3. \A f \in 1 .. m : f # m => f \in 1 .. top - 2
  BY <1>2
<1>4. \A f \in 1 .. m :
           /\ q.blocks[f].kind = r.blocks[f].kind
           /\ q.blocks[f].declarations = r.blocks[f].declarations
           /\ q.blocks[f].labels = r.blocks[f].labels
           /\ f # m => q.blocks[f].gotos = r.blocks[f].gotos
  BY <1>1, <1>3
<1>5. /\ q.declarations = r.blocks[m + 1].declarations
      /\ q.blocks[m].gotos =
           r.blocks[m].gotos \cup {Escaped(g, q.declarations) : g \in Unresolved(frame)}
  BY <1>1, <1>2 DEF frame
<1> QED
  BY <1>1, <1>4, <1>5 DEF Unwound, m, top, frame

(* and two, the outer of which has neither labels nor gotos.               *)
LEMMA UnwoundTwo ==
  ASSUME NEW b, NEW r, NEW mid, NEW q, ResolverType(b, r),
         Len(r.blocks) \in Nat, Len(r.blocks) > 2,
         LeftBlock(b, r, mid), LeftBlock(b, mid, q),
         r.blocks[Len(r.blocks) - 1].labels = {}, r.blocks[Len(r.blocks) - 1].gotos = {},
         r.blocks[Len(r.blocks) - 1].declarations <= r.blocks[Len(r.blocks)].declarations
  PROVE  Unwound(b, r, q, Len(r.blocks) - 2)
<1> DEFINE top == Len(r.blocks)
           m == top - 2
           frame == r.blocks[top]
           control == mid.blocks[top - 1]
           d == r.blocks[m + 1].declarations
           escaping == {Escaped(g, frame.declarations) : g \in Unresolved(frame)}
<1>0. /\ m + 1 = top - 1 /\ m \in Nat /\ m > 0 /\ m \in 1 .. top - 2
      /\ top \in 1 .. top /\ top - 1 \in 1 .. top /\ (top - 1) - 1 = m /\ (top - 1) - 2 = m - 1
  OBVIOUS
<1>1. frame \in FrameSet /\ r.blocks[top - 1] \in FrameSet
  <2>1. r.blocks \in Seq(FrameSet)
    BY DEF ResolverType
  <2> QED
    BY <2>1, <1>0, ElementOfSeq
<1>2. /\ mid.jumps = r.jumps \cup Jumps(frame) /\ Len(mid.blocks) = top - 1
      /\ \A f \in 1 .. top - 2 : mid.blocks[f] = r.blocks[f]
      /\ control.declarations = r.blocks[top - 1].declarations
      /\ control.labels = r.blocks[top - 1].labels
      /\ control.gotos = r.blocks[top - 1].gotos \cup escaping
  BY DEF LeftBlock
<1>3. LeftBlock(b, mid, q)
  OBVIOUS
<1> HIDE DEF m, top, frame, control, d, escaping
<1>4. control.labels = {} /\ control.gotos = escaping /\ control.declarations = d
  BY <1>0, <1>2 DEF m, top, d
<1>5. Unresolved(control) = escaping /\ Jumps(control) = {}
  BY <1>4 DEF Unresolved, Jumps, Answered
<1>6. /\ ResolverType(b, q) /\ q.declarations = control.declarations
      /\ q.jumps = mid.jumps \cup Jumps(control) /\ Len(q.blocks) = m
      /\ \A f \in 1 .. m - 1 : q.blocks[f] = mid.blocks[f]
      /\ q.blocks[m].kind = mid.blocks[m].kind
      /\ q.blocks[m].declarations = mid.blocks[m].declarations
      /\ q.blocks[m].labels = mid.blocks[m].labels
      /\ q.blocks[m].gotos = mid.blocks[m].gotos \cup
           {Escaped(g, control.declarations) : g \in Unresolved(control)}
  <2>1. Len(mid.blocks) - 1 = m /\ Len(mid.blocks) - 2 = m - 1
        /\ mid.blocks[Len(mid.blocks)] = control
    BY <1>0, <1>2 DEF control
  <2> QED
    BY <1>3, <2>1, ZenonT(40) DEF LeftBlock
<1>7. {Escaped(g, d) : g \in escaping} = {Escaped(g, d) : g \in Unresolved(frame)}
  <2>1. ASSUME NEW g \in Unresolved(frame)
        PROVE  Escaped(Escaped(g, frame.declarations), d) = Escaped(g, d)
    <3>1. g \in GotoSet /\ frame.declarations \in Nat /\ d \in Nat /\ d <= frame.declarations
      BY <1>0, <1>1 DEF Unresolved, FrameSet, frame, d, m, top
    <3>2. g.declarations \in Nat
      BY <3>1 DEF GotoSet
    <3>3. Least(Least(g.declarations, frame.declarations), d) = Least(g.declarations, d)
      BY <3>1, <3>2 DEF Least
    <3> QED
      BY <3>1, <3>3 DEF Escaped, GotoSet
  <2> QED
    BY <2>1 DEF escaping
<1>8. q.declarations = d /\ q.jumps = r.jumps \cup Jumps(frame)
      /\ q.blocks[m].gotos = r.blocks[m].gotos \cup {Escaped(g, d) : g \in Unresolved(frame)}
  <2>1. m \in 1 .. top - 2
    BY <1>0
  <2>2. mid.blocks[m] = r.blocks[m]
    BY <2>1, <1>2
  <2>3. q.jumps = (r.jumps \cup Jumps(frame)) \cup {}
    BY <1>2, <1>5, <1>6
  <2> QED
    BY <2>2, <2>3, <1>4, <1>5, <1>6, <1>7, ZenonT(40)
<1>9. \A f \in 1 .. m :
           /\ q.blocks[f].kind = r.blocks[f].kind
           /\ q.blocks[f].declarations = r.blocks[f].declarations
           /\ q.blocks[f].labels = r.blocks[f].labels
           /\ f # m => q.blocks[f].gotos = r.blocks[f].gotos
  <2>1. \A f \in 1 .. m : f \in 1 .. top - 2 /\ (f # m => f \in 1 .. m - 1)
    BY <1>0 DEF m
  <2> QED
    BY <2>1, <1>2, <1>6, ZenonT(40)
<1>10. /\ ResolverType(b, q) /\ q.jumps = r.jumps \cup Jumps(frame)
       /\ Len(q.blocks) = m /\ q.declarations = d
  BY <1>6, <1>8
<1>11. q.blocks[m].gotos =
         r.blocks[m].gotos \cup {Escaped(g, q.declarations) : g \in Unresolved(frame)}
  BY <1>8, <1>10
<1> QED
  BY <1>9, <1>10, <1>11 DEF Unwound, m, top, frame, d

(* The end of a block that is open has room in the body.                   *)
LEMMA EndFits ==
  ASSUME Written, NEW s \in Statements, Write(s), s.kind = "end", Len(resolver.blocks) \in Nat,
         Len(resolver.blocks) > 1, resolver.blocks[Len(resolver.blocks)].kind # "control"
  PROVE  Len(body') <= MaxStatements
<1> DEFINE S == {b \in 2 .. Len(resolver.blocks) : resolver.blocks[b].kind # "control"}
           open == Cardinality(S)
<1>1. Len(body) + open < MaxStatements + 1 /\ body' = Append(body, s)
  BY DEF Write
<1>2. IsFiniteSet(S) /\ Len(resolver.blocks) \in S
  <2>1. IsFiniteSet(2 .. Len(resolver.blocks))
    BY FS_Interval
  <2> QED
    BY <2>1, FS_Subset
<1> HIDE DEF S
<1>3. open \in Nat /\ open # 0
  BY <1>2, FS_CardinalityType, FS_EmptySet
<1> HIDE DEF open
<1>4. body \in Seq(Statements) /\ Len(body) \in Nat /\ MaxStatements \in Nat
  BY BoundsAssumption DEF Written
<1>5. Len(body') = Len(body) + 1
  BY <1>1, <1>4
<1> QED
  BY <1>1, <1>3, <1>4, <1>5

(* The end of a block.                                                     *)
LEMMA EndIInv ==
  ASSUME NEW h, NEW counts, NEW frames, Resolved(h, body, resolver, counts, frames),
         Written, lowerer = Unstarted, scopes = <<>>, End
  PROVE  IInv'
<1> DEFINE s == [kind |-> "end"]
           n == Len(body)
           r == resolver
           top == Len(resolver.blocks)
           at == h[n]
           block == Last(at.blocks)
           outer == block.outer
           p == [locals |-> SubSeq(at.locals, 1, outer), blocks |-> Front(at.blocks)]
           m == Below(frames)
<1>1. /\ s \in Statements /\ s.kind = "end" /\ Write(s) /\ top > 1
      /\ IF IntoScope(Here)
         THEN phase' = "refused" /\ UNCHANGED resolver
         ELSE /\ Skips(Here) => SkipsToTail
              /\ resolver' = IF Here.kind = "for" THEN LeaveBlock(LeaveBlock(resolver))
                             ELSE LeaveBlock(resolver)
              /\ phase' = phase
  BY DEF End, Statements
<1> HIDE DEF s
<1>2. /\ phase = "resolve" /\ body' = Append(body, s) /\ UNCHANGED <<lowerer, scopes>>
      /\ body \in Seq(Statements) /\ body' \in Seq(Statements) /\ Len(body') = n + 1 /\ n \in Nat
  BY <1>1, WriteIs DEF Written
<1>3. /\ top \in Nat /\ Here = r.blocks[top] /\ Here.kind # "control"
      /\ at.blocks # <<>> /\ frames # <<>>
      /\ \A f \in 1 .. top : r.blocks[f] \in FrameSet
  <2>1. top \in Nat /\ \A f \in 1 .. top : r.blocks[f] \in FrameSet
    BY CountsAre
  <2>2. /\ Last(r.blocks) = r.blocks[top] /\ Last(r.blocks).kind # "control"
        /\ top > 1 => at.blocks # <<>> /\ frames # <<>>
    BY InnermostIs
  <2> QED
    BY <2>1, <2>2, <1>1 DEF Here
<1>4. Len(body') <= MaxStatements
  BY <1>1, <1>3, EndFits
<1>5. CASE IntoScope(Here)
  <2>1. Len(body) <= Len(body')
    BY <1>2
  <2>2. phase' = "refused" /\ UNCHANGED resolver
    BY <1>1, <1>5
  <2> QED
    BY <2>1, <2>2, <1>2, <1>4, RefuseStep
<1>6. CASE ~IntoScope(Here)
  <2>1. Sent(h, body, resolver.jumps \cup Jumps(Here))
    BY <1>1, <1>6, JumpsSent
  <2>2. /\ Way(h, body) /\ Stacked(r) /\ ResolverType(body, r)
    BY DEF Resolved
  <2>3. /\ at \in Point /\ at.locals \in Seq(Bound) /\ at.blocks \in Seq(Block)
        /\ Len(at.locals) \in Nat /\ Nested(at)
    <3>1. n \in 0 .. n
      BY <1>2
    <3> QED
      BY <3>1, <2>2, PointsAre
  <2>4. Innermost(at, r, counts, frames)
    BY <1>3, InnermostPair
  <2> HIDE DEF at, n, top, m
  <2>5. /\ block \in Block /\ outer \in Nat /\ outer <= Len(at.locals)
    <3>1. block \in Block /\ block = at.blocks[Len(at.blocks)]
          /\ Len(at.blocks) \in 1 .. Len(at.blocks)
      BY <2>3, <1>3 DEF Last
    <3>2. /\ block.depth <= Len(at.locals)
          /\ block.depth = IF block.kind = "for" THEN block.outer + 3 ELSE block.outer
      BY <3>1, <2>3 DEF Nested, NestedBlock
    <3>3. outer \in Nat /\ block.depth \in Nat
      BY <3>1 DEF Block
    <3> HIDE DEF block
    <3> QED
      BY <3>1, <3>2, <3>3, <2>3
  <2> HIDE DEF block
  <2>6. p \in Point
    <3>1. \A i \in 1 .. outer : at.locals[i] \in Bound
      <4>1. \A i \in 1 .. outer : i \in 1 .. Len(at.locals)
        BY <2>3, <2>5
      <4> QED
        BY <4>1, <2>3, ElementOfSeq
    <3>2. SubSeq(at.locals, 1, outer) \in Seq(Bound)
      <4> DEFINE z == outer
      <4>1. z \in Int
        BY <2>5
      <4>2. \A i \in 1 .. z : at.locals[i] \in Bound
        BY <3>1
      <4> HIDE DEF z
      <4>3. SubSeq(at.locals, 1, z) \in Seq(Bound)
        BY <4>1, <4>2, SubSeqProperties
      <4> QED
        BY <4>3 DEF z
    <3>3. Front(at.blocks) \in Seq(Block)
      BY <1>3, <2>3, FrontAndLast
    <3> QED
      BY <3>2, <3>3 DEF Point
  <2>7. p.locals = SubSeq(at.locals, 1, outer) /\ p.blocks = Front(at.blocks)
    OBVIOUS
  <2> HIDE DEF p
  <2>8. Walks(h, body, s, p)
    <3>1. Follows(at, p, s, n + 1)
      BY <1>1, <1>3, <2>7, BlocksAssumption DEF Follows, block
    <3> QED
      BY <3>1, <1>1, <1>2, <2>6, TailGoesOn DEF at, n
  <2>9. /\ m \in 1 .. top - 1 /\ m \in Nat /\ m < top
        /\ m = top - (IF Here.kind = "for" THEN 2 ELSE 1)
        /\ r.blocks[m].kind # "control"
        /\ \A f \in m + 1 .. top - 1 : r.blocks[f].kind = "control"
        /\ outer = Size(counts, r.blocks[m + 1].declarations)
    <3>1. /\ m \in 1 .. top - 1
          /\ m = top - (IF r.blocks[top].kind = "for" THEN 2 ELSE 1)
          /\ r.blocks[m].kind # "control"
          /\ \A f \in m + 1 .. top - 1 : r.blocks[f].kind = "control"
          /\ outer = Size(counts, r.blocks[m + 1].declarations)
      BY <2>4 DEF Innermost, m, top, block
    <3> QED
      BY <3>1, <1>3
  <2>10. \A f \in 1 .. top : /\ r.blocks[f].declarations <= r.declarations
                             /\ \A e \in f .. top : r.blocks[f].declarations <= r.blocks[e].declarations
                             /\ r.blocks[f].kind = "control" =>
                                  r.blocks[f].labels = {} /\ r.blocks[f].gotos = {}
    BY <2>2 DEF Stacked, top
  <2>11. /\ top \in 1 .. top /\ top - 1 \in 1 .. top /\ top \in top - 1 .. top
         /\ Len(r.blocks) = top /\ Len(r.blocks) > 1
    BY <1>1, <1>3 DEF top
  <2>12. LeftBlock(body, r, LeaveBlock(r))
    <3>1. r.blocks[Len(r.blocks)].declarations <= r.declarations
      BY <2>10, <2>11
    <3> QED
      BY <3>1, <2>2, <2>11, <1>2, LeaveIs DEF n
  <2>13. Unwound(body, r, resolver', m)
    <3>1. CASE Here.kind # "for"
      <4>1. resolver' = LeaveBlock(r) /\ m = top - 1
        BY <3>1, <2>9, <1>1, <1>6
      <4>2. Unwound(body, r, LeaveBlock(r), Len(r.blocks) - 1)
        BY <2>2, <2>11, <2>12, <1>3, UnwoundOne
      <4> QED
        BY <4>1, <4>2 DEF top
    <3>2. CASE Here.kind = "for"
      <4> DEFINE mid == LeaveBlock(r)
      <4>1. resolver' = LeaveBlock(mid) /\ m = top - 2
        BY <3>2, <2>9, <1>1, <1>6
      <4>2. LeftBlock(body, r, mid)
        BY <2>12
      <4> HIDE DEF mid
      <4>3. /\ top > 2 /\ top - 1 \in m + 1 .. top - 1
        BY <4>1, <2>9, <1>3
      <4>4. r.blocks[top - 1].kind = "control"
        BY <4>3, <2>9
      <4>5. /\ r.blocks[top - 1].labels = {} /\ r.blocks[top - 1].gotos = {}
            /\ r.blocks[top - 1].declarations <= r.blocks[top].declarations
            /\ r.blocks[top].declarations <= r.declarations
        BY <4>4, <2>10, <2>11
      <4>6. LeftBlock(body, mid, LeaveBlock(mid))
        <5>1. /\ ResolverType(body, mid) /\ mid.declarations = r.blocks[top].declarations
              /\ Len(mid.blocks) = top - 1
              /\ mid.blocks[top - 1].declarations = r.blocks[top - 1].declarations
          BY <4>2 DEF LeftBlock, top
        <5>2. mid.blocks[Len(mid.blocks)].declarations <= mid.declarations
          BY <5>1, <4>5
        <5>3. Len(mid.blocks) > 1 /\ Len(body) \in Nat
          BY <5>1, <4>3, <1>2, <1>3 DEF n
        <5> QED
          BY <5>1, <5>2, <5>3, LeaveIs
      <4>7. Unwound(body, r, LeaveBlock(mid), Len(r.blocks) - 2)
        BY <4>2, <4>3, <4>5, <4>6, <2>2, <2>11, <1>3, UnwoundTwo
      <4> QED
        BY <4>1, <4>7 DEF top
    <3> QED
      BY <3>1, <3>2
  <2>14. Leaves(h, body, r, frames, s, p, resolver', m)
    <3>1. ResolverType(Append(body, s), resolver')
      <4>1. ResolverType(body, resolver')
        BY <2>13 DEF Unwound
      <4>2. Len(body) \in Nat /\ Len(Append(body, s)) \in Nat /\ Len(body) <= Len(Append(body, s))
        BY <1>2 DEF n
      <4> QED
        BY <4>1, <4>2, RoomStays
    <3>2. resolver'.jumps = r.jumps \cup Jumps(r.blocks[Len(r.blocks)])
      BY <2>13 DEF Unwound
    <3>3. Sent(h, body, resolver'.jumps)
      BY <3>2, <2>1, <2>11, <1>3
    <3> QED
      BY <3>1, <3>2, <3>3, <2>5, <2>7, <2>9, <2>13, <1>1, <1>3
      DEF Unwound, Leaves, at, n, top, block, m
  <2>15. \E x, c, f : Resolved(x, body', resolver', c, f)
    <3>1. Resolved(Longer(h, body, p), Append(body, s), resolver',
                   SubSeq(counts, 1, resolver'.declarations), Front(frames))
      BY <2>8, <2>14, <1>3, FewerBlocks
    <3> QED
      BY <3>1, <1>2
  <2>16. phase' = "resolve" /\ lowerer' = Unstarted /\ scopes' = <<>>
    BY <1>1, <1>2, <1>6
  <2> QED
    BY <2>15, <2>16, <1>4, ResolveStep
<1> QED
  BY <1>5, <1>6

(* The lowering of a body starts with nothing in scope.                    *)
LEMMA StartLowering ==
  ASSUME NEW h, Way(h, body'), body' # <<>>, Len(body') \in Nat, Len(body') <= MaxStatements,
         lowerer' = Unstarted, scopes' = <<>>, phase' = "lower"
  PROVE  Lowered(h)'
<1>1. /\ lowerer'.locals = <<>> /\ lowerer'.blocks = <<>> /\ lowerer'.loops = <<>>
      /\ lowerer'.depths = <<>> /\ lowerer'.pending = {} /\ lowerer'.terminated = FALSE
      /\ lowerer'.closes = [i \in 1 .. MaxStatements |-> NoClose]
  BY DEF Unstarted
<1>2. MaxStatements \in Nat /\ NoClose \in 1 .. NoClose
  BY BoundsAssumption DEF NoClose
<1>3. Len(scopes') = 0 /\ Len(body') > 0 /\ 1 .. 0 = {}
  OBVIOUS
<1>4. h[0].locals = <<>> /\ h[0].blocks = <<>>
  BY DEF Way
<1>5. lowerer' \in LowererSet
  <2>1. lowerer'.depths \in UNION {[d -> Nat] : d \in SUBSET (1 .. MaxStatements)}
    <3>1. <<>> \in [{} -> Nat]
      OBVIOUS
    <3>2. {} \in SUBSET (1 .. MaxStatements)
      OBVIOUS
    <3> QED
      BY <3>1, <3>2, <1>1
  <2>2. lowerer'.closes \in [1 .. MaxStatements -> 1 .. NoClose]
    BY <1>1, <1>2
  <2>3. /\ lowerer'.locals \in Seq(Bound) /\ lowerer'.blocks \in Seq(Block)
        /\ lowerer'.loops \in Seq(Nat) /\ lowerer'.terminated \in BOOLEAN
        /\ lowerer'.pending \in SUBSET [stat : Nat, label : Nat, captured : SUBSET Nat]
    <3>1. <<>> \in Seq(Bound) /\ <<>> \in Seq(Block) /\ <<>> \in Seq(Nat)
      OBVIOUS
    <3>2. {} \in SUBSET [stat : Nat, label : Nat, captured : SUBSET Nat]
      OBVIOUS
    <3> QED
      BY <3>1, <3>2, <1>1
  <2>4. lowerer' = [locals |-> lowerer'.locals, blocks |-> lowerer'.blocks,
                   loops |-> lowerer'.loops, depths |-> lowerer'.depths,
                   pending |-> lowerer'.pending, terminated |-> lowerer'.terminated,
                   closes |-> lowerer'.closes]
    BY DEF Unstarted
  <2> QED
    BY <2>1, <2>2, <2>3, <2>4 DEF LowererSet
<1>6. Passed(h)'
  BY <1>1, <1>3, <1>4 DEF Passed
<1>7. LoopsKept'
  <2>1. Len(<<>>) = 0 /\ 1 .. Len(<<>>) = {}
    OBVIOUS
  <2>2. LoopsTo(<<>>, Len(<<>>)) = {}
    BY <2>1 DEF LoopsTo
  <2> QED
    BY <2>1, <2>2, <1>1, FS_EmptySet DEF LoopsKept, LoopsMatch
<1>8. DepthsKnown'
  BY <1>1, <1>3 DEF DepthsKnown
<1>9. PendingWait'
  BY <1>1 DEF PendingWait
<1>10. ClosedSoFar'
  <2>1. \A s \in Len(scopes') + 1 .. Len(body') : s \in 1 .. MaxStatements
    BY <1>2, <1>3
  <2> QED
    BY <2>1, <1>1, <1>3 DEF ClosedSoFar
<1>11. scopes' \in Seq(ScopeSet)
  OBVIOUS
<1> QED
  BY <1>3, <1>5, <1>6, <1>7, <1>8, <1>9, <1>10, <1>11 DEF Lowered

(* The end of the body, where every goto has its label or it is refused.   *)
LEMMA LeaveFunctionIInv ==
  ASSUME NEW h, NEW counts, NEW frames, Resolved(h, body, resolver, counts, frames),
         Written, lowerer = Unstarted, scopes = <<>>, LeaveFunction
  PROVE  IInv'
<1> DEFINE n == Len(body)
           r == resolver
<1>1. /\ phase = "resolve" /\ body # <<>> /\ Len(r.blocks) = 1
      /\ body' = body /\ lowerer' = lowerer /\ scopes' = scopes
      /\ IF IntoScope(Here) \/ Unresolved(Here) # {}
         THEN phase' = "refused" /\ UNCHANGED resolver
         ELSE /\ Skips(Here) => SkipsToTail
              /\ phase' = "lower"
              /\ resolver' = [resolver EXCEPT !.jumps = @ \cup Jumps(Here)]
  BY DEF LeaveFunction
<1>2. /\ n \in Nat /\ body \in Seq(Statements) /\ n <= MaxStatements
      /\ r \in [declarations : Nat, blocks : Seq(FrameSet), jumps : SUBSET (Nat \X Nat)]
      /\ r.declarations <= n
  BY DEF Written, ResolverType
<1>3. CASE IntoScope(Here) \/ Unresolved(Here) # {}
  <2>1. Len(body) <= Len(body')
    BY <1>1, <1>2
  <2>2. phase' = "refused" /\ UNCHANGED resolver
    BY <1>1, <1>3
  <2> QED
    BY <2>1, <2>2, <1>1, <1>2, RefuseStep
<1>4. CASE ~(IntoScope(Here) \/ Unresolved(Here) # {})
  <2>1. /\ phase' = "lower" /\ Unresolved(Here) = {}
        /\ resolver' = [resolver EXCEPT !.jumps = r.jumps \cup Jumps(Here)]
    BY <1>1, <1>4
  <2>2. resolver'.jumps = r.jumps \cup Jumps(Here) /\ resolver'.blocks = r.blocks
        /\ resolver'.declarations = r.declarations
    BY <2>1, <1>2
  <2>3. Sent(h, body, resolver'.jumps)
    BY <2>2, <1>1, <1>4, JumpsSent
  <2>4. Way(h, body) /\ Tails(h, body) /\ GotosOnce(body, r)
    BY DEF Resolved
  <2>5. EachGotoSent(body, resolver'.jumps)
    <3> SUFFICES ASSUME NEW s \in 1 .. n, body[s].kind = "goto"
                 PROVE  \E j \in resolver'.jumps : j[1] = s
      BY DEF EachGotoSent
    <3>1. \/ \E j \in r.jumps : j[1] = s
          \/ \E f \in 1 .. Len(r.blocks) : \E g \in r.blocks[f].gotos : g.stat = s
      BY <2>4 DEF GotosOnce
    <3>2. CASE \E j \in r.jumps : j[1] = s
      BY <3>2, <2>2
    <3>3. CASE \E f \in 1 .. Len(r.blocks) : \E g \in r.blocks[f].gotos : g.stat = s
      <4>1. Here = r.blocks[1]
        BY <1>1 DEF Here, Last
      <4>2. PICK g \in Here.gotos : g.stat = s
        BY <3>3, <4>1, <1>1
      <4>3. PICK l \in Here.labels : l.name = g.name
        BY <2>1 DEF Unresolved
      <4>4. <<g, l>> \in Answered(Here) /\ <<g, l>>[1] = g /\ <<g, l>>[2] = l
        BY <4>3 DEF Answered
      <4>5. <<g.stat, l.stat>> \in Jumps(Here)
        BY <4>4 DEF Jumps
      <4>6. <<g.stat, l.stat>> \in resolver'.jumps /\ <<g.stat, l.stat>>[1] = s
        BY <4>2, <4>5, <2>2
      <4> QED
        BY <4>6
    <3> QED
      BY <3>1, <3>2, <3>3
  <2>6. resolver'.jumps \subseteq (1 .. n) \X (1 .. n)
    BY <2>3 DEF Sent
  <2>7. resolver' \in [declarations : Nat, blocks : Seq(FrameSet), jumps : SUBSET (Nat \X Nat)]
    <3>1. resolver'.jumps \in SUBSET (Nat \X Nat)
      <4>1. (1 .. n) \subseteq Nat
        BY <1>2
      <4> QED
        BY <4>1, <2>6
    <3> QED
      BY <3>1, <2>1, <2>2, <1>2
  <2>8. Written'
    BY <2>1, <2>2, <2>6, <2>7, <1>1, <1>2 DEF Written, ResolverType
  <2>9. Unstarted' = Unstarted
    BY DEF Unstarted, NoClose
  <2>10. lowerer' = Unstarted' /\ scopes' = <<>>
    BY <2>9, <1>1
  <2>11. Way(h, body') /\ body' # <<>> /\ Len(body') \in Nat /\ Len(body') <= MaxStatements
    BY <2>4, <1>1, <1>2
  <2>12. Lowered(h)'
    BY <2>1, <2>10, <2>11, <2>9, StartLowering
  <2>13. Handed(h, body', resolver'.jumps)
    BY <2>3, <2>4, <2>5, <1>1 DEF Handed
  <2> QED
    BY <2>1, <2>8, <2>12, <2>13 DEF IInv
<1> QED
  BY <1>3, <1>4

-----------------------------------------------------------------------------
(* Before the first statement nothing is in scope and nothing is counted.  *)
LEMMA InitIInv == Init => IInv
<1> SUFFICES ASSUME Init
             PROVE  IInv
  OBVIOUS
<1> DEFINE empty == [locals |-> <<>>, blocks |-> <<>>]
           h == [k \in 0 .. 0 |-> empty]
           frame == [kind |-> "function", declarations |-> 0, labels |-> {}, gotos |-> {}]
           r == resolver
<1>1. /\ body = <<>> /\ phase = "resolve" /\ scopes = <<>> /\ lowerer = Unstarted
      /\ r = [declarations |-> 0, blocks |-> <<frame>>, jumps |-> {}]
  BY DEF Init, Frame, Unstarted
<1>2. Len(body) = 0 /\ body \in Seq(Statements) /\ MaxStatements \in Nat
  BY <1>1, BoundsAssumption
<1>3. /\ 1 .. 0 = {} /\ 0 .. 0 = {0} /\ 1 .. 1 = {1} /\ 2 .. 1 = {}
  OBVIOUS
<1>4. empty \in Point /\ empty.locals = <<>> /\ empty.blocks = <<>>
  <2>1. <<>> \in Seq(Bound) /\ <<>> \in Seq(Block)
    OBVIOUS
  <2> QED
    BY <2>1 DEF Point
<1>5. frame \in FrameSet /\ frame.kind = "function" /\ frame.declarations = 0
      /\ frame.labels = {} /\ frame.gotos = {}
  BY DEF FrameSet
<1> HIDE DEF empty, frame
<1>6. h \in [0 .. 0 -> Point] /\ h[0] = empty
  BY <1>3, <1>4
<1> HIDE DEF h
<1>7. /\ r.declarations = 0 /\ r.jumps = {} /\ r.blocks = <<frame>>
      /\ Len(r.blocks) = 1 /\ r.blocks[1] = frame
      /\ r \in [declarations : Nat, blocks : Seq(FrameSet), jumps : SUBSET (Nat \X Nat)]
  <2>1. <<frame>> \in Seq(FrameSet) /\ Len(<<frame>>) = 1 /\ <<frame>>[1] = frame
    BY <1>5
  <2> QED
    BY <2>1, <1>1
<1>8. ResolverType(body, r)
  BY <1>2, <1>7 DEF ResolverType
<1>9. Way(h, body)
  <2>1. h[0] = [locals |-> <<>>, blocks |-> <<>>]
    BY <1>6 DEF empty
  <2>2. Nested(h[0]) /\ Len(h[0].locals) <= 4 * 0
    <3>1. Len(empty.blocks) = 0 /\ Len(empty.locals) = 0
      BY <1>4
    <3> QED
      BY <3>1, <1>3, <1>6 DEF Nested
  <2> QED
    BY <2>1, <2>2, <1>2, <1>3, <1>6 DEF Way
<1>10. Tails(h, body) /\ Sent(h, body, r.jumps)
  BY <1>2, <1>3, <1>7 DEF Tails, Sent
<1>11. Stacked(r)
  BY <1>3, <1>5, <1>7 DEF Stacked
<1>12. Counted(h[0], r, <<>>)
  <2>1. Len(empty.locals) = 0 /\ Len(<<>>) = 0 /\ <<>> \in Seq(Nat)
    BY <1>4
  <2>2. Size(<<>>, r.declarations) = 0
    BY <1>7 DEF Size
  <2> QED
    BY <2>1, <2>2, <1>3, <1>6, <1>7 DEF Counted
<1>13. Paired(h[0], r, <<>>, <<>>)
  <2>1. Len(empty.blocks) = 0 /\ Len(<<>>) = 0 /\ <<>> \in Seq(Nat)
    BY <1>4
  <2> QED
    BY <2>1, <1>3, <1>6, <1>7 DEF Paired
<1>14. LabelsHold(h, body, r, <<>>) /\ GotosHold(h, body, r, <<>>) /\ GotosOnce(body, r)
  BY <1>2, <1>3, <1>5, <1>7 DEF LabelsHold, GotosHold, GotosOnce
<1>15. Resolved(h, body, r, <<>>, <<>>)
  BY <1>2, <1>8, <1>9, <1>10, <1>11, <1>12, <1>13, <1>14 DEF Resolved
<1>16. Written
  BY <1>1, <1>2, <1>3, <1>7, <1>8 DEF Written
<1> QED
  BY <1>1, <1>15, <1>16 DEF IInv

(* Each step keeps the invariant.                                          *)
LEMMA NextIInv == IInv /\ [Next]_vars => IInv'
<1> SUFFICES ASSUME IInv, [Next]_vars
             PROVE  IInv'
  OBVIOUS
<1>1. CASE UNCHANGED vars
  <2>1. /\ body' = body /\ phase' = phase /\ resolver' = resolver
        /\ lowerer' = lowerer /\ scopes' = scopes
    BY <1>1 DEF vars
  <2>2. Written'
    BY <2>1 DEF IInv, Written
  <2>3. phase' \in {"resolve", "refused"} => lowerer' = Unstarted' /\ scopes' = <<>>
    BY <2>1 DEF IInv, Unstarted, NoClose
  <2>4. phase' = "resolve" =>
          \E h, counts, frames : Resolved(h, body', resolver', counts, frames)
    BY <2>1 DEF IInv
  <2>5. ASSUME phase' \in {"lower", "done"}
        PROVE  \E h : Handed(h, body', resolver'.jumps) /\ Lowered(h)'
    <3>1. PICK h : Handed(h, body, resolver.jumps) /\ Lowered(h)
      BY <2>1, <2>5 DEF IInv
    <3>2. Lowered(h)'
      <4>1. /\ lowerer \in LowererSet /\ scopes \in Seq(ScopeSet)
            /\ IF phase = "done" THEN Len(scopes) = Len(body) ELSE Len(scopes) < Len(body)
        BY <3>1 DEF Lowered
      <4>2. lowerer' \in LowererSet'
        BY <4>1, <2>1 DEF LowererSet, NoClose
      <4>3. Passed(h)'
        BY <3>1, <2>1 DEF Lowered, Passed
      <4>4. LoopsKept' /\ DepthsKnown'
        BY <3>1, <2>1 DEF Lowered, LoopsKept, DepthsKnown
      <4>5. PendingWait'
        BY <3>1, <2>1 DEF Lowered, PendingWait, Waits
      <4>6. ClosedSoFar'
        BY <3>1, <2>1 DEF Lowered, ClosedSoFar, Waits
      <4> QED
        BY <4>1, <4>2, <4>3, <4>4, <4>5, <4>6, <2>1 DEF Lowered
    <3> QED
      BY <3>1, <3>2, <2>1
  <2> QED
    BY <2>2, <2>3, <2>4, <2>5 DEF IInv
<1>2. CASE Resolving
  <2>1. phase = "resolve"
    BY <1>2 DEF Resolving, Local, Global, Open, End, Label, Goto, Break, LeaveFunction, Write
  <2>2. Written /\ lowerer = Unstarted /\ scopes = <<>>
    BY <2>1 DEF IInv
  <2>3. PICK h, counts, frames : Resolved(h, body, resolver, counts, frames)
    BY <2>1 DEF IInv
  <2>4. ASSUME NEW captured \in BOOLEAN, Local(captured)
        PROVE  IInv'
    BY <2>2, <2>3, <2>4, LocalIInv
  <2>5. CASE Global
    BY <2>2, <2>3, <2>5, GlobalIInv
  <2>6. ASSUME NEW kind \in Blocks, Open(kind)
        PROVE  IInv'
    BY <2>2, <2>3, <2>6, OpenIInv
  <2>7. CASE End
    BY <2>2, <2>3, <2>7, EndIInv
  <2>8. ASSUME NEW name \in Names, NEW tail \in BOOLEAN, Label(name, tail)
        PROVE  IInv'
    BY <2>2, <2>3, <2>8, LabelIInv
  <2>9. ASSUME NEW name \in Names, Goto(name)
        PROVE  IInv'
    BY <2>2, <2>3, <2>9, GotoIInv
  <2>10. CASE Break
    BY <2>2, <2>3, <2>10, BreakIInv
  <2>11. CASE LeaveFunction
    BY <2>2, <2>3, <2>11, LeaveFunctionIInv
  <2> QED
    BY <2>4, <2>5, <2>6, <2>7, <2>8, <2>9, <2>10, <2>11, <1>2 DEF Resolving
<1>3. CASE Lowering
  <2>1. phase = "lower"
    BY <1>3 DEF Lowering, LowerLocal, LowerGlobal, LowerOpen, LowerEnd, LowerBreak,
                LowerGoto, LowerLabel, Lower
  <2>2. PICK h : Handed(h, body, resolver.jumps) /\ Lowered(h)
    BY <2>1 DEF IInv
  <2>3. Written
    BY DEF IInv
  <2>4. CASE LowerLocal
    BY <2>2, <2>3, <2>4, LowerLocalIInv
  <2>5. CASE LowerGlobal
    BY <2>2, <2>3, <2>5, LowerGlobalIInv
  <2>6. ASSUME NEW kind \in Blocks, LowerOpen(kind)
        PROVE  IInv'
    BY <2>2, <2>3, <2>6, LowerOpenIInv
  <2>7. CASE LowerEnd
    BY <2>2, <2>3, <2>7, LowerEndIInv
  <2>8. CASE LowerBreak
    BY <2>2, <2>3, <2>8, LowerBreakIInv
  <2>9. CASE LowerGoto
    BY <2>2, <2>3, <2>9, LowerGotoIInv
  <2>10. CASE LowerLabel
    BY <2>2, <2>3, <2>10, LowerLabelIInv
  <2> QED
    BY <2>4, <2>5, <2>6, <2>7, <2>8, <2>9, <2>10, <1>3 DEF Lowering
<1> QED
  BY <1>1, <1>2, <1>3 DEF Next

(* The resolver's counts measure what the lowering will have in scope, and *)
(* the lowering walks along it.                                            *)
THEOREM IInvTheorem == Spec => []IInv
BY InitIInv, NextIInv, PTL DEF Spec

-----------------------------------------------------------------------------
(* The type invariant, the loops counted and the registers bounded.        *)
LEMMA IInvType == IInv => TypeOK
<1> SUFFICES ASSUME IInv
             PROVE  TypeOK
  OBVIOUS
<1>1. /\ Written /\ MaxStatements \in Nat /\ NoClose = 5 * MaxStatements + 1
      /\ Len(body) \in Nat /\ Len(body) <= MaxStatements
  BY BoundsAssumption DEF IInv, Written, NoClose
<1>2. /\ phase \in {"resolve", "lower", "done", "refused"}
      /\ resolver.declarations \in 0 .. MaxStatements
      /\ resolver.jumps \subseteq (1 .. Len(body)) \X (1 .. Len(body))
  BY <1>1 DEF Written, ResolverType
<1>3. /\ Len(scopes) <= Len(body)
      /\ Len(lowerer.loops) = Cardinality(LoopsTo(lowerer.blocks, Len(lowerer.blocks)))
      /\ lowerer.closes \in [1 .. MaxStatements -> 1 .. NoClose]
      /\ Len(lowerer.locals) < NoClose
  <2>1. CASE phase \in {"resolve", "refused"}
    <3>1. lowerer = Unstarted /\ scopes = <<>>
      BY <2>1 DEF IInv
    <3>2. /\ Len(scopes) = 0 /\ lowerer.loops = <<>> /\ lowerer.blocks = <<>>
          /\ lowerer.locals = <<>> /\ Len(<<>>) = 0 /\ 1 .. 0 = {}
          /\ lowerer.closes = [i \in 1 .. MaxStatements |-> NoClose]
      BY <3>1 DEF Unstarted
    <3>3. LoopsTo(lowerer.blocks, Len(lowerer.blocks)) = {}
      BY <3>2 DEF LoopsTo
    <3>4. NoClose \in 1 .. NoClose
      BY <1>1
    <3>5. Len(scopes) <= Len(body)
      BY <3>2, <1>1
    <3>6. Len(lowerer.loops) = Cardinality(LoopsTo(lowerer.blocks, Len(lowerer.blocks)))
      <4>1. Len(lowerer.loops) = 0 /\ Cardinality({}) = 0
        BY <3>2, FS_EmptySet
      <4> QED
        BY <4>1, <3>3
    <3>7. lowerer.closes \in [1 .. MaxStatements -> 1 .. NoClose]
      BY <3>2, <3>4
    <3>8. Len(lowerer.locals) < NoClose
      <4>1. Len(lowerer.locals) = 0
        BY <3>2
      <4> QED
        BY <4>1, <1>1
    <3> QED
      BY <3>5, <3>6, <3>7, <3>8
  <2>2. CASE phase \in {"lower", "done"}
    <3>1. PICK h : Handed(h, body, resolver.jumps) /\ Lowered(h)
      BY <2>2 DEF IInv
    <3>2. /\ lowerer \in LowererSet /\ Passed(h) /\ LoopsKept /\ Way(h, body)
          /\ scopes \in Seq(ScopeSet)
      BY <3>1 DEF Lowered, Handed
    <3>3. Len(scopes) \in 0 .. Len(body) /\ lowerer.locals = h[Len(scopes)].locals
      BY <3>2, <1>1 DEF Passed
    <3>4. Len(lowerer.locals) < NoClose
      BY <3>2, <3>3, <1>1, PlacesAre
    <3>5. lowerer.closes \in [1 .. MaxStatements -> 1 .. NoClose]
      BY <3>2 DEF LowererSet
    <3> QED
      BY <3>2, <3>3, <3>4, <3>5 DEF LoopsKept, LoopsMatch
  <2> QED
    BY <2>1, <2>2, <1>2
<1> QED
  BY <1>1, <1>2, <1>3 DEF TypeOK, LoopsTo

(* A body that has been lowered: its scopes are the points of the history. *)
LEMMA DoneIs ==
  ASSUME IInv, phase = "done"
  PROVE  \E h :
    /\ Way(h, body) /\ Tails(h, body) /\ Sent(h, body, resolver.jumps)
    /\ ClosedSoFar /\ PendingWait
    /\ Len(scopes) = Len(body) /\ Len(body) \in Nat /\ Len(body) <= MaxStatements
    /\ \A s \in 1 .. Len(body) :
         /\ s - 1 \in 0 .. Len(body)
         /\ scopes[s].locals = h[s - 1].locals /\ scopes[s].block = Deep(h[s - 1].blocks)
         /\ s > 1 /\ body[s - 1].kind = "label" => scopes[s].live
         /\ Len(scopes[s].locals) \in Nat /\ Len(scopes[s].locals) < NoClose
         /\ Places(scopes[s].locals) \subseteq 1 .. 5 * MaxStatements
         /\ Deep(h[s - 1].blocks) \in Nat /\ Deep(h[s - 1].blocks) <= Len(scopes[s].locals)
         /\ Alive(s) = AliveAt(h, body, s)
<1>1. PICK h : Handed(h, body, resolver.jumps) /\ Lowered(h)
  BY DEF IInv
<1>2. /\ Way(h, body) /\ Tails(h, body) /\ Sent(h, body, resolver.jumps)
      /\ ClosedSoFar /\ PendingWait /\ Passed(h) /\ Len(scopes) = Len(body)
  BY <1>1 DEF Handed, Lowered
<1>3. Len(body) \in Nat /\ Len(body) <= MaxStatements
  BY DEF IInv, Written
<1>4. ASSUME NEW s \in 1 .. Len(body)
      PROVE  /\ s - 1 \in 0 .. Len(body)
             /\ scopes[s].locals = h[s - 1].locals /\ scopes[s].block = Deep(h[s - 1].blocks)
             /\ s > 1 /\ body[s - 1].kind = "label" => scopes[s].live
             /\ Len(scopes[s].locals) \in Nat /\ Len(scopes[s].locals) < NoClose
             /\ Places(scopes[s].locals) \subseteq 1 .. 5 * MaxStatements
             /\ Deep(h[s - 1].blocks) \in Nat /\ Deep(h[s - 1].blocks) <= Len(scopes[s].locals)
             /\ Alive(s) = AliveAt(h, body, s)
  <2>1. s - 1 \in 0 .. Len(body)
    BY <1>3
  <2>2. /\ scopes[s].locals = h[s - 1].locals /\ scopes[s].block = Deep(h[s - 1].blocks)
        /\ s > 1 /\ body[s - 1].kind = "label" => scopes[s].live
    BY <1>2 DEF Passed
  <2>3. /\ Len(h[s - 1].locals) < NoClose
        /\ Places(h[s - 1].locals) \subseteq 1 .. 5 * MaxStatements
    BY <2>1, <1>2, <1>3, PlacesAre
  <2>4. /\ Len(h[s - 1].locals) \in Nat /\ Nested(h[s - 1])
        /\ h[s - 1].blocks \in Seq(Block) /\ Deep(h[s - 1].blocks) \in Nat
    BY <2>1, <1>2, PointsAre
  <2>5. Deep(h[s - 1].blocks) <= Len(h[s - 1].locals)
    <3> DEFINE blocks == h[s - 1].blocks
    <3>1. CASE blocks = <<>>
      BY <3>1, <2>4 DEF Deep
    <3>2. CASE blocks # <<>>
      <4>1. Len(blocks) \in 1 .. Len(blocks) /\ Deep(blocks) = blocks[Len(blocks)].depth
        BY <3>2, <2>4 DEF Deep, Last
      <4>2. blocks[Len(blocks)].depth <= Len(h[s - 1].locals)
        BY <4>1, <2>4 DEF Nested, NestedBlock
      <4> QED
        BY <4>1, <4>2
    <3> QED
      BY <3>1, <3>2
  <2>6. Alive(s) = AliveAt(h, body, s)
    BY <2>2 DEF Alive, AliveAt
  <2> QED
    BY <2>1, <2>2, <2>3, <2>4, <2>5, <2>6
<1> QED
  BY <1>2, <1>3, <1>4

(* What a goto notes to close, once its label has been reached.            *)
LEMMA JumpCloses ==
  ASSUME IInv, phase = "done", NEW j \in resolver.jumps
  PROVE  /\ j[1] \in 1 .. Len(body) /\ j[2] \in 1 .. Len(body)
         /\ lowerer.closes[j[1]] =
              CloseFrom(Places(scopes[j[1]].locals), Len(scopes[j[2]].locals))
         /\ \A i \in Places(scopes[j[1]].locals) :
              i > Len(scopes[j[2]].locals) => i >= lowerer.closes[j[1]]
         /\ lowerer.closes[j[1]] > Len(scopes[j[2]].locals)
         /\ lowerer.closes[j[1]] \in Nat
<1>1. PICK h :
        /\ Sent(h, body, resolver.jumps) /\ ClosedSoFar
        /\ Len(scopes) = Len(body) /\ Len(body) \in Nat
        /\ \A s \in 1 .. Len(body) :
             /\ Len(scopes[s].locals) \in Nat /\ Len(scopes[s].locals) < NoClose
             /\ Places(scopes[s].locals) \subseteq 1 .. 5 * MaxStatements
  BY DoneIs
<1>2. j[1] \in 1 .. Len(body) /\ j[2] \in 1 .. Len(body)
  BY <1>1, SentPairs
<1> DEFINE captured == Places(scopes[j[1]].locals)
           depth == Len(scopes[j[2]].locals)
<1>3. lowerer.closes[j[1]] = CloseFrom(captured, depth)
  BY <1>1, <1>2 DEF ClosedSoFar
<1>4. captured \subseteq 1 .. 5 * MaxStatements /\ depth \in Nat /\ depth < NoClose
  BY <1>1, <1>2
<1> HIDE DEF captured, depth
<1>5. /\ CloseFrom(captured, depth) \in 1 .. NoClose
      /\ \A i \in captured : i > depth => i >= CloseFrom(captured, depth)
      /\ CloseFrom(captured, depth) > depth
  BY <1>4, CloseFromIs
<1>6. CloseFrom(captured, depth) \in Nat
  BY <1>5
<1> QED
  BY <1>2, <1>3, <1>5, <1>6 DEF captured, depth

(* What is alive at a label was alive, in the same place, at each goto     *)
(* that reaches it.                                                        *)
LEMMA IInvNoJump == IInv => NoJumpIntoScope
<1> SUFFICES ASSUME IInv, phase = "done", NEW j \in resolver.jumps
             PROVE  /\ Alive(j[2]) <= Len(scopes[j[1]].locals)
                    /\ \A i \in 1 .. Alive(j[2]) :
                         scopes[j[1]].locals[i] = scopes[j[2]].locals[i]
  BY DEF NoJumpIntoScope
<1>1. PICK h :
        /\ Sent(h, body, resolver.jumps)
        /\ \A s \in 1 .. Len(body) :
             scopes[s].locals = h[s - 1].locals /\ Alive(s) = AliveAt(h, body, s)
  BY DoneIs
<1>2. /\ j[1] \in 1 .. Len(body) /\ j[2] \in 1 .. Len(body)
      /\ Reaches(h, body, j[1], j[2])
  BY <1>1, SentPairs DEF Sent
<1> QED
  BY <1>1, <1>2 DEF Reaches, Agree

(* A local alive at the label keeps its register.                          *)
LEMMA IInvGotoKeeps == IInv => GotoKeepsWhatLives
<1> SUFFICES ASSUME IInv, phase = "done", NEW j \in resolver.jumps
             PROVE  lowerer.closes[j[1]] > Alive(j[2])
  BY DEF GotoKeepsWhatLives
<1>1. PICK h :
        \A s \in 1 .. Len(body) :
          /\ scopes[s].locals = h[s - 1].locals
          /\ Len(scopes[s].locals) \in Nat
          /\ Deep(h[s - 1].blocks) \in Nat /\ Deep(h[s - 1].blocks) <= Len(scopes[s].locals)
          /\ Alive(s) = AliveAt(h, body, s)
  BY DoneIs
<1>2. /\ j[2] \in 1 .. Len(body) /\ lowerer.closes[j[1]] > Len(scopes[j[2]].locals)
      /\ lowerer.closes[j[1]] \in Nat
  BY JumpCloses
<1>3. Alive(j[2]) \in Nat /\ Alive(j[2]) <= Len(scopes[j[2]].locals)
  <2> DEFINE l == j[2]
  <2>1. /\ scopes[l].locals = h[l - 1].locals /\ Len(scopes[l].locals) \in Nat
        /\ Deep(h[l - 1].blocks) \in Nat /\ Deep(h[l - 1].blocks) <= Len(scopes[l].locals)
        /\ Alive(l) = AliveAt(h, body, l)
    BY <1>1, <1>2
  <2> HIDE DEF l
  <2> SUFFICES Alive(l) \in Nat /\ Alive(l) <= Len(scopes[l].locals)
    BY DEF l
  <2>2. CASE body[l].tail
    BY <2>1, <2>2 DEF AliveAt
  <2>3. CASE ~body[l].tail
    BY <2>1, <2>3 DEF AliveAt
  <2> QED
    BY <2>2, <2>3
<1> QED
  BY <1>1, <1>2, <1>3

(* The captured locals that die at the end of a block, or where `break`    *)
(* leaves a loop, are closed there.                                        *)
LEMMA IInvBlocksClose == IInv => BlocksCloseWhatDies
<1> SUFFICES ASSUME IInv, phase = "done"
             PROVE  BlocksCloseWhatDies
  BY DEF BlocksCloseWhatDies
<1>1. ClosedSoFar /\ Len(scopes) = Len(body)
  BY DoneIs
<1> QED
  BY <1>1 DEF ClosedSoFar, BlocksCloseWhatDies

(* Nothing waits for a label that has been passed, so nothing waits when   *)
(* all have been.                                                          *)
LEMMA IInvArrives == IInv => EveryGotoArrives
<1> SUFFICES ASSUME IInv, phase = "done", NEW p \in lowerer.pending
             PROVE  FALSE
  BY DEF EveryGotoArrives
<1>1. PendingWait /\ Len(scopes) = Len(body) /\ Len(body) \in Nat
  BY DoneIs
<1>2. p.label \in Len(body) + 1 .. Len(body)
  BY <1>1 DEF PendingWait
<1> QED
  BY <1>1, <1>2

(* A captured local that dies on the way to a label is closed by the goto, *)
(* or, if the label ends its block, at the end of that block.              *)
LEMMA IInvGotoCloses ==
  ASSUME ~SkipsToTail
  PROVE  IInv => GotoClosesWhatDies
<1> SUFFICES ASSUME IInv, phase = "done", NEW j \in resolver.jumps,
                    NEW i \in Places(scopes[j[1]].locals), i > Alive(j[2])
             PROVE  i >= lowerer.closes[j[1]] \/ i >= ClosedAtEnd(j[2])
  BY DEF GotoClosesWhatDies
<1>1. PICK h :
        /\ Way(h, body) /\ Tails(h, body) /\ Sent(h, body, resolver.jumps)
        /\ ClosedSoFar /\ Len(scopes) = Len(body) /\ Len(body) \in Nat
        /\ \A s \in 1 .. Len(body) :
             /\ scopes[s].locals = h[s - 1].locals
             /\ scopes[s].block = Deep(h[s - 1].blocks)
             /\ s > 1 /\ body[s - 1].kind = "label" => scopes[s].live
             /\ Len(scopes[s].locals) \in Nat
             /\ Places(scopes[s].locals) \subseteq 1 .. 5 * MaxStatements
             /\ Alive(s) = AliveAt(h, body, s)
  BY DoneIs
<1> DEFINE g == j[1]
           l == j[2]
<1>2. /\ g \in 1 .. Len(body) /\ l \in 1 .. Len(body)
      /\ \A k \in Places(scopes[g].locals) :
           k > Len(scopes[l].locals) => k >= lowerer.closes[g]
  BY JumpCloses
<1>3. Reaches(h, body, g, l)
  BY <1>1 DEF Sent
<1>4. i \in Places(scopes[g].locals) /\ i > Alive(l)
  OBVIOUS
<1> HIDE DEF g, l
<1>5. /\ scopes[l].locals = h[l - 1].locals /\ scopes[g].locals = h[g - 1].locals
      /\ Alive(l) = AliveAt(h, body, l) /\ Len(scopes[l].locals) \in Nat
  BY <1>1, <1>2
<1>6. i \in 1 .. 5 * MaxStatements /\ i \in Nat
  <2>1. Places(scopes[g].locals) \subseteq 1 .. 5 * MaxStatements
    BY <1>1, <1>2
  <2> QED
    BY <2>1, <1>4
<1>7. i >= lowerer.closes[g] \/ i >= ClosedAtEnd(l)
  <2>1. CASE i > Len(scopes[l].locals)
    BY <2>1, <1>2, <1>4
  <2>2. CASE ~(i > Len(scopes[l].locals))
    <3>1. i <= Len(scopes[l].locals) /\ i \in 1 .. Len(scopes[l].locals)
      BY <2>2, <1>5, <1>6
    <3>2. body[l].tail
      <4> SUFFICES ASSUME ~body[l].tail
                   PROVE  FALSE
        OBVIOUS
      <4>1. Alive(l) = Len(scopes[l].locals)
        BY <1>5 DEF AliveAt
      <4> QED
        BY <4>1, <3>1, <1>4, <1>5, <1>6
    <3>3. TailLabel(body[l]) /\ Alive(l) = Deep(h[l - 1].blocks)
      BY <3>2, <1>3, <1>5 DEF Reaches, TailLabel, AliveAt
    <3>4. scopes[g].locals[i] = scopes[l].locals[i]
      BY <3>1, <3>2, <1>3, <1>5 DEF Reaches, Agree
    <3>5. i \in Places(scopes[l].locals)
      BY <3>1, <3>4, <1>4 DEF Places
    <3> DEFINE ends == {k \in l + 1 .. Len(body) : body[k].kind = "end"}
    <3>6. CASE ends = {}
      <4>1. ClosedAtEnd(l) = 1
        BY <3>2, <3>6 DEF ClosedAtEnd
      <4> QED
        BY <4>1, <1>6
    <3>7. CASE ends # {}
      <4> DEFINE e == CHOOSE k \in ends : \A m \in ends : k <= m
      <4>1. ClosedAtEnd(l) = lowerer.closes[e]
        BY <3>2, <3>7 DEF ClosedAtEnd
      <4>2. ends \subseteq Nat
        BY <1>1, <1>2
      <4>3. \E k \in ends : \A m \in ends : k <= m
        <5> HIDE DEF ends
        <5> QED
          BY <4>2, <3>7, LeastOf
      <4>4. e \in ends /\ \A m \in ends : e <= m
        <5> HIDE DEF ends
        <5> QED
          BY <4>3
      <4> HIDE DEF e
      <4>5. e \in l + 1 .. Len(body) /\ body[e].kind = "end"
        BY <4>4
      <4>6. /\ e \in 1 .. Len(body) /\ e > 1 /\ e - 1 \in l .. Len(body)
            /\ e - 1 \in 1 .. Len(body) /\ e \in Nat
        BY <4>5, <1>1, <1>2
      <4>7. \A k \in l + 1 .. e - 1 : body[k].kind # "end"
        <5> SUFFICES ASSUME NEW k \in l + 1 .. e - 1, body[k].kind = "end"
                     PROVE  FALSE
          OBVIOUS
        <5>1. k \in l + 1 .. Len(body) /\ ~(e <= k)
          BY <4>6, <1>1, <1>2
        <5> QED
          BY <5>1, <4>4
      <4>8. TailLabel(body[e - 1]) /\ h[e - 1] = h[l - 1]
        BY <4>6, <4>7, <3>3, <1>1, <1>2 DEF Tails
      <4>9. /\ scopes[e].locals = h[e - 1].locals
            /\ scopes[e].block = Deep(h[e - 1].blocks)
            /\ body[e - 1].kind = "label" => scopes[e].live
        BY <4>6, <1>1
      <4>10. scopes[e].locals = scopes[l].locals /\ scopes[e].block = Alive(l) /\ scopes[e].live
        BY <4>8, <4>9, <3>3, <1>5 DEF TailLabel
      <4>11. i \in Places(scopes[e].locals) /\ i > scopes[e].block
        BY <4>10, <3>5, <1>4
      <4>12. i >= lowerer.closes[e]
        BY <4>5, <4>6, <4>10, <4>11, <1>1 DEF ClosedSoFar
      <4> QED
        BY <4>1, <4>12
    <3> QED
      BY <3>6, <3>7
  <2> QED
    BY <2>1, <2>2
<1> QED
  BY <1>7 DEF g, l

-----------------------------------------------------------------------------
(* The lowering has an entry for `break` for each loop it is in and a      *)
(* register for each local in scope, and notes one close for a statement.  *)
THEOREM TypeOKTheorem == Spec => []TypeOK
BY IInvTheorem, IInvType, PTL

(* No goto the resolver lets through jumps into the scope of a local: what *)
(* is alive at its label was alive, in the same place, at the goto.        *)
THEOREM NoJumpIntoScopeTheorem == Spec => []NoJumpIntoScope
BY IInvTheorem, IInvNoJump, PTL

(* A goto closes the captured locals that die on its way, or the end of    *)
(* the block its label ends does, in every body without a goto that passes *)
(* a declaration on its way to a label that ends a block.                  *)
THEOREM GotoClosesWhatDiesTheorem ==
  ASSUME ~SkipsToTail
  PROVE  Spec => []GotoClosesWhatDies
<1>1. IInv => GotoClosesWhatDies
  BY IInvGotoCloses
<1> QED
  BY <1>1, IInvTheorem, PTL

(* A goto closes nothing that lives on at its label.                       *)
THEOREM GotoKeepsWhatLivesTheorem == Spec => []GotoKeepsWhatLives
BY IInvTheorem, IInvGotoKeeps, PTL

(* The end of a block and `break` close the captured locals that die there. *)
THEOREM BlocksCloseWhatDiesTheorem == Spec => []BlocksCloseWhatDies
BY IInvTheorem, IInvBlocksClose, PTL

(* Every goto that waits for its label gets its jump, as leave_function    *)
(* asserts in a debug build.                                               *)
THEOREM EveryGotoArrivesTheorem == Spec => []EveryGotoArrives
BY IInvTheorem, IInvArrives, PTL
=============================================================================
