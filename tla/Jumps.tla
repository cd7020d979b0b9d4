-------------------------------- MODULE Jumps --------------------------------
(***************************************************************************)
(* Blocks, labels and gotos, from the resolver that decides which label a  *)
(* goto reaches (scope/stat.rs, scope/label.rs) to the lowering that       *)
(* decides what to close on the way (lower/stat.rs, lower/func.rs).        *)
(*                                                                         *)
(* The first phase writes one function body, statement by statement, as    *)
(* the resolver walks it; the second is the lowering of that same body.    *)
(* A statement's id is its place in the body.                              *)
(***************************************************************************)
EXTENDS Naturals, Sequences, FiniteSets

CONSTANTS
  Names,           (* label names                                           *)
  Blocks,          (* which kinds of blocks a body uses                     *)
  Globals,         (* whether it declares globals                           *)
  MaxStatements,   (* bound: how long a body is, the ends of blocks included *)
  MaxGotos,        (* bound: how many gotos and breaks                      *)
  SkipsToTail      (* whether a goto may pass a declaration on its way to a *)
                   (* label that ends its block                             *)

ASSUME BlocksAssumption == Blocks \subseteq {"do", "if", "while", "repeat", "for"}
ASSUME BoundsAssumption == {MaxStatements, MaxGotos} \subseteq Nat

VARIABLES
  body,         (* the statements                                           *)
  phase,        (* "resolve", "lower", "done" or "refused"                  *)
  resolver,     (* how many declarations are alive, the blocks, the jumps   *)
  lowerer,      (* FuncState, and what each statement closes                *)
  scopes        (* history: what was in scope at each statement lowered     *)

vars == <<body, phase, resolver, lowerer, scopes>>

Last(s) == s[Len(s)]
Front(s) == SubSeq(s, 1, Len(s) - 1)
Least(a, b) == IF a < b THEN a ELSE b
Loops == {"while", "repeat", "for"}

-----------------------------------------------------------------------------
(* The resolver.                                                           *)
Frame(kind, declarations) ==
  [kind |-> kind, declarations |-> declarations, labels |-> {}, gotos |-> {}]

Here == Last(resolver.blocks)
Current(frame) == [resolver EXCEPT !.blocks = Append(Front(@), frame)]
Declared(r) == [r EXCEPT !.declarations = @ + 1]

EnterBlock(r, kind) == [r EXCEPT !.blocks = Append(@, Frame(kind, r.declarations))]

(* The gotos of a frame that one of its labels answers, with that label.   *)
Answered(frame) == {p \in frame.gotos \X frame.labels : p[1].name = p[2].name}
IntoScope(frame) == \E p \in Answered(frame) : p[2].declarations > p[1].declarations
Unresolved(frame) == {g \in frame.gotos : \A l \in frame.labels : l.name # g.name}
Jumps(frame) == {<<p[1].stat, p[2].stat>> : p \in Answered(frame)}

Left(r, escaping) ==
  LET frame == Last(r.blocks)
      outer == r.blocks[Len(r.blocks) - 1]
  IN  [declarations |-> frame.declarations,
       jumps |-> r.jumps \cup Jumps(frame),
       blocks |-> Append(SubSeq(r.blocks, 1, Len(r.blocks) - 2),
                         [outer EXCEPT !.gotos = @ \cup escaping])]

(* Mutant: a goto that leaves a block keeps its count of declarations.     *)
LeaveBlock_KeepsCount(r) == Left(r, Unresolved(Last(r.blocks)))

(* leave_block with Exit::Block: what is not answered escapes to the block *)
(* around it, with no more declarations alive than that one had.           *)
LeaveBlock(r) ==
  LET frame == Last(r.blocks)
  IN  Left(r, {[g EXCEPT !.declarations = Least(@, frame.declarations)] :
                 g \in Unresolved(frame)})

(* A goto that passes a declaration on its way to a tail label; whether a  *)
(* body has one is an input.                                               *)
Skips(frame) ==
  \E p \in Answered(frame) : body[p[2].stat].tail /\ p[2].height > p[1].declarations

(* A run of labels is the tail of its block or it is not, as a whole; a    *)
(* `repeat` body has no tail, its condition comes after.                   *)
AfterLabel == body # <<>> /\ Last(body).kind = "label"
MayEnd == AfterLabel => Last(body).tail \/ Here.kind = "repeat"
MayGoOn == AfterLabel => ~Last(body).tail

Id == Len(body) + 1

(* The parser's input: the next statement, with room left to end the       *)
(* blocks that are open.                                                   *)
Write(statement) ==
  /\ phase = "resolve"
  /\ Len(body) + Cardinality({b \in 2 .. Len(resolver.blocks) :
                                resolver.blocks[b].kind # "control"})
       < IF statement.kind = "end" THEN MaxStatements + 1
         ELSE IF statement.kind \in Blocks THEN MaxStatements - 1
         ELSE MaxStatements
  /\ body' = Append(body, statement)
  /\ UNCHANGED <<lowerer, scopes>>

Local(captured) ==
  /\ MayGoOn
  /\ Write([kind |-> "local", captured |-> captured])
  /\ resolver' = Declared(resolver)
  /\ UNCHANGED phase

Global ==
  /\ Globals /\ MayGoOn
  /\ Write([kind |-> "global"])
  /\ resolver' = Declared(resolver)
  /\ UNCHANGED phase

(* A `for` opens one block for its variable and one for its body.          *)
Open(kind) ==
  /\ MayGoOn
  /\ Write([kind |-> kind])
  /\ resolver' = IF kind = "for"
                 THEN EnterBlock(Declared(EnterBlock(resolver, "control")), kind)
                 ELSE EnterBlock(resolver, kind)
  /\ UNCHANGED phase

(* The end of a block, refused if a goto jumps into a declaration's scope. *)
End ==
  /\ MayEnd /\ Len(resolver.blocks) > 1
  /\ Write([kind |-> "end"])
  /\ IF IntoScope(Here)
     THEN phase' = "refused" /\ UNCHANGED resolver
     ELSE /\ Skips(Here) => SkipsToTail
          /\ resolver' = IF Here.kind = "for" THEN LeaveBlock(LeaveBlock(resolver))
                         ELSE LeaveBlock(resolver)
          /\ UNCHANGED phase

(* A label that ends its block counts at the block's own height.           *)
DeclaredAt(tail) == IF tail THEN Here.declarations ELSE resolver.declarations

(* declare_label: no label of that name in any block around.               *)
Label(name, tail) ==
  /\ IF AfterLabel THEN tail = Last(body).tail ELSE tail => Here.kind # "repeat"
  /\ Write([kind |-> "label", tail |-> tail])
  /\ IF \E b \in 1 .. Len(resolver.blocks) :
          \E l \in resolver.blocks[b].labels : l.name = name
     THEN phase' = "refused" /\ UNCHANGED resolver
     ELSE /\ resolver' = Current([Here EXCEPT !.labels =
               @ \cup {[name |-> name, stat |-> Id, declarations |-> DeclaredAt(tail),
                        height |-> resolver.declarations]}])
          /\ UNCHANGED phase

Jumped == Cardinality({i \in 1 .. Len(body) : body[i].kind \in {"goto", "break"}})

Goto(name) ==
  /\ MayGoOn /\ Jumped < MaxGotos
  /\ Write([kind |-> "goto"])
  /\ resolver' = Current([Here EXCEPT !.gotos =
       @ \cup {[name |-> name, stat |-> Id, declarations |-> resolver.declarations]}])
  /\ UNCHANGED phase

(* The parser has seen to it that a loop is around.                        *)
Break ==
  /\ MayGoOn /\ Jumped < MaxGotos
  /\ \E b \in 1 .. Len(resolver.blocks) : resolver.blocks[b].kind \in Loops
  /\ Write([kind |-> "break"])
  /\ UNCHANGED <<phase, resolver>>

(* leave_block with Exit::Function: every goto must have its label.        *)
LeaveFunction ==
  /\ phase = "resolve" /\ body # <<>> /\ Len(resolver.blocks) = 1 /\ MayEnd
  /\ IF IntoScope(Here) \/ Unresolved(Here) # {}
     THEN phase' = "refused" /\ UNCHANGED resolver
     ELSE /\ Skips(Here) => SkipsToTail
          /\ phase' = "lower"
          /\ resolver' = [resolver EXCEPT !.jumps = @ \cup Jumps(Here)]
  /\ UNCHANGED <<body, lowerer, scopes>>

-----------------------------------------------------------------------------
(* The lowering.  `locals` is FuncState.vars, whether each is captured; a  *)
(* local's register grows with its place, so CloseUpvals from one place    *)
(* closes the captured locals there and after it.                          *)
At == Len(scopes) + 1
Statement == body[At]
Target == CHOOSE l \in 1 .. Len(body) : <<At, l>> \in resolver.jumps
Places(locals) == {i \in 1 .. Len(locals) : locals[i].captured}
CapturedInScope == Places(lowerer.locals)
NoClose == 5 * MaxStatements + 1

(* Mutant: the innermost local that stays is closed with the others.       *)
CloseFrom_OffByOne(captured, depth) ==
  IF \E i \in captured : i >= depth
  THEN CHOOSE i \in captured : i >= depth /\ \A j \in captured : j >= depth => i <= j
  ELSE NoClose

(* close_from: the lowest captured place above `depth`, if there is one.   *)
CloseFrom(captured, depth) ==
  IF \E i \in captured : i > depth
  THEN CHOOSE i \in captured : i > depth /\ \A j \in captured : j > depth => i <= j
  ELSE NoClose

(* History: how many locals the innermost loop has around it.              *)
Around(blocks) ==
  LET loops == {b \in 1 .. Len(blocks) : blocks[b].kind \in Loops}
  IN  IF loops = {} THEN 0
      ELSE blocks[CHOOSE b \in loops : \A c \in loops : c <= b].outer

(* One statement; one that follows a jump gets a block of its own.         *)
Lower(kind) ==
  /\ phase = "lower" /\ Statement.kind = kind
  /\ scopes' = Append(scopes,
       [locals |-> lowerer.locals, live |-> ~lowerer.terminated,
        block |-> IF lowerer.blocks = <<>> THEN 0 ELSE Last(lowerer.blocks).depth,
        loop |-> Around(lowerer.blocks)])
  /\ phase' = IF At = Len(body) THEN "done" ELSE phase
  /\ UNCHANGED <<body, resolver>>

Reachable == [lowerer EXCEPT !.terminated = FALSE]

Bind(stat, captured) == [stat |-> stat, captured |-> captured]

LowerLocal ==
  /\ Lower("local")
  /\ lowerer' = [Reachable EXCEPT !.locals = Append(@, Bind(At, Statement.captured))]

LowerGlobal == Lower("global") /\ lowerer' = Reachable

(* A block notes where its scope starts, a loop also what `break` leaves.  *)
(* A `for` has three slots without a name before its variable.             *)
LowerOpen(kind) ==
  /\ Lower(kind)
  /\ LET outer == Len(lowerer.locals)
         depth == IF kind = "for" THEN outer + 3 ELSE outer
     IN  lowerer' = [Reachable EXCEPT
           !.locals = IF kind = "for"
                      THEN @ \o [i \in 1 .. 4 |-> Bind(At, i = 4)] ELSE @,
           !.blocks = Append(@, [kind |-> kind, depth |-> depth, outer |-> outer]),
           !.loops = IF kind \in Loops THEN Append(@, depth) ELSE @]

(* Mutant: the end of a loop's body closes nothing.                        *)
CloseUpvals_NotLoops(depth) ==
  IF lowerer.terminated \/ lowerer.loops # <<>> THEN NoClose
  ELSE CloseFrom(CapturedInScope, depth)

(* close_upvals: nothing where control does not get to.                    *)
CloseUpvals(depth) ==
  IF lowerer.terminated THEN NoClose ELSE CloseFrom(CapturedInScope, depth)

(* The end of a body: close, leave its scope, and go on after the loop or  *)
(* at the join of the `if`.                                                *)
Ended(loops) ==
  LET block == Last(lowerer.blocks)
  IN  [lowerer EXCEPT
        !.closes[At] = CloseUpvals(block.depth),
        !.locals = SubSeq(@, 1, block.outer),
        !.blocks = Front(@),
        !.loops = loops,
        !.terminated = @ /\ block.kind = "do"]

(* Mutant: the end of a loop leaves its entry for `break`.                 *)
LowerEnd_KeepsLoop == Lower("end") /\ lowerer' = Ended(lowerer.loops)

LowerEnd ==
  /\ Lower("end")
  /\ lowerer' = Ended(IF Last(lowerer.blocks).kind \in Loops THEN Front(lowerer.loops)
                      ELSE lowerer.loops)

LowerBreak ==
  /\ Lower("break")
  /\ lowerer' = [Reachable EXCEPT
       !.closes[At] = CloseFrom(CapturedInScope, Last(lowerer.loops)),
       !.terminated = TRUE]

(* Mutant: a forward goto jumps at once and closes nothing.                *)
LowerGoto_NeverWaits ==
  /\ Lower("goto")
  /\ LET known == Target \in DOMAIN lowerer.depths
     IN  lowerer' = [Reachable EXCEPT
           !.closes[At] =
             IF known THEN CloseFrom(CapturedInScope, lowerer.depths[Target]) ELSE @,
           !.terminated = TRUE]

(* A backward goto knows how deep its label is; a forward one with nothing *)
(* captured need not know, and any other waits for it.                     *)
LowerGoto ==
  /\ Lower("goto")
  /\ LET known == Target \in DOMAIN lowerer.depths
         waiting == [stat |-> At, label |-> Target, captured |-> CapturedInScope]
     IN  lowerer' = [Reachable EXCEPT
           !.closes[At] =
             IF known THEN CloseFrom(CapturedInScope, lowerer.depths[Target]) ELSE @,
           !.pending = IF known \/ CapturedInScope = {} THEN @ ELSE @ \cup {waiting},
           !.terminated = TRUE]

(* Mutant: a label answers one of the gotos that wait for it.              *)
Arriving_One ==
  LET waiting == {p \in lowerer.pending : p.label = At}
  IN  {p \in waiting : \A q \in waiting : p.stat <= q.stat}

(* The forward gotos that waited for the label.                            *)
Arriving == {p \in lowerer.pending : p.label = At}

(* reach_label: they learn how deep it is, and close down to there.        *)
LowerLabel ==
  /\ Lower("label")
  /\ LET depth == Len(lowerer.locals)
         depths == lowerer.depths
     IN  lowerer' = [Reachable EXCEPT
           !.depths = [l \in DOMAIN depths \cup {At} |-> IF l = At THEN depth ELSE depths[l]],
           !.closes = [s \in DOMAIN @ |->
             IF \E p \in Arriving : p.stat = s
             THEN CloseFrom((CHOOSE p \in Arriving : p.stat = s).captured, depth)
             ELSE @[s]],
           !.pending = @ \ Arriving]

-----------------------------------------------------------------------------
Init ==
  /\ body = <<>> /\ phase = "resolve" /\ scopes = <<>>
  /\ resolver = [declarations |-> 0, blocks |-> <<Frame("function", 0)>>, jumps |-> {}]
  /\ lowerer = [locals |-> <<>>, blocks |-> <<>>, loops |-> <<>>, depths |-> <<>>,
                pending |-> {}, terminated |-> FALSE,
                closes |-> [i \in 1 .. MaxStatements |-> NoClose]]

Resolving ==
  \/ \E captured \in BOOLEAN : Local(captured)
  \/ Global
  \/ \E kind \in Blocks : Open(kind)
  \/ End
  \/ \E name \in Names, tail \in BOOLEAN : Label(name, tail)
  \/ \E name \in Names : Goto(name)
  \/ Break
  \/ LeaveFunction

Lowering ==
  \/ LowerLocal \/ LowerGlobal
  \/ \E kind \in Blocks : LowerOpen(kind)
  \/ LowerEnd \/ LowerBreak \/ LowerGoto \/ LowerLabel

Next == Resolving \/ Lowering

Spec == Init /\ [][Next]_vars

-----------------------------------------------------------------------------
(* The type invariant.  The lowering has one entry for `break` per loop it *)
(* is in, no more declarations in scope than registers, and notes at most  *)
(* one close for each statement.                                           *)
TypeOK ==
  /\ phase \in {"resolve", "lower", "done", "refused"}
  /\ Len(body) <= MaxStatements /\ Len(scopes) <= Len(body)
  /\ resolver.declarations \in 0 .. MaxStatements
  /\ resolver.jumps \subseteq (1 .. Len(body)) \X (1 .. Len(body))
  /\ Len(lowerer.loops) =
       Cardinality({b \in 1 .. Len(lowerer.blocks) : lowerer.blocks[b].kind \in Loops})
  /\ lowerer.closes \in [1 .. MaxStatements -> 1 .. NoClose]
  /\ Len(lowerer.locals) < NoClose

(* How many locals are alive once a label is reached: after one that ends  *)
(* its block, none of the block's own.                                     *)
Alive(label) == IF body[label].tail THEN scopes[label].block ELSE Len(scopes[label].locals)

(* Where the block a tail label ends is closed; 1, if it is the function's *)
(* own, whose return closes everything.                                    *)
ClosedAtEnd(label) ==
  IF body[label].tail
  THEN LET ends == {i \in label + 1 .. Len(body) : body[i].kind = "end"}
       IN  IF ends = {} THEN 1
           ELSE lowerer.closes[CHOOSE i \in ends : \A j \in ends : i <= j]
  ELSE NoClose

(* No goto the resolver lets through jumps into the scope of a local: what *)
(* is alive at its label was alive, in the same place, at the goto.        *)
NoJumpIntoScope ==
  phase = "done" =>
    \A j \in resolver.jumps :
      /\ Alive(j[2]) <= Len(scopes[j[1]].locals)
      /\ \A i \in 1 .. Alive(j[2]) : scopes[j[1]].locals[i] = scopes[j[2]].locals[i]

(* "A goto closes what dies on the way out" (lower/func.rs): each captured *)
(* local in scope at a goto and not at its label is closed by the goto, or *)
(* at the end of the block its label ends.                                 *)
GotoClosesWhatDies ==
  phase = "done" =>
    \A j \in resolver.jumps : \A i \in Places(scopes[j[1]].locals) :
      i > Alive(j[2]) => i >= lowerer.closes[j[1]] \/ i >= ClosedAtEnd(j[2])

(* And nothing else: a local alive at the label keeps its register, or the *)
(* closure that captured it and the code after the label would part.       *)
GotoKeepsWhatLives ==
  phase = "done" => \A j \in resolver.jumps : lowerer.closes[j[1]] > Alive(j[2])

(* A block left at its end, a loop's body at the end of each turn, and a   *)
(* loop left by `break` close the captured locals that die there.          *)
BlocksCloseWhatDies ==
  phase = "done" =>
    \A s \in 1 .. Len(body) : \A i \in Places(scopes[s].locals) :
      \/ body[s].kind = "end" /\ scopes[s].live /\ i > scopes[s].block
      \/ body[s].kind = "break" /\ i > scopes[s].loop
      => i >= lowerer.closes[s]

(* Every goto that waits for its label gets its jump: a body leaves none   *)
(* behind, which leave_function asserts in a debug build.                  *)
EveryGotoArrives == phase = "done" => lowerer.pending = {}
=============================================================================
