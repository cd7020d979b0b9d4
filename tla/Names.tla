-------------------------------- MODULE Names ---------------------------------
(***************************************************************************)
(* What each name of a chunk turns out to be: the resolver (ruta-syntax's  *)
(* scope/) walks a program, and the lowering (ruta-compile's lower/) walks *)
(* it after, with a list of the locals in scope of its own.                *)
(*                                                                         *)
(* The program is any: every step reads or writes a name, declares some,   *)
(* or enters or leaves a block or a function.  The values of a statement   *)
(* are read, and the functions among them walked, before what it declares  *)
(* comes into scope, so they are steps before its own; the condition of a  *)
(* `repeat` is read inside its block, so it is steps before that is left.  *)
(* The resolver searches one stack of declarations; `scopes` is what the   *)
(* language says instead, one map from names to variables for each block.  *)
(***************************************************************************)
EXTENDS Naturals, Sequences, FiniteSetsExt, SequencesExt

CONSTANTS
  Names,         (* the names a program writes                             *)
  Env,           (* `_ENV`, which may be one of them                       *)
  Wildcard,      (* `*`, the name of no variable                           *)
  MaxFunctions,  (* functions inside each other, the chunk included        *)
  Locals,        (* what it declares as locals                             *)
  Globals,       (* what it declares as globals                            *)
  MaxDeclared,   (* declarations in scope                                  *)
  MaxBlocks      (* blocks inside each other                               *)

ASSUME NamesAssumption ==
  /\ Env \in Names /\ Wildcard \notin Names
  /\ Locals \subseteq [name : Names, readonly : BOOLEAN]
  /\ Globals \subseteq [name : Names \cup {Wildcard}, readonly : BOOLEAN]
  /\ {MaxFunctions, MaxDeclared, MaxBlocks} \subseteq Nat

VARIABLES
  declarations,  (* in the order they came into scope                      *)
  functions,     (* the captures of every open function, outermost first   *)
  blocks,        (* how many declarations and locals each block began with *)
  locals,        (* the lowering's: of every open function, those in scope *)
  open,          (* which blocks are functions', loops' or plain           *)
  scopes         (* for the properties: what names mean, scope by scope    *)

vars == <<declarations, functions, blocks, locals, open, scopes>>

Local(var) == [kind |-> "local", at |-> var]
Upvalue(index) == [kind |-> "upvalue", at |-> index]
NoAccess == [kind |-> "none", at |-> 0]

(* The chunk's `_ENV`, given by the loader, is no local: it counts as 0.   *)
EnvCapture == [kind |-> "env", at |-> 0]
Declaration(name, at, function, global, readonly) ==
  [name |-> name, at |-> at, function |-> function, global |-> global, readonly |-> readonly]

Depth == Len(functions)

-----------------------------------------------------------------------------
(* lookup: the nearest declaration of the name; failing that the nearest   *)
(* wildcard; and with neither, a name is a global unless some global has   *)
(* been declared.                                                          *)
Unseen == Declaration(Wildcard, NoAccess, 0, TRUE, FALSE)

(* Mutant: the outermost wildcard is taken.                                *)
Look_Outermost(seen, d, name) ==
  IF seen.found THEN seen
  ELSE IF d.name = name THEN [seen EXCEPT !.found = TRUE, !.as = d]
  ELSE IF d.name = Wildcard THEN [seen EXCEPT !.any = TRUE, !.wild = TRUE, !.as = d]
  ELSE [seen EXCEPT !.any = @ \/ d.global]

Look(seen, d, name) ==
  IF seen.found THEN seen
  ELSE IF d.name = name THEN [seen EXCEPT !.found = TRUE, !.as = d]
  ELSE IF d.name = Wildcard
  THEN [seen EXCEPT !.any = TRUE, !.wild = TRUE, !.as = IF seen.wild THEN @ ELSE d]
  ELSE [seen EXCEPT !.any = @ \/ d.global]

Seen(name) ==
  FoldRight(LAMBDA d, seen : Look(seen, d, name), declarations,
            [found |-> FALSE, wild |-> FALSE, any |-> FALSE, as |-> Unseen])
Resolution(seen) == [declared |-> seen.found \/ seen.wild \/ ~seen.any, as |-> seen.as]
Lookup(name) == Resolution(Seen(name))

(* capture: by name, in the function of that depth.                        *)
Captured(reached, depth, name) ==
  LET list == reached.functions[depth]
      known == {i \in DOMAIN list : list[i].name = name}
  IN  IF known # {} THEN [reached EXCEPT !.access = Upvalue(Min(known))]
      ELSE [access |-> Upvalue(Len(list) + 1),
            functions |-> [reached.functions EXCEPT
                             ![depth] = Append(@, [name |-> name, capture |-> reached.access])]]

(* Mutant: only the innermost function captures.                           *)
Reach_Innermost(name, owner, at) ==
  IF owner = Depth THEN [access |-> at, functions |-> functions]
  ELSE Captured([access |-> at, functions |-> functions], Depth, name)

(* reach: through every function between the owner and the innermost.      *)
Reach(name, owner, at) ==
  FoldLeft(LAMBDA reached, depth : Captured(reached, depth, name),
           [access |-> at, functions |-> functions],
           [i \in 1 .. Depth - owner |-> owner + i])

Refused(why) == [refused |-> why, global |-> FALSE, access |-> NoAccess, functions |-> functions]
Found(global, reached) ==
  [refused |-> "", global |-> global, access |-> reached.access, functions |-> reached.functions]
VariableAt(name, d) == Found(FALSE, Reach(name, d.function, d.at))
EnvAt(d) == IF d.global THEN Refused("EnvIsGlobal") ELSE Found(TRUE, Reach(Env, d.function, d.at))

(* env: of a statement that assigns a global.                              *)
EnvAccess == EnvAt(Lookup(Env).as)

(* access, and the three ways it is refused, in this order.                *)
Checked(answer, writing, readonly) ==
  IF answer.refused = "" /\ writing /\ readonly THEN Refused("ConstAssignment") ELSE answer
AccessAs(name, it, writing) ==
  IF ~it.declared THEN Refused("VariableNotDeclared")
  ELSE Checked(IF it.as.global THEN EnvAccess ELSE VariableAt(name, it.as), writing, it.as.readonly)
Access(name, writing) == AccessAs(name, Lookup(name), writing)

-----------------------------------------------------------------------------
(* What the language says, of the names in scope.                          *)
Unbound == [is |-> "unbound", var |-> 0, readonly |-> FALSE]
Bound(is, var, readonly) == [is |-> is, var |-> var, readonly |-> readonly]
Outermost ==
  [names |-> [n \in Names |-> IF n = Env THEN Bound("variable", 0, FALSE) ELSE Unbound],
   others |-> Unbound]

(* Names that no declaration spells are globals until one is declared, and *)
(* then only with a wildcard.                                              *)
WithGlobal(scope, name, readonly) ==
  IF name = Wildcard THEN [scope EXCEPT !.others = Bound("global", 0, readonly)]
  ELSE [names |-> [scope.names EXCEPT ![name] = Bound("global", 0, readonly)],
        others |-> IF scope.others = Unbound THEN Bound("nothing", 0, FALSE) ELSE scope.others]
WithLocal(scope, name, var, readonly) ==
  [scope EXCEPT !.names[name] = Bound("variable", var, readonly)]

Means(scope, name) ==
  IF scope.names[name] # Unbound THEN scope.names[name]
  ELSE IF scope.others # Unbound THEN scope.others ELSE Bound("global", 0, FALSE)
Meaning(scope, name, writing) ==
  LET it == Means(scope, name)
      env == Means(scope, Env)
  IN  IF it.is = "nothing" THEN [refused |-> "VariableNotDeclared", global |-> FALSE, var |-> 0]
      ELSE IF it.is = "global" /\ env.is # "variable"
      THEN [refused |-> "EnvIsGlobal", global |-> FALSE, var |-> 0]
      ELSE IF writing /\ it.readonly THEN [refused |-> "ConstAssignment", global |-> FALSE, var |-> 0]
      ELSE [refused |-> "", global |-> it.is = "global",
            var |-> IF it.is = "global" THEN env.var ELSE it.var]

-----------------------------------------------------------------------------
Scope == Last(scopes)
Inside == Last(open)
Var(name, readonly) == [name |-> name, readonly |-> readonly]
Instead(seq, x) == Append(Front(seq), x)

(* The next declaration site, by its place among the locals in scope.      *)
Site == Len(SelectSeq(declarations, LAMBDA d : ~d.global))

(* declare_local, for each name of the list in turn, and the lowering's    *)
(* declare.                                                                *)
AsLocals(list, depth) ==
  [i \in DOMAIN list |-> Declaration(list[i].name, Local(Site + i - 1), depth, FALSE, list[i].readonly)]
AsSites(list) == [i \in DOMAIN list |-> Site + i - 1]
InScope(scope, list) ==
  FoldLeft(LAMBDA s, i : WithLocal(s, list[i].name, Site + i - 1, list[i].readonly),
           scope, [i \in DOMAIN list |-> i])
HasRoom(list) == Len(declarations) + Len(list) <= MaxDeclared + 1

Frame == [declarations |-> Len(declarations), locals |-> Len(Last(locals))]

-----------------------------------------------------------------------------
(* A name read in an expression, or written by an assignment.  One that is *)
(* refused ends the walk.                                                  *)
Use(name, writing) ==
  /\ \E answer \in {Access(name, writing)} : answer.refused = "" /\ functions' = answer.functions
  /\ UNCHANGED <<declarations, blocks, locals, open, scopes>>

(* func: a frame for its captures, and a block with what it declares.      *)
EnterFunction(fs, before, outer, list, visible) ==
  /\ Depth < MaxFunctions /\ Len(blocks) < MaxBlocks
  /\ declarations' = before \o AsLocals(list, Depth + 1)
  /\ functions' = Append(fs, <<>>)
  /\ blocks' = Append(blocks, [declarations |-> Len(before), locals |-> 0])
  /\ locals' = Append(outer, AsSites(list))
  /\ open' = Append(open, "function")
  /\ scopes' = visible

(* An expression.  A parameter, `self` included, may be written; the name  *)
(* of `...` may not.                                                       *)
Function(list) ==
  /\ HasRoom(list)
  /\ EnterFunction(functions, declarations, locals, list, Append(scopes, InScope(Scope, list)))

(* `function f`: f is written.                                             *)
FunctionStat(name) ==
  /\ Access(name, TRUE).refused = ""
  /\ EnterFunction(Access(name, TRUE).functions, declarations, locals, <<>>, Append(scopes, Scope))

(* Mutant: the lowering makes the closure first.                           *)
LocalFunction_After(name) ==
  LET it == <<Var(name, FALSE)>>
      after == InScope(Scope, it)
  IN  /\ HasRoom(it) /\ Var(name, FALSE) \in Locals
      /\ EnterFunction(functions, declarations \o AsLocals(it, Depth), locals,
                       <<>>, Instead(scopes, after) \o <<after>>)

(* `local function f`: f is in scope in its own body.                      *)
LocalFunction(name) ==
  LET it == <<Var(name, FALSE)>>
      after == InScope(Scope, it)
  IN  /\ HasRoom(it) /\ Var(name, FALSE) \in Locals
      /\ EnterFunction(functions, declarations \o AsLocals(it, Depth),
                       Instead(locals, Last(locals) \o AsSites(it)),
                       <<>>, Instead(scopes, after) \o <<after>>)

(* `global function f` is a declaration, and assigns without writing f.    *)
GlobalFunction(name) ==
  LET after == WithGlobal(Scope, name, FALSE)
  IN  /\ HasRoom(<<name>>) /\ Var(name, FALSE) \in Globals
      /\ EnvAccess.refused = ""
      /\ EnterFunction(EnvAccess.functions,
                       Append(declarations, Declaration(name, NoAccess, Depth, TRUE, FALSE)),
                       locals, <<>>, Instead(scopes, after) \o <<after>>)

(* `local`, after its values.                                              *)
DeclareLocal(v) ==
  /\ HasRoom(<<v>>)
  /\ declarations' = declarations \o AsLocals(<<v>>, Depth)
  /\ locals' = Instead(locals, Last(locals) \o AsSites(<<v>>))
  /\ scopes' = Instead(scopes, InScope(Scope, <<v>>))
  /\ UNCHANGED <<functions, blocks, open>>

(* `global`: with values it assigns, and needs `_ENV`.                     *)
DeclareGlobal(v, assigns) ==
  /\ HasRoom(<<v>>)
  /\ declarations' = Append(declarations, Declaration(v.name, NoAccess, Depth, TRUE, v.readonly))
  /\ scopes' = Instead(scopes, WithGlobal(Scope, v.name, v.readonly))
  /\ IF assigns THEN EnvAccess.refused = "" /\ functions' = EnvAccess.functions
     ELSE UNCHANGED functions
  /\ UNCHANGED <<blocks, locals, open>>

(* A `for`, after its values: the names have a block around the body's.    *)
EnterFor(list) ==
  /\ HasRoom(list) /\ Len(blocks) + 1 < MaxBlocks
  /\ declarations' = declarations \o AsLocals(list, Depth)
  /\ locals' = Instead(locals, Last(locals) \o AsSites(list))
  /\ blocks' = blocks \o <<Frame, [declarations |-> Len(declarations) + Len(list),
                                   locals |-> Len(Last(locals)) + Len(list)]>>
  /\ scopes' = scopes \o <<InScope(Scope, list), InScope(Scope, list)>>
  /\ open' = Append(open, "loop")
  /\ UNCHANGED functions

EnterBlock ==
  /\ Len(blocks) < MaxBlocks
  /\ blocks' = Append(blocks, Frame)
  /\ scopes' = Append(scopes, Scope)
  /\ open' = Append(open, "block")
  /\ UNCHANGED <<declarations, functions, locals>>

(* Mutant: of a loop's two blocks only the body's is left.                 *)
Left_Body == blocks

(* The block that is left; with a loop's body goes the block around it.    *)
Left == IF Inside = "loop" THEN Front(blocks) ELSE blocks

(* leave_block, and the lowering's leave.                                  *)
LeaveBlock ==
  /\ Inside \in {"block", "loop"}
  /\ declarations' = SubSeq(declarations, 1, Last(Left).declarations)
  /\ locals' = Instead(locals, SubSeq(Last(locals), 1, Last(Left).locals))
  /\ blocks' = Front(Left)
  /\ scopes' = IF Inside = "loop" THEN Front(Front(scopes)) ELSE Front(scopes)
  /\ open' = Front(open)
  /\ UNCHANGED functions

LeaveFunction ==
  /\ Inside = "function" /\ Depth > 1
  /\ declarations' = SubSeq(declarations, 1, Last(blocks).declarations)
  /\ functions' = Front(functions)
  /\ locals' = Front(locals)
  /\ blocks' = Front(blocks)
  /\ scopes' = Front(scopes)
  /\ open' = Front(open)

(* resolve: the chunk is a function with one capture.                      *)
Init ==
  /\ declarations = <<Declaration(Env, Upvalue(1), 1, FALSE, FALSE)>>
  /\ functions = <<<<[name |-> Env, capture |-> EnvCapture]>>>>
  /\ blocks = <<[declarations |-> 1, locals |-> 0]>>
  /\ locals = <<<<>>>>
  /\ open = <<"function">>
  /\ scopes = <<Outermost>>

Next ==
  \/ \E n \in Names, writing \in BOOLEAN : Use(n, writing)
  \/ \E list \in {<<>>} \cup {<<v>> : v \in Locals} : Function(list)
  \/ \E n \in Names : FunctionStat(n) \/ LocalFunction(n) \/ GlobalFunction(n)
  \/ \E v \in Locals : DeclareLocal(v)
  \/ \E v \in Globals, assigns \in BOOLEAN : (v.name = Wildcard => ~assigns) /\ DeclareGlobal(v, assigns)
  \/ \E v \in Locals : v.readonly /\ EnterFor(<<v>>)
  \/ \E v, w \in Locals : v.readonly /\ ~w.readonly /\ EnterFor(<<v, w>>)
  \/ EnterBlock \/ LeaveBlock \/ LeaveFunction

Spec == Init /\ [][Next]_vars

-----------------------------------------------------------------------------
(* The variable an access ends at, capture by capture.                     *)
Variable(fs, access) ==
  LET upTo[d \in DOMAIN fs] ==
        [i \in DOMAIN fs[d] |->
          IF fs[d][i].capture.kind = "upvalue" THEN upTo[d - 1][fs[d][i].capture.at]
          ELSE fs[d][i].capture.at]
  IN  IF access.kind = "local" THEN access.at ELSE upTo[Len(fs)][access.at]

Reaches(answer, meant) ==
  answer.refused = "" /\ meant.refused = "" =>
    answer.global = meant.global /\ Variable(answer.functions, answer.access) = meant.var

(* Any name written here reaches the variable that is lexically visible,   *)
(* and a global the visible `_ENV`, through whatever captures are built    *)
(* for it or are there already: an entry found by name is the same         *)
(* variable's, however names are nested and declared again.                *)
NamesReachTheirVariable ==
  \A n \in Names : Reaches(Access(n, FALSE), Meaning(Scope, n, FALSE))

(* A program is refused exactly where the language refuses it, and for the *)
(* same reason: the rules for undeclared names, a hidden `_ENV` and what   *)
(* may not be assigned, whichever declarations are nested in which order.  *)
RefusedExactly ==
  /\ \A n \in Names, writing \in BOOLEAN : Access(n, writing).refused = Meaning(Scope, n, writing).refused
  /\ (EnvAccess.refused = "") <=> (Means(Scope, Env).is = "variable")

(* Where a closure is made, every local it captures is one the lowering    *)
(* has in scope in the function around it, every upvalue it captures is    *)
(* one of that function's, and no two entries are one variable; and a name *)
(* that is a local is in scope in the function itself.                     *)
CapturesAreInScope ==
  /\ \A n \in Names : \A access \in {Access(n, FALSE).access} :
       access.kind = "local" => access.at \in ToSet(Last(locals))
  /\ \A d \in 2 .. Depth : \A i \in DOMAIN functions[d] :
       LET capture == functions[d][i].capture
       IN  /\ capture.kind = "local" => capture.at \in ToSet(locals[d - 1])
           /\ capture.kind = "upvalue" => capture.at \in DOMAIN functions[d - 1]
           /\ \A j \in DOMAIN functions[d] : i # j => functions[d][j].capture # capture
===============================================================================
