------------------------------ MODULE VmProofs ------------------------------
(***************************************************************************)
(* The machine's stack is sound for every program: the frames divide it    *)
(* without overlap, everything a frame may read is on it, and every open   *)
(* upvalue points at a local in scope.  The invariant is about the frames, *)
(* the cells and the arenas together: a call is only sound because what    *)
(* the stack holds names functions there are, a named `...` because no     *)
(* write reaches the local that names its table.                           *)
(***************************************************************************)
EXTENDS Vm, Integers, FiniteSetTheorems, TLAPS

(* What a slot may hold, with that many functions and tables made.         *)
Stored(fns, tables) ==
  Plain \cup {Native} \cup ({"function"} \X (1 .. fns)) \cup ({"table"} \X (1 .. tables))

IsList(s) == s \in Seq(Listed(s))

IsCell(c, S) == c \in [kind : {"Open"}, slot : Nat] \/ c \in [kind : {"Closed"}, value : S]

(* The arenas name each other within bounds.                               *)
ArenasOK(fns, cs, tables, prog) ==
  /\ fns \in Seq([proto : DOMAIN prog.protos, upvals : Seq(1 .. Len(cs))])
  /\ IsList(cs)
  /\ \A c \in 1 .. Len(cs) : IsCell(cs[c], Stored(Len(fns), Len(tables)))
  /\ tables \in Seq([items : Seq(Stored(Len(fns), Len(tables))), n : Nat \cup {BadCount}])
  /\ Len(fns) <= prog.functions /\ Len(tables) <= prog.packs

(* The prototype of each function made.                                    *)
ShapesOf(fns, prog) == [f \in 1 .. Len(fns) |-> prog.protos[fns[f].proto]]

(* A frame within its prototype's bounds.                                  *)
IsFrame(f, shapes, wants) ==
  /\ f \in [func : DOMAIN shapes, base : Nat, top : Nat, want : wants \cup {0}, ret_to : Nat,
            varargs : Nat, vars : {f.vars}, temps : Nat, spread : BOOLEAN]
  /\ IsList(f.vars)
  /\ LET p == shapes[f.func]
     IN  /\ Len(f.vars) \in Fixed(p) .. p.slots
         /\ p.slots + f.temps <= p.registers
         /\ f.varargs <= f.base /\ f.ret_to < f.base - f.varargs
         /\ f.base + p.slots + f.temps <= f.top
         /\ ~f.spread => f.top = f.base + p.registers

(* Where the next temporary of a frame goes.                               *)
Reach(f, shapes) == f.base + shapes[f.func].slots + f.temps

(* The stack a frame's registers need.                                     *)
Room(f, shapes) == f.base + shapes[f.func].registers

(* A callee over its caller: its results will fit.                         *)
Nests(f, g, shapes) ==
  /\ g.ret_to = Reach(f, shapes)
  /\ ~f.spread
  /\ g.want # All => shapes[f.func].slots + f.temps + g.want <= shapes[f.func].registers

FramesOK(fs, shapes, wants, height) ==
  /\ IsList(fs)
  /\ \A k \in 1 .. Len(fs) :
       IsFrame(fs[k], shapes, wants) /\ fs[k].top <= height /\ Room(fs[k], shapes) <= height
  /\ \A k \in 1 .. Len(fs) - 1 : Nests(fs[k], fs[k + 1], shapes)
  /\ \A j, k \in 1 .. Len(fs) : j < k => Reach(fs[j], shapes) <= fs[k].ret_to

(* The slot of a local in scope, and its variable.                         *)
IsLocal(slot, variable, fs) ==
  \E k \in 1 .. Len(fs) : \E i \in 1 .. Len(fs[k].vars) :
    slot = fs[k].base + i - 1 /\ variable = fs[k].vars[i]

(* The open cells and the map that lists them.                             *)
OpenOK(listed, cs, owners, fs, shapes) ==
  /\ IsList(owners) /\ Len(owners) = Len(cs)
  /\ DOMAIN listed \subseteq Nat
  /\ \A s \in DOMAIN listed :
       /\ listed[s] \in 1 .. Len(cs) /\ cs[listed[s]] = Open(s)
       /\ IsLocal(s, owners[listed[s]], fs)
  /\ \A c \in 1 .. Len(cs) :
       cs[c].kind = "Open" => cs[c].slot \in DOMAIN listed /\ listed[cs[c].slot] = c

(* The local that names a vararg table holds a table.                      *)
PacksNamed(fs, shapes, v, tables) ==
  \A k \in 1 .. Len(fs) :
    shapes[fs[k].func].vararg = "Table" =>
      At(v, fs[k].base + shapes[fs[k].func].params) \in {"table"} \X (1 .. tables)

Shapes == ShapesOf(functions, program)
Holds == Stored(Len(functions), Len(packs))

(* The machine's words agree with each other.                              *)
Sound(v, fs, listed, cs, owners, fns, tables, prog) ==
  /\ ArenasOK(fns, cs, tables, prog)
  /\ v \in Seq(Stored(Len(fns), Len(tables)))
  /\ FramesOK(fs, ShapesOf(fns, prog), prog.wants, Len(v))
  /\ OpenOK(listed, cs, owners, fs, ShapesOf(fns, prog))
  /\ PacksNamed(fs, ShapesOf(fns, prog), v, Len(tables))

IInv ==
  /\ program \in Programs /\ outcome \in {"running", "error"}
  /\ Sound(values, frames, open, cells, owner, functions, packs, program)

-----------------------------------------------------------------------------
(* What the stack's operations keep: w is v, or longer, and nothing below  *)
(* slot `from` is another value.                                           *)
Keeps(v, w, from, S) ==
  /\ v \in Seq(S) /\ w \in Seq(S) /\ Len(v) <= Len(w)
  /\ \A s \in 0 .. Len(v) - 1 : s < from => At(w, s) = At(v, s)

(* A slot of the stack holds what the stack holds.                         *)
LEMMA AtType ==
  ASSUME NEW S, NEW v \in Seq(S), NEW s \in Nat, s < Len(v)
  PROVE  At(v, s) \in S
<1>1. s + 1 \in 1 .. Len(v)
  OBVIOUS
<1> QED
  BY <1>1 DEF At

(* A function on 1 .. n is a sequence.                                     *)
LEMMA SequenceOf ==
  ASSUME NEW S, NEW n \in Nat, NEW w, w = [k \in 1 .. n |-> w[k]], \A k \in 1 .. n : w[k] \in S
  PROVE  w \in Seq(S) /\ Len(w) = n
<1>1. w \in [1 .. n -> S]
  OBVIOUS
<1> QED
  BY <1>1

(* What is kept below a slot is kept below a lower one.                    *)
LEMMA KeepsFewer ==
  ASSUME NEW S, NEW v, NEW w, NEW from \in Nat, NEW to \in Nat, to <= from, Keeps(v, w, from, S)
  PROVE  Keeps(v, w, to, S)
<1>1. Len(v) \in Nat
  BY DEF Keeps
<1> QED
  BY <1>1 DEF Keeps

(* Two operations in turn keep what both keep.                             *)
LEMMA KeepsOn ==
  ASSUME NEW S, NEW u, NEW v, NEW w, NEW from, Keeps(u, v, from, S), Keeps(v, w, from, S)
  PROVE  Keeps(u, w, from, S)
<1>1. Len(u) \in Nat /\ Len(v) \in Nat /\ Len(w) \in Nat
  BY DEF Keeps
<1>2. \A s \in 0 .. Len(u) - 1 : s \in 0 .. Len(v) - 1
  BY <1>1 DEF Keeps
<1> QED
  BY <1>1, <1>2 DEF Keeps

(* One slot written.                                                       *)
LEMMA PutKeeps ==
  ASSUME NEW S, NEW v \in Seq(S), NEW slot \in Nat, slot < Len(v), NEW x \in S,
         NEW w, w = Put(v, slot, x)
  PROVE  /\ Keeps(v, w, slot, S) /\ Len(w) = Len(v)
         /\ At(w, slot) = x
         /\ \A s \in Nat : s # slot => At(w, s) = At(v, s)
<1>1. slot + 1 \in 1 .. Len(v) /\ Len(v) \in Nat
  OBVIOUS
<1>2. w \in Seq(S) /\ Len(w) = Len(v) /\ w[slot + 1] = x
  BY <1>1 DEF Put
<1>3. \A s \in Nat : s # slot => w[s + 1] = v[s + 1]
  BY <1>1 DEF Put
<1> QED
  BY <1>1, <1>2, <1>3 DEF Keeps, At

(* One sequence after another.                                             *)
LEMMA ConcatIs ==
  ASSUME NEW S, NEW s \in Seq(S), NEW t \in Seq(S)
  PROVE  /\ s \o t \in Seq(S) /\ Len(s \o t) = Len(s) + Len(t)
         /\ \A k \in 1 .. Len(s) : (s \o t)[k] = s[k]
         /\ \A k \in 1 .. Len(t) : (s \o t)[Len(s) + k] = t[k]
<1>1. s \o t \in Seq(S) /\ Len(s \o t) = Len(s) + Len(t) /\ Len(s) \in Nat /\ Len(t) \in Nat
  OBVIOUS
<1>2. \A k \in 1 .. Len(s) + Len(t) : (s \o t)[k] = IF k <= Len(s) THEN s[k] ELSE t[k - Len(s)]
  OBVIOUS
<1>3. \A k \in 1 .. Len(s) : k \in 1 .. Len(s) + Len(t) /\ k <= Len(s)
  BY <1>1
<1>4. \A k \in 1 .. Len(t) : Len(s) + k \in 1 .. Len(s) + Len(t) /\ ~(Len(s) + k <= Len(s))
                             /\ Len(s) + k - Len(s) = k
  BY <1>1
<1> QED
  BY <1>1, <1>2, <1>3, <1>4

(* The stack grown to a height.                                            *)
LEMMA ReserveKeeps ==
  ASSUME NEW S, NEW v \in Seq(S), Nil \in S, NEW height \in Nat, NEW from \in Nat,
         NEW w, w = Reserve(v, height)
  PROVE  /\ Keeps(v, w, from, S) /\ Len(w) = IF Len(v) < height THEN height ELSE Len(v)
         /\ \A s \in 0 .. Len(v) - 1 : At(w, s) = At(v, s)
<1> DEFINE more == Monus(height, Len(v))
           tail == [k \in 1 .. more |-> Nil]
<1>1. Len(v) \in Nat /\ more \in Nat /\ Len(v) + more = IF Len(v) < height THEN height ELSE Len(v)
  BY DEF Monus
<1> HIDE DEF more
<1>2. tail \in Seq(S) /\ Len(tail) = more
  BY <1>1
<1> HIDE DEF tail
<1>3. w = v \o tail
  BY DEF Reserve, tail, more
<1>4. /\ w \in Seq(S) /\ Len(w) = Len(v) + more
      /\ \A k \in 1 .. Len(v) : w[k] = v[k]
  <2>1. /\ v \o tail \in Seq(S) /\ Len(v \o tail) = Len(v) + Len(tail)
        /\ \A k \in 1 .. Len(v) : (v \o tail)[k] = v[k]
    BY <1>2, ConcatIs
  <2> QED
    BY ONLY <1>2, <1>3, <2>1
<1>5. \A s \in 0 .. Len(v) - 1 : s + 1 \in 1 .. Len(v)
  BY <1>1
<1> QED
  BY <1>1, <1>4, <1>5 DEF Keeps, At

(* A range filled.                                                         *)
LEMMA FillKeeps ==
  ASSUME NEW S, NEW v \in Seq(S), NEW from \in Nat, NEW to, NEW x \in S,
         NEW w, w = Fill(v, from, to, x)
  PROVE  /\ Keeps(v, w, from, S) /\ Len(w) = Len(v)
<1>1. Len(v) \in Nat
  OBVIOUS
<1>2. w = [k \in 1 .. Len(v) |-> IF from < k /\ k <= to THEN x ELSE v[k]]
  BY DEF Fill
<1>3. /\ w = [k \in 1 .. Len(v) |-> w[k]]
      /\ \A k \in 1 .. Len(v) : w[k] \in S
      /\ \A k \in 1 .. Len(v) : ~(from < k) => w[k] = v[k]
  BY <1>2
<1>4. w \in Seq(S) /\ Len(w) = Len(v)
  BY <1>1, <1>3, SequenceOf
<1>5. \A s \in 0 .. Len(v) - 1 : s < from => s + 1 \in 1 .. Len(v) /\ ~(from < s + 1)
  BY <1>1
<1> QED
  BY <1>1, <1>3, <1>4, <1>5 DEF Keeps, At

(* A row moved.                                                            *)
LEMMA ShiftKeeps ==
  ASSUME NEW S, NEW v \in Seq(S), NEW from \in Nat, NEW to \in Nat, NEW count \in Nat,
         from + count <= Len(v), NEW w, w = Shift(v, from, to, count)
  PROVE  /\ Keeps(v, w, to, S) /\ Len(w) = Len(v)
<1>1. Len(v) \in Nat
  OBVIOUS
<1>2. w = [k \in 1 .. Len(v) |-> IF to < k /\ k <= to + count THEN v[k - to + from] ELSE v[k]]
  BY DEF Shift
<1>3. \A k \in 1 .. Len(v) : to < k /\ k <= to + count => k - to + from \in 1 .. Len(v)
  BY <1>1
<1>4. /\ w = [k \in 1 .. Len(v) |-> w[k]]
      /\ \A k \in 1 .. Len(v) : w[k] \in S
      /\ \A k \in 1 .. Len(v) : ~(to < k) => w[k] = v[k]
  BY <1>2, <1>3
<1>5. w \in Seq(S) /\ Len(w) = Len(v)
  BY <1>1, <1>4, SequenceOf
<1>6. \A s \in 0 .. Len(v) - 1 : s < to => s + 1 \in 1 .. Len(v) /\ ~(to < s + 1)
  BY <1>1
<1> QED
  BY <1>1, <1>4, <1>5, <1>6 DEF Keeps, At

(* The bounds of a prototype, and of the frame a call of it gets.          *)
LEMMA ProtoBounds ==
  ASSUME NEW p, IsProto(p), NEW callee \in Nat, NEW args \in Nat
  PROVE  /\ p.params \in Nat /\ p.slots \in Nat /\ p.registers \in Nat
         /\ Fixed(p) \in Nat /\ p.params <= Fixed(p) /\ Fixed(p) <= p.slots
         /\ p.slots <= p.registers
         /\ p.vararg = "Table" => p.params < Fixed(p)
         /\ EnterBase(p, callee, args) \in Nat
         /\ EnterVarargs(p, args) \in Nat
         /\ callee < EnterBase(p, callee, args) - EnterVarargs(p, args)
         /\ \/ EnterBase(p, callee, args) = callee + 1
            \/ EnterBase(p, callee, args) = callee + 1 + args
BY DEF IsProto, Fixed, EnterBase, EnterVarargs, Monus

(* A callee's frame is laid out above the callee.                          *)
LaidOut(S, v, p, callee, args, pack, w) ==
  LET base == EnterBase(p, callee, args)
  IN  /\ Keeps(v, w, callee + 1, S)
      /\ base + p.registers <= Len(w)
      /\ p.vararg = "Table" => At(w, base + p.params) = pack

(* call::enter lays a frame out: the rows are reserved, the parameters     *)
(* shifted and what is missing is nil; below the callee nothing is         *)
(* written.                                                                *)
LEMMA EnterKeeps ==
  ASSUME NEW S, NEW v \in Seq(S), Nil \in S, NEW p, IsProto(p),
         NEW callee \in Nat, NEW args \in Nat, callee + 1 + args <= Len(v),
         NEW pack, p.vararg = "Table" => pack \in S,
         NEW w, w = EnterValues(v, p, callee, args, pack),
         NEW base, base = EnterBase(p, callee, args)
  PROVE  LaidOut(S, v, p, callee, args, pack, w)
<1> DEFINE first == callee + 1
           moved == Least(p.params, args)
           height == base + Greatest(p.registers, Fixed(p))
           grown == Reserve(v, height)
           shifted == Shift(grown, first, base, moved)
           placed == IF base # first
                     THEN Fill(shifted, base + moved, base + p.params, Nil)
                     ELSE Fill(grown, first + moved, base + p.params, Nil)
           named == IF p.vararg = "Table" THEN Put(placed, base + p.params, pack) ELSE placed
<1>1. /\ p.params \in Nat /\ p.slots \in Nat /\ p.registers \in Nat
      /\ Fixed(p) \in Nat /\ p.params <= Fixed(p)
      /\ p.vararg = "Table" => p.params < Fixed(p)
      /\ base \in Nat /\ (base = first \/ base = first + args)
  BY ProtoBounds
<1>2. /\ moved \in Nat /\ moved <= p.params /\ moved <= args
      /\ height \in Nat /\ base + p.registers <= height /\ base + Fixed(p) <= height
  BY <1>1 DEF Least, Greatest
<1>3. w = Fill(named, base + Fixed(p), base + p.registers, Nil)
  BY DEF EnterValues
<1> HIDE DEF moved, height
<1>4. /\ Keeps(v, grown, first, S) /\ height <= Len(grown) /\ first + args <= Len(grown)
      /\ Len(grown) \in Nat
  <2>1. Len(v) \in Nat
    OBVIOUS
  <2>2. /\ Keeps(v, grown, first, S)
        /\ Len(grown) = IF Len(v) < height THEN height ELSE Len(v)
    BY <1>2, ReserveKeeps
  <2> HIDE DEF grown
  <2> QED
    BY <1>2, <2>1, <2>2
<1>5. Keeps(grown, placed, first, S) /\ Len(placed) = Len(grown)
  <2> HIDE DEF grown
  <2>1. grown \in Seq(S)
    BY <1>4 DEF Keeps
  <2>2. CASE base # first
    <3>1. first + moved <= Len(grown)
      BY <1>2, <1>4
    <3>2. Keeps(grown, shifted, base, S) /\ Len(shifted) = Len(grown)
      BY <1>1, <1>2, <2>1, <3>1, ShiftKeeps, SMTT(30)
    <3> DEFINE x == Fill(shifted, base + moved, base + p.params, Nil)
    <3>3. placed = x
      BY <2>2
    <3> HIDE DEF shifted, placed
    <3>4. Keeps(shifted, x, base + moved, S) /\ Len(x) = Len(shifted)
      <4>1. shifted \in Seq(S) /\ base + moved \in Nat
        BY <1>1, <1>2, <3>2, SMTT(30) DEF Keeps
      <4> QED
        BY <4>1, FillKeeps
    <3> HIDE DEF x
    <3>5. Keeps(shifted, x, base, S)
      BY <1>1, <1>2, <3>4, KeepsFewer
    <3>6. Keeps(grown, x, base, S)
      BY <3>2, <3>5, KeepsOn
    <3>7. Keeps(grown, x, first, S)
      BY <1>1, <3>6, KeepsFewer
    <3> QED
      BY <3>2, <3>3, <3>4, <3>7
  <2>3. CASE base = first
    <3> DEFINE x == Fill(grown, first + moved, base + p.params, Nil)
    <3>1. placed = x
      BY <2>3
    <3> HIDE DEF placed
    <3>2. Keeps(grown, x, first + moved, S) /\ Len(x) = Len(grown)
      BY <1>2, <2>1, FillKeeps
    <3> HIDE DEF x
    <3>3. Keeps(grown, x, first, S)
      BY <1>2, <3>2, KeepsFewer
    <3> QED
      BY <3>1, <3>2, <3>3
  <2> QED
    BY <2>2, <2>3
<1> HIDE DEF placed, grown
<1>6. /\ Keeps(placed, named, first, S) /\ Len(named) = Len(placed)
      /\ p.vararg = "Table" => At(named, base + p.params) = pack
  <2>1. placed \in Seq(S)
    BY <1>5 DEF Keeps
  <2>2. CASE p.vararg = "Table"
    <3> DEFINE at == base + p.params
               x == Put(placed, at, pack)
    <3>1. at \in Nat /\ at < Len(placed) /\ first <= at
      <4>1. /\ first \in Nat /\ first <= base /\ base \in Nat /\ p.params \in Nat
            /\ Fixed(p) \in Nat /\ p.params < Fixed(p)
        BY <1>1, <2>2
      <4>2. base + Fixed(p) <= Len(placed) /\ Len(placed) \in Nat
        <5> HIDE DEF first
        <5> QED
          BY <1>2, <1>4, <1>5, <4>1
      <4> HIDE DEF first
      <4> QED
        BY <4>1, <4>2
    <3>2. named = x
      BY <2>2
    <3> HIDE DEF named, at
    <3>3. Keeps(placed, x, at, S) /\ Len(x) = Len(placed) /\ At(x, at) = pack
      BY <2>1, <2>2, <3>1, PutKeeps
    <3> HIDE DEF x
    <3>4. Keeps(placed, x, first, S)
      BY <3>1, <3>3, KeepsFewer
    <3> QED
      BY <3>2, <3>3, <3>4 DEF at
  <2>3. CASE p.vararg # "Table"
    <3>1. named = placed /\ Len(placed) \in Nat
      BY <2>1, <2>3
    <3> HIDE DEF named
    <3> QED
      BY <2>1, <2>3, <3>1 DEF Keeps
  <2> QED
    BY <2>2, <2>3
<1> HIDE DEF named
<1>7. /\ Keeps(named, w, base + Fixed(p), S) /\ Len(w) = Len(named)
  <2>1. named \in Seq(S) /\ base + Fixed(p) \in Nat
    BY <1>1, <1>6 DEF Keeps
  <2> QED
    BY <1>3, <2>1, FillKeeps
<1>8. Keeps(named, w, first, S)
  BY <1>1, <1>7, KeepsFewer
<1>9. Keeps(v, w, first, S)
  <2>1. Keeps(v, placed, first, S)
    BY <1>4, <1>5, KeepsOn
  <2>2. Keeps(v, named, first, S)
    BY <1>6, <2>1, KeepsOn
  <2> QED
    BY <1>8, <2>2, KeepsOn
<1>10. base + p.registers <= Len(w)
  BY <1>1, <1>2, <1>4, <1>5, <1>6, <1>7
<1>11. p.vararg = "Table" => At(w, base + p.params) = pack
  <2> SUFFICES ASSUME p.vararg = "Table" PROVE At(w, base + p.params) = pack
    OBVIOUS
  <2> DEFINE at == base + p.params
  <2>1. at \in 0 .. Len(named) - 1 /\ at < base + Fixed(p)
    <3>1. /\ base \in Nat /\ p.params \in Nat /\ Fixed(p) \in Nat /\ p.params < Fixed(p)
      BY <1>1
    <3>2. base + Fixed(p) <= Len(named) /\ Len(named) \in Nat
      <4> HIDE DEF first
      <4> QED
        BY <1>2, <1>4, <1>5, <1>6, <3>1
    <3> QED
      BY <3>1, <3>2
  <2> HIDE DEF at
  <2>2. At(w, at) = At(named, at)
    BY <1>7, <2>1 DEF Keeps
  <2> QED
    BY <1>6, <2>2 DEF at
<1> QED
  BY <1>9, <1>10, <1>11 DEF LaidOut

(* Results settle where they are wanted, and disturb nothing below.        *)
LEMMA SettleKeeps ==
  ASSUME NEW S, NEW v \in Seq(S), Nil \in S, NEW from \in Nat, NEW to \in Nat,
         NEW produced \in Nat, from + produced <= Len(v), NEW want \in Nat \cup {All},
         NEW w, w = SettleValues(v, from, to, produced, want)
  PROVE  /\ Keeps(v, w, to, S)
         /\ Kept(produced, want) \in Nat /\ to + Kept(produced, want) <= Len(w)
<1> DEFINE kept == Kept(produced, want)
           moved == Least(produced, kept)
           grown == Reserve(v, to + kept)
           shifted == Shift(grown, from, to, moved)
<1>1. kept \in Nat /\ moved \in Nat /\ moved <= produced
  BY DEF Kept, Least
<1>2. w = Fill(shifted, to + moved, to + kept, Nil)
  BY DEF SettleValues
<1> HIDE DEF kept, moved
<1>3. Keeps(v, grown, to, S) /\ Len(v) <= Len(grown) /\ to + kept <= Len(grown) /\ Len(grown) \in Nat
  <2>1. Len(v) \in Nat
    OBVIOUS
  <2>2. /\ Keeps(v, grown, to, S)
        /\ Len(grown) = IF Len(v) < to + kept THEN to + kept ELSE Len(v)
    BY <1>1, ReserveKeeps
  <2> HIDE DEF grown
  <2> QED
    BY <1>1, <2>1, <2>2
<1> HIDE DEF grown
<1>4. Keeps(grown, shifted, to, S) /\ Len(shifted) = Len(grown)
  <2>1. grown \in Seq(S) /\ from + moved <= Len(grown)
    <3>1. Len(v) \in Nat
      OBVIOUS
    <3>2. grown \in Seq(S)
      BY <1>3 DEF Keeps
    <3>3. from + moved <= Len(grown)
      BY <1>1, <1>3, <3>1
    <3> QED
      BY <3>2, <3>3
  <2> QED
    BY <1>1, <2>1, ShiftKeeps
<1> HIDE DEF shifted
<1>5. Keeps(shifted, w, to + moved, S) /\ Len(w) = Len(shifted)
  <2>1. shifted \in Seq(S)
    BY <1>4 DEF Keeps
  <2> QED
    BY <1>1, <1>2, <2>1, FillKeeps
<1>6. Keeps(shifted, w, to, S)
  BY <1>1, <1>5, KeepsFewer
<1>7. Keeps(v, w, to, S)
  <2>1. Keeps(v, shifted, to, S)
    BY <1>3, <1>4, KeepsOn
  <2> QED
    BY <1>6, <2>1, KeepsOn
<1>8. to + kept <= Len(w)
  BY <1>3, <1>4, <1>5
<1> QED
  BY <1>1, <1>7, <1>8 DEF kept

(* What lies above goes, but not what the frames below keep.               *)
LEMMA TruncateKeeps ==
  ASSUME NEW S, NEW u, NEW v, NEW from \in Nat, Keeps(u, v, from, S),
         NEW height \in Nat, Len(u) <= height, NEW w, w = Truncate(v, height)
  PROVE  /\ Keeps(u, w, from, S)
         /\ Len(w) = IF height < Len(v) THEN height ELSE Len(v)
<1> DEFINE n == Least(height, Len(v))
<1>1. v \in Seq(S) /\ Len(v) \in Nat /\ Len(u) \in Nat /\ Len(u) <= Len(v)
  BY DEF Keeps
<1>2. /\ n \in 0 .. Len(v) /\ n \in Nat /\ Len(u) <= n
      /\ n = IF height < Len(v) THEN height ELSE Len(v)
  BY <1>1 DEF Least
<1>3. w = SubSeq(v, 1, n)
  BY DEF Truncate
<1> HIDE DEF n
<1>4. w \in Seq(S) /\ Len(w) = n /\ \A k \in 1 .. n : w[k] = v[k]
  BY <1>1, <1>2, <1>3
<1>5. \A s \in 0 .. Len(u) - 1 : s + 1 \in 1 .. n
  BY <1>1, <1>2
<1> QED
  BY <1>1, <1>2, <1>4, <1>5 DEF Keeps, At

(* A host function's results, settled over it.                             *)
LEMMA NativeKeeps ==
  ASSUME NEW S, NEW v \in Seq(S), Nil \in S, NEW callee \in Nat, callee <= Len(v),
         NEW results \in Seq(S), NEW want \in Nat \cup {All},
         NEW w, w = NativeValues(v, callee, results, want)
  PROVE  /\ Keeps(v, w, callee, S)
         /\ Kept(Len(results), want) \in Nat /\ callee + Kept(Len(results), want) <= Len(w)
<1> DEFINE mark == Len(v)
           pushed == v \o results
           settled == SettleValues(pushed, mark, callee, Len(results), want)
           end == callee + Kept(Len(results), want)
<1>1. mark \in Nat /\ Len(results) \in Nat
  OBVIOUS
<1>2. pushed \in Seq(S) /\ Len(pushed) = mark + Len(results) /\ \A k \in 1 .. mark : pushed[k] = v[k]
  BY ConcatIs
<1>3. w = Truncate(settled, Greatest(mark, end))
  BY DEF NativeValues
<1> HIDE DEF mark, pushed
<1>4. Keeps(v, pushed, callee, S)
  <2>1. v \in Seq(S) /\ Len(v) <= Len(pushed)
    BY <1>1, <1>2 DEF mark
  <2>2. \A s \in 0 .. Len(v) - 1 : s + 1 \in 1 .. mark
    BY <1>1 DEF mark
  <2> QED
    BY <1>2, <2>1, <2>2 DEF Keeps, At
<1>5. /\ Keeps(pushed, settled, callee, S)
      /\ Kept(Len(results), want) \in Nat /\ end <= Len(settled)
  <2>1. mark + Len(results) <= Len(pushed)
    BY <1>1, <1>2
  <2>2. settled = SettleValues(pushed, mark, callee, Len(results), want)
    OBVIOUS
  <2> HIDE DEF settled
  <2> QED
    BY <1>1, <1>2, <2>1, <2>2, SettleKeeps
<1> HIDE DEF settled
<1>6. Keeps(v, settled, callee, S)
  BY <1>4, <1>5, KeepsOn
<1>7. /\ end \in Nat /\ Greatest(mark, end) \in Nat
      /\ mark <= Greatest(mark, end) /\ end <= Greatest(mark, end)
  BY <1>1, <1>5 DEF Greatest
<1> HIDE DEF end
<1>8. /\ Keeps(v, w, callee, S)
      /\ Len(w) = IF Greatest(mark, end) < Len(settled) THEN Greatest(mark, end) ELSE Len(settled)
  BY <1>3, <1>6, <1>7, TruncateKeeps DEF mark
<1>9. end <= Len(w)
  BY <1>5, <1>7, <1>8
<1> QED
  BY <1>5, <1>8, <1>9 DEF end

-----------------------------------------------------------------------------
(* The frames of a stack.                                                  *)
Bounded(shapes) == \A f \in DOMAIN shapes : IsProto(shapes[f])

(* What is known of a frame within its prototype's bounds.                 *)
LEMMA FrameBounds ==
  ASSUME NEW f, NEW shapes, NEW wants, Bounded(shapes), IsFrame(f, shapes, wants)
  PROVE  /\ f.func \in DOMAIN shapes /\ f.base \in Nat /\ f.top \in Nat /\ f.ret_to \in Nat
         /\ f.varargs \in Nat /\ f.temps \in Nat /\ f.spread \in BOOLEAN /\ f.want \in wants \cup {0}
         /\ IsProto(shapes[f.func])
         /\ shapes[f.func].params \in Nat /\ shapes[f.func].slots \in Nat
         /\ shapes[f.func].registers \in Nat
         /\ shapes[f.func].vararg = "Table" => shapes[f.func].params < shapes[f.func].slots
         /\ Len(f.vars) \in Nat /\ Len(f.vars) <= shapes[f.func].slots
         /\ Fixed(shapes[f.func]) \in Nat /\ Fixed(shapes[f.func]) <= Len(f.vars)
         /\ f.varargs <= f.base /\ f.ret_to < f.base
         /\ Reach(f, shapes) \in Nat /\ Reach(f, shapes) <= f.top
         /\ f.base + shapes[f.func].slots <= Reach(f, shapes) /\ Room(f, shapes) \in Nat
<1> DEFINE p == shapes[f.func]
<1>1. /\ f.func \in DOMAIN shapes /\ f.base \in Nat /\ f.top \in Nat /\ f.ret_to \in Nat
      /\ f.varargs \in Nat /\ f.temps \in Nat /\ f.spread \in BOOLEAN /\ f.want \in wants \cup {0}
  BY DEF IsFrame
<1>2. /\ Len(f.vars) \in Fixed(p) .. p.slots
      /\ f.varargs <= f.base /\ f.ret_to < f.base - f.varargs
      /\ f.base + p.slots + f.temps <= f.top
  BY DEF IsFrame
<1>3. IsProto(p)
  BY <1>1 DEF Bounded
<1>4. /\ p.params \in Nat /\ p.slots \in Nat /\ p.registers \in Nat
      /\ Fixed(p) \in Nat /\ p.params <= Fixed(p) /\ Fixed(p) <= p.slots
      /\ p.vararg = "Table" => p.params < Fixed(p)
  BY <1>3, ProtoBounds
<1> HIDE DEF p
<1>5. Reach(f, shapes) = f.base + p.slots + f.temps
  BY DEF Reach, p
<1>6. /\ Len(f.vars) \in Nat /\ Len(f.vars) <= p.slots /\ Fixed(p) <= Len(f.vars)
      /\ f.ret_to < f.base /\ Reach(f, shapes) \in Nat /\ Reach(f, shapes) <= f.top
      /\ f.base + p.slots <= Reach(f, shapes)
      /\ p.vararg = "Table" => p.params < p.slots
  <2>1. Len(f.vars) \in Nat /\ Len(f.vars) <= p.slots /\ Fixed(p) <= Len(f.vars)
    BY <1>2, <1>4
  <2>2. f.ret_to < f.base
    BY <1>1, <1>2
  <2>3. /\ Reach(f, shapes) \in Nat /\ Reach(f, shapes) <= f.top
        /\ f.base + p.slots <= Reach(f, shapes)
    BY <1>1, <1>2, <1>4, <1>5
  <2>4. p.vararg = "Table" => p.params < p.slots
    BY <1>4
  <2> QED
    BY <2>1, <2>2, <2>3, <2>4
<1>7. Room(f, shapes) \in Nat
  BY <1>1, <1>4 DEF Room, p
<1> QED
  BY <1>1, <1>2, <1>3, <1>4, <1>6, <1>7 DEF p

(* A function on 1 .. n is a list.                                         *)
LEMMA ListOf ==
  ASSUME NEW n \in Nat, NEW s, s = [k \in 1 .. n |-> s[k]]
  PROVE  IsList(s) /\ Len(s) = n
<1>1. Len(s) = n
  BY SequenceOf
<1>2. \A k \in 1 .. n : s[k] \in Listed(s)
  BY <1>1 DEF Listed
<1> HIDE DEF Listed
<1> QED
  BY <1>1, <1>2, SequenceOf DEF IsList

(* The last frame replaced.                                                *)
LEMMA WithFrameIs ==
  ASSUME NEW fs, IsList(fs), fs # <<>>, NEW g, NEW gs, gs = WithFrame(fs, g)
  PROVE  /\ Len(fs) \in Nat \ {0} /\ Len(gs) = Len(fs) /\ gs[Len(fs)] = g
         /\ \A k \in 1 .. Len(fs) - 1 : gs[k] = fs[k]
         /\ gs = [k \in 1 .. Len(fs) |-> gs[k]]
<1> DEFINE n == Len(fs)
<1>1. fs \in Seq(Listed(fs)) /\ n \in Nat /\ n # 0
  BY DEF IsList
<1>2. gs = [k \in 1 .. n |-> IF k = n THEN g ELSE fs[k]]
  <2>1. fs = [k \in 1 .. n |-> fs[k]]
    BY <1>1
  <2> QED
    BY <1>1, <2>1 DEF WithFrame
<1>3. gs = [k \in 1 .. n |-> gs[k]]
  BY <1>2
<1>4. Len(gs) = n
  BY <1>1, <1>3, SequenceOf
<1>5. gs[n] = g /\ \A k \in 1 .. n - 1 : gs[k] = fs[k]
  BY <1>1, <1>2
<1> QED
  BY <1>1, <1>3, <1>4, <1>5

(* The running frame changed: what its caller knows of it stays.           *)
LEMMA FrameChanged ==
  ASSUME NEW shapes, NEW wants, NEW height \in Nat, NEW tall \in Nat, height <= tall,
         NEW fs, FramesOK(fs, shapes, wants, height), Bounded(shapes), fs # <<>>,
         NEW g, IsFrame(g, shapes, wants), g.top <= tall, Room(g, shapes) <= tall,
         g.ret_to = fs[Len(fs)].ret_to, g.want = fs[Len(fs)].want,
         NEW gs, gs = WithFrame(fs, g)
  PROVE  /\ FramesOK(gs, shapes, wants, tall)
         /\ Len(gs) = Len(fs) /\ gs[Len(fs)] = g /\ Len(fs) \in Nat \ {0}
         /\ \A k \in 1 .. Len(fs) - 1 : gs[k] = fs[k]
<1> DEFINE n == Len(fs)
<1>1. fs \in Seq(Listed(fs)) /\ n \in Nat /\ n # 0
  BY DEF FramesOK, IsList
<1>2. /\ gs = [k \in 1 .. n |-> gs[k]] /\ Len(gs) = n /\ gs[n] = g
      /\ \A k \in 1 .. n - 1 : gs[k] = fs[k]
  BY WithFrameIs DEF FramesOK
<1>3. IsList(gs) /\ Len(gs) = n
  <2> HIDE DEF n
  <2> QED
    BY <1>1, <1>2, ListOf
<1>4. gs[n] = g /\ \A k \in 1 .. n - 1 : gs[k] = fs[k] /\ k \in 1 .. n /\ k + 1 \in 1 .. n
  <2> HIDE DEF n
  <2>1. \A k \in 1 .. n - 1 : k \in 1 .. n /\ k + 1 \in 1 .. n
    BY ONLY <1>1
  <2> QED
    BY <1>2, <2>1
<1>5. /\ \A k \in 1 .. n :
           IsFrame(fs[k], shapes, wants) /\ fs[k].top <= height /\ Room(fs[k], shapes) <= height
      /\ \A k \in 1 .. n - 1 : Nests(fs[k], fs[k + 1], shapes)
      /\ \A j, k \in 1 .. n : j < k => Reach(fs[j], shapes) <= fs[k].ret_to
  BY DEF FramesOK
<1> HIDE DEF n
<1>6. \A k \in 1 .. n :
        IsFrame(gs[k], shapes, wants) /\ gs[k].top <= tall /\ Room(gs[k], shapes) <= tall
  <2> SUFFICES ASSUME NEW k \in 1 .. n, k # n
               PROVE  IsFrame(gs[k], shapes, wants) /\ gs[k].top <= tall /\ Room(gs[k], shapes) <= tall
    BY <1>4
  <2>1. gs[k] = fs[k]
    BY <1>1, <1>4
  <2>2. fs[k].top \in Nat /\ Room(fs[k], shapes) \in Nat
    BY <1>5, FrameBounds
  <2> QED
    BY <1>5, <2>1, <2>2
<1>7. \A k \in 1 .. n - 1 : Nests(gs[k], gs[k + 1], shapes)
  <2> SUFFICES ASSUME NEW k \in 1 .. n - 1 PROVE Nests(gs[k], gs[k + 1], shapes)
    OBVIOUS
  <2>1. gs[k] = fs[k] /\ gs[k + 1].ret_to = fs[k + 1].ret_to /\ gs[k + 1].want = fs[k + 1].want
    <3>1. k + 1 = n \/ k + 1 \in 1 .. n - 1
      BY <1>1
    <3> QED
      BY <1>4, <3>1 DEF n
  <2> QED
    BY <1>5, <2>1 DEF Nests
<1>8. \A j, k \in 1 .. n : j < k => Reach(gs[j], shapes) <= gs[k].ret_to
  <2> SUFFICES ASSUME NEW j \in 1 .. n, NEW k \in 1 .. n, j < k
               PROVE  Reach(gs[j], shapes) <= gs[k].ret_to
    OBVIOUS
  <2>1. gs[j] = fs[j] /\ gs[k].ret_to = fs[k].ret_to
    <3>1. j \in 1 .. n - 1 /\ (k = n \/ k \in 1 .. n - 1)
      BY <1>1
    <3> QED
      BY <1>4, <3>1 DEF n
  <2> QED
    BY <1>5, <2>1
<1> QED
  BY <1>1, <1>3, <1>4, <1>6, <1>7, <1>8 DEF FramesOK, n

(* A frame pushed over its caller.                                         *)
Pushed(shapes, wants, tall, fs, g, gs) ==
  /\ FramesOK(gs, shapes, wants, tall)
  /\ Len(fs) \in Nat /\ Len(gs) = Len(fs) + 1 /\ gs[Len(fs) + 1] = g
  /\ \A k \in 1 .. Len(fs) : gs[k] = fs[k]

(* A frame that nests in the last one may be pushed over it.               *)
LEMMA FramePushed ==
  ASSUME NEW shapes, NEW wants, NEW height \in Nat, NEW tall \in Nat, height <= tall,
         NEW fs, FramesOK(fs, shapes, wants, height), Bounded(shapes),
         NEW g, IsFrame(g, shapes, wants), g.top <= tall, Room(g, shapes) <= tall,
         fs # <<>> => Nests(fs[Len(fs)], g, shapes),
         NEW gs, gs = Append(fs, g)
  PROVE  Pushed(shapes, wants, tall, fs, g, gs)
<1> DEFINE n == Len(fs)
<1>1. fs \in Seq(Listed(fs)) /\ n \in Nat
  BY DEF FramesOK, IsList
<1>2. /\ Len(gs) = n + 1 /\ gs[n + 1] = g /\ \A k \in 1 .. n : gs[k] = fs[k]
      /\ gs = [k \in 1 .. n + 1 |-> gs[k]]
  <2> DEFINE S == Listed(fs) \cup {g}
  <2>1. fs \in Seq(S) /\ g \in S
    BY <1>1
  <2> HIDE DEF S
  <2>2. /\ gs \in Seq(S) /\ Len(gs) = n + 1 /\ gs[n + 1] = g /\ \A k \in 1 .. n : gs[k] = fs[k]
    BY <2>1
  <2>3. gs = [k \in 1 .. Len(gs) |-> gs[k]]
    BY ONLY <2>2
  <2> QED
    BY <2>2, <2>3
<1>3. IsList(gs)
  BY <1>1, <1>2, ListOf
<1>4. /\ \A k \in 1 .. n :
           IsFrame(fs[k], shapes, wants) /\ fs[k].top <= height /\ Room(fs[k], shapes) <= height
      /\ \A k \in 1 .. n - 1 : Nests(fs[k], fs[k + 1], shapes)
      /\ \A j, k \in 1 .. n : j < k => Reach(fs[j], shapes) <= fs[k].ret_to
  BY DEF FramesOK
<1>5. n # 0 => Nests(fs[n], g, shapes)
  BY <1>1
<1> HIDE DEF n
<1>6. \A k \in 1 .. n + 1 :
        IsFrame(gs[k], shapes, wants) /\ gs[k].top <= tall /\ Room(gs[k], shapes) <= tall
  <2> SUFFICES ASSUME NEW k \in 1 .. n + 1, k # n + 1
               PROVE  IsFrame(gs[k], shapes, wants) /\ gs[k].top <= tall /\ Room(gs[k], shapes) <= tall
    BY <1>2
  <2>1. k \in 1 .. n /\ gs[k] = fs[k]
    <3>1. k \in 1 .. n
      BY <1>1
    <3> QED
      BY <1>2, <3>1
  <2>2. fs[k].top \in Nat /\ Room(fs[k], shapes) \in Nat
    BY <1>4, <2>1, FrameBounds
  <2> QED
    BY <1>4, <2>1, <2>2
<1>7. \A k \in 1 .. n : Nests(gs[k], gs[k + 1], shapes)
  <2> SUFFICES ASSUME NEW k \in 1 .. n PROVE Nests(gs[k], gs[k + 1], shapes)
    OBVIOUS
  <2>1. CASE k = n
    <3>1. n # 0 /\ gs[n] = fs[n] /\ gs[n + 1] = g
      <4>1. n # 0 /\ n \in 1 .. n
        BY <1>1, <2>1
      <4> QED
        BY <1>2, <4>1
    <3> QED
      BY <1>5, <2>1, <3>1
  <2>2. CASE k # n
    <3>1. k \in 1 .. n - 1 /\ k + 1 \in 1 .. n
      BY <1>1, <2>2
    <3> QED
      BY <1>2, <1>4, <3>1
  <2> QED
    BY <2>1, <2>2
<1>8. \A j \in 1 .. n : Reach(fs[j], shapes) <= g.ret_to
  <2> SUFFICES ASSUME NEW j \in 1 .. n PROVE Reach(fs[j], shapes) <= g.ret_to
    OBVIOUS
  <2>1. n \in 1 .. n /\ g.ret_to = Reach(fs[n], shapes) /\ (j = n \/ j < n)
    BY <1>1, <1>5 DEF Nests
  <2>2. CASE j = n
    <3>1. Reach(fs[n], shapes) \in Nat
      BY <1>4, <2>1, FrameBounds
    <3> QED
      BY <2>1, <2>2, <3>1
  <2>3. CASE j < n
    <3>1. Reach(fs[j], shapes) <= fs[n].ret_to
      BY <1>4, <2>1, <2>3
    <3>2. IsFrame(fs[n], shapes, wants) /\ IsFrame(fs[j], shapes, wants)
      BY <1>4, <2>1
    <3>3. /\ fs[n].ret_to \in Nat /\ fs[n].base \in Nat /\ fs[n].ret_to < fs[n].base
          /\ shapes[fs[n].func].slots \in Nat
          /\ fs[n].base + shapes[fs[n].func].slots <= Reach(fs[n], shapes)
          /\ Reach(fs[n], shapes) \in Nat
      BY <3>2, FrameBounds
    <3>4. Reach(fs[j], shapes) \in Nat
      BY <3>2, FrameBounds
    <3>5. fs[n].ret_to <= Reach(fs[n], shapes)
      BY ONLY <3>3
    <3> QED
      BY ONLY <2>1, <3>1, <3>3, <3>4, <3>5
  <2> QED
    BY <2>1, <2>2, <2>3
<1>9. \A j, k \in 1 .. n + 1 : j < k => Reach(gs[j], shapes) <= gs[k].ret_to
  <2> SUFFICES ASSUME NEW j \in 1 .. n + 1, NEW k \in 1 .. n + 1, j < k
               PROVE  Reach(gs[j], shapes) <= gs[k].ret_to
    OBVIOUS
  <2>1. j \in 1 .. n /\ (k = n + 1 \/ k \in 1 .. n)
    BY <1>1
  <2> QED
    BY <1>2, <1>4, <1>8, <2>1
<1>10. \A k \in 1 .. Len(gs) - 1 : k \in 1 .. n
  BY <1>1, <1>2
<1> QED
  <2>1. FramesOK(gs, shapes, wants, tall)
    BY <1>1, <1>2, <1>3, <1>6, <1>7, <1>9, <1>10 DEF FramesOK
  <2> QED
    BY <1>1, <1>2, <2>1 DEF n, Pushed

(* The running frame left.                                                 *)
Popped(shapes, wants, height, fs, gs) ==
  /\ FramesOK(gs, shapes, wants, height)
  /\ Len(fs) \in Nat \ {0} /\ Len(gs) = Len(fs) - 1
  /\ \A k \in 1 .. Len(gs) : gs[k] = fs[k]
  /\ gs # <<>> => Nests(gs[Len(gs)], fs[Len(fs)], shapes)

(* Without the running frame the rest stand as they did.                   *)
LEMMA FramePopped ==
  ASSUME NEW shapes, NEW wants, NEW height \in Nat,
         NEW fs, FramesOK(fs, shapes, wants, height), fs # <<>>,
         NEW gs, gs = SubSeq(fs, 1, Len(fs) - 1)
  PROVE  Popped(shapes, wants, height, fs, gs)
<1> DEFINE n == Len(fs)
<1>1. fs \in Seq(Listed(fs)) /\ n \in Nat /\ n # 0
  BY DEF FramesOK, IsList
<1>2. /\ Len(gs) = n - 1 /\ n - 1 \in Nat /\ \A k \in 1 .. n - 1 : gs[k] = fs[k]
      /\ gs = [k \in 1 .. n - 1 |-> gs[k]]
  <2>1. n - 1 \in Nat /\ n - 1 <= n
    BY <1>1
  <2> DEFINE m == n - 1
  <2> HIDE DEF m
  <2>2. gs = SubSeq(fs, 1, m)
    BY DEF m
  <2>3. m \in 0 .. n
    BY <1>1, <2>1 DEF m
  <2>4. gs \in Seq(Listed(fs)) /\ Len(gs) = m /\ \A k \in 1 .. m : gs[k] = fs[k]
    BY <1>1, <2>2, <2>3
  <2>5. gs = [k \in 1 .. m |-> gs[k]]
    BY <2>4
  <2> QED
    BY <2>1, <2>4, <2>5 DEF m
<1>3. IsList(gs)
  BY <1>1, <1>2, ListOf
<1>4. /\ \A k \in 1 .. n :
           IsFrame(fs[k], shapes, wants) /\ fs[k].top <= height /\ Room(fs[k], shapes) <= height
      /\ \A k \in 1 .. n - 1 : Nests(fs[k], fs[k + 1], shapes)
      /\ \A j, k \in 1 .. n : j < k => Reach(fs[j], shapes) <= fs[k].ret_to
  BY DEF FramesOK
<1>5. gs # <<>> => n - 1 \in 1 .. n - 1
  BY <1>1, <1>2, <1>3 DEF IsList
<1> HIDE DEF n
<1>6. \A k \in 1 .. n - 1 : k \in 1 .. n
  BY <1>1
<1>7. \A k \in 1 .. Len(gs) - 1 : k \in 1 .. n - 1 /\ k + 1 \in 1 .. n - 1
  BY <1>1, <1>2
<1>8. \A k \in 1 .. Len(gs) - 1 : Nests(gs[k], gs[k + 1], shapes)
  BY <1>2, <1>4, <1>7
<1>9. FramesOK(gs, shapes, wants, height)
  <2>1. \A k \in 1 .. n - 1 :
          IsFrame(gs[k], shapes, wants) /\ gs[k].top <= height /\ Room(gs[k], shapes) <= height
    BY <1>2, <1>4, <1>6
  <2>2. \A j, k \in 1 .. n - 1 : j < k => Reach(gs[j], shapes) <= gs[k].ret_to
    BY <1>2, <1>4, <1>6
  <2> QED
    BY <1>2, <1>3, <1>8, <2>1, <2>2 DEF FramesOK
<1>10. gs # <<>> => Nests(gs[Len(gs)], fs[n], shapes)
  <2> SUFFICES ASSUME gs # <<>> PROVE Nests(gs[Len(gs)], fs[n], shapes)
    OBVIOUS
  <2>1. n - 1 \in 1 .. n - 1 /\ n - 1 + 1 = n
    BY <1>1, <1>5
  <2> QED
    BY <1>2, <1>4, <2>1
<1> QED
  BY <1>1, <1>2, <1>9, <1>10 DEF n, Popped

(* More functions have been made.                                          *)
Extends(shapes, more) == \A f \in DOMAIN shapes : f \in DOMAIN more /\ more[f] = shapes[f]

(* The same frames, over more functions and a higher stack.                *)
LEMMA FramesGrown ==
  ASSUME NEW shapes, NEW more, Extends(shapes, more), NEW wants, Bounded(shapes),
         NEW height \in Nat, NEW tall \in Nat, height <= tall,
         NEW fs, FramesOK(fs, shapes, wants, height)
  PROVE  FramesOK(fs, more, wants, tall)
<1>1. \A k \in 1 .. Len(fs) :
        /\ IsFrame(fs[k], shapes, wants) /\ fs[k].func \in DOMAIN shapes
        /\ fs[k].top <= height /\ fs[k].top \in Nat
        /\ Room(fs[k], shapes) <= height /\ Room(fs[k], shapes) \in Nat
  BY FrameBounds DEF FramesOK
<1>2. \A k \in 1 .. Len(fs) : fs[k].func \in DOMAIN more /\ more[fs[k].func] = shapes[fs[k].func]
  BY <1>1 DEF Extends
<1>3. \A k \in 1 .. Len(fs) : IsFrame(fs[k], more, wants)
  <2> SUFFICES ASSUME NEW k \in 1 .. Len(fs) PROVE IsFrame(fs[k], more, wants)
    OBVIOUS
  <2> DEFINE f == fs[k]
  <2>1. IsFrame(f, shapes, wants) /\ f.func \in DOMAIN more /\ more[f.func] = shapes[f.func]
    BY <1>1, <1>2
  <2> HIDE DEF f
  <2>2. IsFrame(f, more, wants)
    BY <2>1 DEF IsFrame
  <2> QED
    BY <2>2 DEF f
<1>4. \A k \in 1 .. Len(fs) : Reach(fs[k], more) = Reach(fs[k], shapes)
  BY <1>2 DEF Reach
<1>5. Len(fs) \in Nat
  BY DEF FramesOK, IsList
<1>6. \A k \in 1 .. Len(fs) - 1 : Nests(fs[k], fs[k + 1], more)
  <2> SUFFICES ASSUME NEW k \in 1 .. Len(fs) - 1 PROVE Nests(fs[k], fs[k + 1], more)
    OBVIOUS
  <2>1. k \in 1 .. Len(fs)
    BY <1>5
  <2>2. Nests(fs[k], fs[k + 1], shapes)
    BY DEF FramesOK
  <2> QED
    BY <1>2, <1>4, <2>1, <2>2 DEF Nests
<1>7. \A k \in 1 .. Len(fs) : fs[k].top <= tall /\ Room(fs[k], more) <= tall
  <2>1. \A k \in 1 .. Len(fs) : Room(fs[k], more) = Room(fs[k], shapes)
    BY <1>2 DEF Room
  <2> QED
    BY <1>1, <2>1
<1> QED
  BY <1>3, <1>4, <1>6, <1>7 DEF FramesOK

(* What was local is local still: the frames, and more of their locals.    *)
Stays(fs, gs) ==
  \A k \in 1 .. Len(fs) :
    /\ k \in 1 .. Len(gs) /\ gs[k].base = fs[k].base /\ gs[k].func = fs[k].func
    /\ \A i \in 1 .. Len(fs[k].vars) :
         i \in 1 .. Len(gs[k].vars) /\ gs[k].vars[i] = fs[k].vars[i]

(* The functions the frames run are among those made.                      *)
Runs(fs, shapes) == \A k \in 1 .. Len(fs) : fs[k].func \in DOMAIN shapes

(* Frames on the stack run functions that were made.                       *)
LEMMA FramesRun ==
  ASSUME NEW fs, NEW shapes, NEW wants, NEW height, FramesOK(fs, shapes, wants, height)
  PROVE  Runs(fs, shapes)
BY DEF FramesOK, IsFrame, Runs

(* A slot that is a local in scope is one still after such a change.       *)
LEMMA LocalKept ==
  ASSUME NEW fs, NEW gs, Stays(fs, gs), NEW s, NEW x, IsLocal(s, x, fs)
  PROVE  IsLocal(s, x, gs)
<1>1. PICK k \in 1 .. Len(fs) : \E i \in 1 .. Len(fs[k].vars) :
        s = fs[k].base + i - 1 /\ x = fs[k].vars[i]
  BY DEF IsLocal
<1>2. PICK i \in 1 .. Len(fs[k].vars) :
        s = fs[k].base + i - 1 /\ x = fs[k].vars[i]
  BY <1>1
<1>3. /\ k \in 1 .. Len(gs) /\ i \in 1 .. Len(gs[k].vars)
      /\ gs[k].base = fs[k].base /\ gs[k].vars[i] = fs[k].vars[i]
  BY DEF Stays
<1> QED
  BY <1>2, <1>3 DEF IsLocal

(* The open cells stay, others may be closed ones.                         *)
LEMMA OpenKept ==
  ASSUME NEW shapes, NEW more, Extends(shapes, more), NEW fs, NEW gs, Stays(fs, gs),
         Runs(fs, shapes), NEW listed, NEW cs, NEW ds, NEW owners, NEW holders,
         OpenOK(listed, cs, owners, fs, shapes),
         IsList(cs), IsList(ds), IsList(holders), Len(holders) = Len(ds), Len(cs) <= Len(ds),
         \A c \in 1 .. Len(cs) :
           holders[c] = owners[c] /\ (ds[c] = cs[c] \/ {cs[c].kind, ds[c].kind} = {"Closed"}),
         \A c \in 1 .. Len(ds) : c \notin 1 .. Len(cs) => ds[c].kind = "Closed"
  PROVE  OpenOK(listed, ds, holders, gs, more)
<1>1. Len(cs) \in Nat /\ Len(ds) \in Nat
  BY DEF IsList
<1>2. ASSUME NEW s \in DOMAIN listed
      PROVE  /\ listed[s] \in 1 .. Len(ds) /\ ds[listed[s]] = Open(s)
             /\ IsLocal(s, holders[listed[s]], gs)
  <2>1. /\ listed[s] \in 1 .. Len(cs) /\ cs[listed[s]] = Open(s)
        /\ IsLocal(s, owners[listed[s]], fs)
    BY DEF OpenOK
  <2>2. cs[listed[s]].kind = "Open"
    BY <2>1 DEF Open
  <2>3. ds[listed[s]] = Open(s) /\ holders[listed[s]] = owners[listed[s]]
    BY <2>1, <2>2
  <2>4. listed[s] \in 1 .. Len(ds)
    BY <1>1, <2>1
  <2> QED
    BY <2>1, <2>3, <2>4, LocalKept
<1>3. ASSUME NEW c \in 1 .. Len(ds), ds[c].kind = "Open"
      PROVE  ds[c].slot \in DOMAIN listed /\ listed[ds[c].slot] = c
  <2>1. c \in 1 .. Len(cs) /\ ds[c] = cs[c]
    BY <1>3
  <2> QED
    BY <1>3, <2>1 DEF OpenOK
<1> QED
  BY <1>2, <1>3 DEF OpenOK

(* The local that names a table is not written: the frames left.           *)
LEMMA PacksKept ==
  ASSUME NEW shapes, NEW more, Extends(shapes, more), NEW fs, NEW gs, Runs(fs, shapes),
         NEW v, NEW w, NEW tables \in Nat, NEW made \in Nat, tables <= made,
         PacksNamed(fs, shapes, v, tables),
         \A k \in 1 .. Len(gs) :
           /\ k \in 1 .. Len(fs) /\ gs[k].base = fs[k].base /\ gs[k].func = fs[k].func
           /\ shapes[fs[k].func].vararg = "Table" =>
                At(w, fs[k].base + shapes[fs[k].func].params)
                  = At(v, fs[k].base + shapes[fs[k].func].params)
  PROVE  PacksNamed(gs, more, w, made)
<1> SUFFICES ASSUME NEW k \in 1 .. Len(gs), more[gs[k].func].vararg = "Table"
             PROVE  At(w, gs[k].base + more[gs[k].func].params) \in {"table"} \X (1 .. made)
  BY DEF PacksNamed
<1>1. k \in 1 .. Len(fs) /\ more[gs[k].func] = shapes[fs[k].func] /\ gs[k].base = fs[k].base
  BY DEF Extends, Runs
<1>2. At(v, fs[k].base + shapes[fs[k].func].params) \in {"table"} \X (1 .. tables)
  BY <1>1 DEF PacksNamed
<1>3. At(w, gs[k].base + more[gs[k].func].params) \in {"table"} \X (1 .. tables)
  BY <1>1, <1>2
<1>4. 1 .. tables \subseteq 1 .. made
  OBVIOUS
<1> QED
  BY <1>3, <1>4

(* A frame's own local that names a table is below its temporaries.        *)
LEMMA NamedBelow ==
  ASSUME NEW shapes, NEW wants, NEW height \in Nat, Bounded(shapes),
         NEW fs, FramesOK(fs, shapes, wants, height),
         NEW k \in 1 .. Len(fs), shapes[fs[k].func].vararg = "Table",
         NEW at, at = fs[k].base + shapes[fs[k].func].params
  PROVE  at \in Nat /\ at < fs[k].base + shapes[fs[k].func].slots /\ at < height
<1> DEFINE f == fs[k]
           p == shapes[f.func]
<1>1. /\ f.base \in Nat /\ f.top \in Nat /\ p.params \in Nat /\ p.slots \in Nat
      /\ p.params < p.slots
      /\ Reach(f, shapes) \in Nat /\ Reach(f, shapes) <= f.top /\ f.base + p.slots <= Reach(f, shapes)
  BY FrameBounds DEF FramesOK
<1>2. f.top <= height
  BY DEF FramesOK
<1> HIDE DEF f, p
<1>3. at = f.base + p.params
  BY DEF f, p
<1>4. at \in Nat /\ at < f.base + p.slots /\ at < height
  BY <1>1, <1>2, <1>3
<1> QED
  BY <1>4 DEF f, p

(* A frame's locals are below the frames above it.                         *)
LEMMA FramesApart ==
  ASSUME NEW shapes, NEW wants, NEW height \in Nat, Bounded(shapes),
         NEW fs, FramesOK(fs, shapes, wants, height),
         NEW j \in 1 .. Len(fs), NEW k \in 1 .. Len(fs), j < k
  PROVE  fs[j].base + shapes[fs[j].func].slots < fs[k].base
<1> DEFINE f == fs[j]
           g == fs[k]
<1>1. IsFrame(f, shapes, wants) /\ IsFrame(g, shapes, wants) /\ Reach(f, shapes) <= g.ret_to
  BY DEF FramesOK
<1> HIDE DEF f, g
<1>2. /\ f.base \in Nat /\ shapes[f.func].slots \in Nat /\ Reach(f, shapes) \in Nat
      /\ f.base + shapes[f.func].slots <= Reach(f, shapes)
  BY <1>1, FrameBounds
<1>3. g.base \in Nat /\ g.ret_to \in Nat /\ g.ret_to < g.base
  BY <1>1, FrameBounds
<1>4. f.base + shapes[f.func].slots < g.base
  BY <1>1, <1>2, <1>3
<1> QED
  BY <1>4 DEF f, g

(* Where a local is: in its frame, which is on the stack.                  *)
LEMMA LocalAt ==
  ASSUME NEW shapes, NEW wants, NEW height \in Nat, Bounded(shapes),
         NEW fs, FramesOK(fs, shapes, wants, height), NEW k \in 1 .. Len(fs),
         NEW i \in 1 .. Len(fs[k].vars), NEW s, s = fs[k].base + i - 1
  PROVE  /\ s \in Nat /\ s < height /\ fs[k].base <= s
         /\ s < fs[k].base + shapes[fs[k].func].slots
<1> DEFINE f == fs[k]
<1>1. IsFrame(f, shapes, wants) /\ f.top <= height /\ i \in 1 .. Len(f.vars) /\ s = f.base + i - 1
  BY DEF FramesOK
<1> HIDE DEF f
<1>2. /\ f.base \in Nat /\ f.top \in Nat /\ shapes[f.func].slots \in Nat
      /\ Len(f.vars) \in Nat /\ Len(f.vars) <= shapes[f.func].slots
      /\ Reach(f, shapes) \in Nat /\ Reach(f, shapes) <= f.top
      /\ f.base + shapes[f.func].slots <= Reach(f, shapes)
  BY <1>1, FrameBounds
<1>3. /\ s \in Nat /\ s < height /\ f.base <= s /\ s < f.base + shapes[f.func].slots
  <2>1. i \in Nat /\ 1 <= i /\ i <= shapes[f.func].slots
    BY <1>1, <1>2
  <2> HIDE DEF f
  <2>2. s \in Nat /\ f.base <= s /\ s < f.base + shapes[f.func].slots
    <3>1. PICK b \in Nat : b = f.base
      BY <1>2
    <3>2. PICK n \in Nat : n = shapes[f.func].slots
      BY <1>2
    <3>3. s = b + i - 1
      BY <1>1, <3>1
    <3>4. s \in Nat /\ b <= s /\ s < b + n
      BY ONLY <2>1, <3>1, <3>2, <3>3, SMTT(30)
    <3> QED
      BY <3>1, <3>2, <3>4
  <2> QED
    BY <1>1, <1>2, <2>2, SMTT(30)
<1> QED
  BY <1>3 DEF f

(* One local of a frame names its table, and none of another frame does.   *)
LEMMA OneIsNamed ==
  ASSUME NEW shapes, NEW wants, NEW height \in Nat, Bounded(shapes),
         NEW fs, FramesOK(fs, shapes, wants, height),
         NEW j \in 1 .. Len(fs), NEW i \in 1 .. Len(fs[j].vars), NEW s, s = fs[j].base + i - 1,
         shapes[fs[j].func].vararg = "Table" => i # shapes[fs[j].func].params + 1,
         NEW k \in 1 .. Len(fs), shapes[fs[k].func].vararg = "Table"
  PROVE  s # fs[k].base + shapes[fs[k].func].params
<1> DEFINE named == fs[k].base + shapes[fs[k].func].params
           f == fs[j]
           g == fs[k]
<1>3. s \in Nat /\ f.base <= s /\ s < f.base + shapes[f.func].slots
  BY LocalAt
<1>4. named \in Nat /\ named < g.base + shapes[g.func].slots
  BY NamedBelow
<1>5. /\ IsFrame(f, shapes, wants) /\ IsFrame(g, shapes, wants) /\ Len(fs) \in Nat
  BY DEF FramesOK, IsList
<1>6. /\ f.base \in Nat /\ shapes[f.func].slots \in Nat
      /\ g.base \in Nat /\ shapes[g.func].slots \in Nat /\ shapes[g.func].params \in Nat
  <2> HIDE DEF f, g
  <2> QED
    BY <1>5, FrameBounds
<1>7. g.base <= named
  BY <1>6
<1>8. CASE j = k
  <2>1. i # shapes[g.func].params + 1 /\ s = g.base + i - 1 /\ named = g.base + shapes[g.func].params
    BY <1>8
  <2> HIDE DEF f, g, named
  <2>2. PICK b \in Nat : b = g.base
    BY <1>6
  <2>3. PICK n \in Nat : n = shapes[g.func].params
    BY <1>6
  <2>4. i \in Int /\ i # n + 1 /\ s = b + i - 1 /\ named = b + n
    BY <2>1, <2>2, <2>3
  <2>5. s # named
    BY ONLY <2>4, b \in Nat, n \in Nat
  <2> QED
    BY <2>5 DEF named
<1>9. CASE j < k
  <2>1. f.base + shapes[f.func].slots < g.base
    BY <1>9, FramesApart
  <2> HIDE DEF f, g, named
  <2>2. s # named
    BY <1>3, <1>4, <1>6, <1>7, <2>1
  <2> QED
    BY <2>2 DEF named
<1>10. CASE k < j
  <2>1. g.base + shapes[g.func].slots < f.base
    BY <1>10, FramesApart
  <2> HIDE DEF f, g, named
  <2>2. s # named
    BY <1>3, <1>4, <1>6, <1>7, <2>1
  <2> QED
    BY <2>2 DEF named
<1> QED
  BY <1>5, <1>8, <1>9, <1>10

(* Two open cells of one slot are one cell.                                *)
LEMMA OpenIs ==
  ASSUME NEW s, NEW t, Open(s) = Open(t)
  PROVE  s = t
<1>1. Open(s).slot = Open(t).slot
  OBVIOUS
<1> QED
  BY <1>1 DEF Open

(* Vm::close from a slot: the cells below stay open, the others hold their *)
(* slot's value.                                                           *)
LEMMA OpenClosed ==
  ASSUME NEW shapes, NEW wants, Bounded(shapes), NEW S, NEW v \in Seq(S),
         NEW fs, FramesOK(fs, shapes, wants, Len(v)), OpenOK(open, cells, owner, fs, shapes),
         IsList(cells), \A c \in 1 .. Len(cells) : IsCell(cells[c], S),
         NEW from \in Nat, NEW gs,
         \A s \in Nat : \A x : IsLocal(s, x, fs) /\ s < from => IsLocal(s, x, gs),
         NEW ds, ds = ClosedCells(v, from)
  PROVE  /\ OpenOK(StillOpen(from), ds, owner, gs, shapes)
         /\ IsList(ds) /\ Len(ds) = Len(cells) /\ \A c \in 1 .. Len(ds) : IsCell(ds[c], S)
<1> DEFINE shut(c) == \E s \in DOMAIN open : s >= from /\ open[s] = c
           at(c) == CHOOSE s \in DOMAIN open : s >= from /\ open[s] = c
           n == Len(cells)
<1>1. n \in Nat /\ Len(v) \in Nat
  BY DEF IsList
<1>2. /\ ds = [c \in 1 .. n |-> ds[c]]
      /\ \A c \in 1 .. n : shut(c) => ds[c] = Closed(At(v, at(c)))
      /\ \A c \in 1 .. n : ~shut(c) => ds[c] = cells[c]
  BY DEF ClosedCells
<1>3. \A s \in DOMAIN open :
        /\ s \in Nat /\ s < Len(v) /\ open[s] \in 1 .. n /\ cells[open[s]] = Open(s)
        /\ IsLocal(s, owner[open[s]], fs)
  <2> SUFFICES ASSUME NEW s \in DOMAIN open
               PROVE  /\ s \in Nat /\ s < Len(v) /\ open[s] \in 1 .. n /\ cells[open[s]] = Open(s)
                      /\ IsLocal(s, owner[open[s]], fs)
    OBVIOUS
  <2>1. /\ open[s] \in 1 .. n /\ cells[open[s]] = Open(s)
        /\ IsLocal(s, owner[open[s]], fs)
    BY DEF OpenOK
  <2>2. PICK k \in 1 .. Len(fs) : \E i \in 1 .. Len(fs[k].vars) : s = fs[k].base + i - 1
    BY <2>1 DEF IsLocal
  <2>3. s \in Nat /\ s < Len(v)
    BY <1>1, <2>2, LocalAt
  <2> QED
    BY <2>1, <2>3
<1>4. IsList(ds) /\ Len(ds) = n
  BY <1>1, <1>2, ListOf
<1>5. \A c \in 1 .. n : IsCell(ds[c], S)
  <2> SUFFICES ASSUME NEW c \in 1 .. n PROVE IsCell(ds[c], S)
    OBVIOUS
  <2>1. CASE shut(c)
    <3>1. at(c) \in DOMAIN open
      BY <2>1
    <3> HIDE DEF at, shut
    <3>2. At(v, at(c)) \in S
      BY <1>3, <3>1, AtType
    <3>3. ds[c] = Closed(At(v, at(c)))
      BY <1>2, <2>1
    <3> QED
      BY <3>2, <3>3 DEF Closed, IsCell
  <2>2. CASE ~shut(c)
    <3> HIDE DEF shut
    <3> QED
      BY <1>2, <2>2
  <2> QED
    BY <2>1, <2>2
<1>6. /\ DOMAIN StillOpen(from) = {s \in DOMAIN open : s < from}
      /\ \A s \in DOMAIN StillOpen(from) : StillOpen(from)[s] = open[s]
  BY DEF StillOpen
<1>7. ASSUME NEW s \in DOMAIN StillOpen(from)
      PROVE  /\ StillOpen(from)[s] \in 1 .. n /\ ds[StillOpen(from)[s]] = Open(s)
             /\ IsLocal(s, owner[StillOpen(from)[s]], gs)
  <2>1. s \in DOMAIN open /\ s < from /\ StillOpen(from)[s] = open[s]
    BY <1>6
  <2>2. ~shut(open[s])
    <3> SUFFICES ASSUME NEW t \in DOMAIN open, t >= from, open[t] = open[s] PROVE FALSE
      OBVIOUS
    <3>1. Open(s) = Open(t) /\ s \in Nat /\ t \in Nat
      BY <1>3, <2>1
    <3>2. s = t
      BY <3>1, OpenIs
    <3> QED
      BY <2>1, <3>1, <3>2
  <2> HIDE DEF shut, at
  <2>3. ds[open[s]] = Open(s)
    BY <1>2, <1>3, <2>1, <2>2
  <2> QED
    BY <1>3, <2>1, <2>3
<1>8. ASSUME NEW c \in 1 .. n, ds[c].kind = "Open"
      PROVE  ds[c].slot \in DOMAIN StillOpen(from) /\ StillOpen(from)[ds[c].slot] = c
  <2>1. ~shut(c)
    <3> SUFFICES ASSUME shut(c) PROVE FALSE
      OBVIOUS
    <3> HIDE DEF shut, at
    <3>1. ds[c] = Closed(At(v, at(c)))
      BY <1>2
    <3>2. ds[c].kind = "Closed"
      BY <3>1 DEF Closed
    <3> QED
      BY <1>8, <3>2
  <2>2. ds[c] = cells[c]
    <3> HIDE DEF shut, at
    <3> QED
      BY <1>2, <2>1
  <2>3. cells[c].slot \in DOMAIN open /\ open[cells[c].slot] = c
    BY <1>8, <2>2 DEF OpenOK
  <2>4. cells[c].slot \in Nat /\ ~(cells[c].slot >= from)
    BY <1>3, <2>1, <2>3
  <2>5. cells[c].slot < from
    BY <2>4
  <2> QED
    BY <1>6, <2>2, <2>3, <2>5
<1>9. IsList(owner) /\ Len(owner) = n /\ DOMAIN open \subseteq Nat
  BY DEF OpenOK
<1> HIDE DEF n
<1> QED
  BY <1>4, <1>5, <1>6, <1>7, <1>8, <1>9 DEF OpenOK, n

-----------------------------------------------------------------------------
(* The arenas name prototypes there are, functions, cells and tables made. *)
LEMMA ArenaBounds ==
  ASSUME NEW prog \in Programs, NEW fns, NEW cs, NEW tables, ArenasOK(fns, cs, tables, prog)
  PROVE  /\ Len(fns) \in Nat /\ Len(cs) \in Nat /\ Len(tables) \in Nat
         /\ Bounded(ShapesOf(fns, prog)) /\ DOMAIN ShapesOf(fns, prog) = 1 .. Len(fns)
         /\ \A f \in 1 .. Len(fns) :
              /\ fns[f].proto \in DOMAIN prog.protos /\ fns[f].upvals \in Seq(1 .. Len(cs))
              /\ ShapesOf(fns, prog)[f] = prog.protos[fns[f].proto]
         /\ prog.wants \subseteq Nat \cup {All} /\ Nil \in Stored(Len(fns), Len(tables))
<1>1. Len(fns) \in Nat /\ Len(cs) \in Nat /\ Len(tables) \in Nat
  BY DEF ArenasOK, IsList
<1>2. \A f \in 1 .. Len(fns) :
        fns[f].proto \in DOMAIN prog.protos /\ fns[f].upvals \in Seq(1 .. Len(cs))
  <2> DEFINE R == [proto : DOMAIN prog.protos, upvals : Seq(1 .. Len(cs))]
  <2>1. fns \in Seq(R)
    BY DEF ArenasOK
  <2> HIDE DEF R
  <2>2. \A f \in 1 .. Len(fns) : fns[f] \in R
    BY <2>1
  <2> QED
    BY <2>2 DEF R
<1>3. /\ DOMAIN ShapesOf(fns, prog) = 1 .. Len(fns)
      /\ \A f \in 1 .. Len(fns) : ShapesOf(fns, prog)[f] = prog.protos[fns[f].proto]
  BY DEF ShapesOf
<1>4. Bounded(ShapesOf(fns, prog))
  BY <1>2, <1>3, ProgramAssumption DEF Bounded
<1>5. prog.wants \subseteq Nat \cup {All}
  BY ProgramAssumption
<1>6. Nil \in Stored(Len(fns), Len(tables))
  BY PlainAssumption DEF Stored
<1> QED
  BY <1>1, <1>2, <1>3, <1>4, <1>5, <1>6

(* Functions, cells and tables are added, cells change what they hold.     *)
LEMMA ArenasGrown ==
  ASSUME NEW prog \in Programs,
         NEW fns, NEW cs, NEW tables, ArenasOK(fns, cs, tables, prog),
         NEW gns, IsList(gns), Len(fns) <= Len(gns), Len(gns) <= prog.functions,
         NEW ds, IsList(ds), Len(cs) <= Len(ds),
         NEW packed, IsList(packed), Len(tables) <= Len(packed), Len(packed) <= prog.packs,
         \A f \in 1 .. Len(fns) : gns[f] = fns[f],
         \A f \in 1 .. Len(gns) :
           \/ f \in 1 .. Len(fns)
           \/ gns[f] \in [proto : DOMAIN prog.protos, upvals : Seq(1 .. Len(ds))],
         \A c \in 1 .. Len(ds) :
           \/ c \in 1 .. Len(cs) /\ ds[c] = cs[c]
           \/ IsCell(ds[c], Stored(Len(gns), Len(packed))),
         \A t \in 1 .. Len(packed) :
           \/ t \in 1 .. Len(tables) /\ packed[t] = tables[t]
           \/ packed[t] \in [items : Seq(Stored(Len(gns), Len(packed))), n : Nat \cup {BadCount}]
  PROVE  /\ ArenasOK(gns, ds, packed, prog)
         /\ Stored(Len(fns), Len(tables)) \subseteq Stored(Len(gns), Len(packed))
         /\ Extends(ShapesOf(fns, prog), ShapesOf(gns, prog))
<1> DEFINE S == Stored(Len(fns), Len(tables))
           T == Stored(Len(gns), Len(packed))
           A == 1 .. Len(cs)
           B == 1 .. Len(ds)
           R == [proto : DOMAIN prog.protos, upvals : Seq(A)]
           Q == [proto : DOMAIN prog.protos, upvals : Seq(B)]
           C == [items : Seq(S), n : Nat \cup {BadCount}]
           D == [items : Seq(T), n : Nat \cup {BadCount}]
<1>1. /\ Len(fns) \in Nat /\ Len(cs) \in Nat /\ Len(tables) \in Nat
      /\ Len(gns) \in Nat /\ Len(ds) \in Nat /\ Len(packed) \in Nat
  BY DEF ArenasOK, IsList
<1>2. S \subseteq T /\ A \subseteq B
  BY <1>1 DEF Stored
<1>3. Seq(A) \subseteq Seq(B) /\ Seq(S) \subseteq Seq(T)
  <2> HIDE DEF A, B, S, T
  <2> QED
    BY <1>2
<1>4. R \subseteq Q /\ C \subseteq D
  <2> HIDE DEF A, B, S, T
  <2> QED
    BY <1>3
<1>5. fns \in Seq(R) /\ tables \in Seq(C) /\ \A c \in 1 .. Len(cs) : IsCell(cs[c], S)
  BY DEF ArenasOK
<1>6. gns \in Seq(Q)
  <2> HIDE DEF R, Q
  <2>1. \A f \in 1 .. Len(fns) : fns[f] \in R
    BY <1>5
  <2>2. \A f \in 1 .. Len(gns) : gns[f] \in Q
    BY <1>4, <2>1 DEF Q
  <2>3. gns = [f \in 1 .. Len(gns) |-> gns[f]]
    BY DEF IsList
  <2> QED
    BY <1>1, <2>2, <2>3, SequenceOf
<1>7. packed \in Seq(D)
  <2> HIDE DEF C, D
  <2>1. \A t \in 1 .. Len(tables) : tables[t] \in C
    BY <1>5
  <2>2. \A t \in 1 .. Len(packed) : packed[t] \in D
    BY <1>4, <2>1 DEF D
  <2>3. packed = [t \in 1 .. Len(packed) |-> packed[t]]
    BY DEF IsList
  <2> QED
    BY <1>1, <2>2, <2>3, SequenceOf
<1>8. \A c \in 1 .. Len(ds) : IsCell(ds[c], T)
  <2> SUFFICES ASSUME NEW c \in 1 .. Len(ds), c \in 1 .. Len(cs) /\ ds[c] = cs[c]
               PROVE  IsCell(ds[c], T)
    OBVIOUS
  <2>1. IsCell(cs[c], S)
    BY <1>5
  <2> HIDE DEF S, T
  <2> QED
    BY <1>2, <2>1 DEF IsCell
<1>9. Extends(ShapesOf(fns, prog), ShapesOf(gns, prog))
  BY <1>1 DEF Extends, ShapesOf
<1>10. ArenasOK(gns, ds, packed, prog)
  BY <1>6, <1>7, <1>8 DEF ArenasOK
<1> QED
  BY <1>2, <1>9, <1>10

(* The running frame, between instructions.                                *)
LEMMA CurrentIs ==
  ASSUME IInv, Running
  PROVE  /\ Bounded(Shapes) /\ Wants \subseteq Nat \cup {All} /\ program \in Programs
         /\ values \in Seq(Holds) /\ Len(values) \in Nat /\ Nil \in Holds
         /\ FramesOK(frames, Shapes, Wants, Len(values))
         /\ frames # <<>> /\ Depth \in Nat \ {0} /\ Depth \in 1 .. Depth
         /\ IsFrame(Current, Shapes, Wants) /\ Current.top <= Len(values)
         /\ Room(Current, Shapes) <= Len(values)
         /\ ProtoOf(Current) = Shapes[Current.func]
         /\ Upvals \in Seq(1 .. Len(cells))
<1>1. /\ ArenasOK(functions, cells, packs, program) /\ program \in Programs
      /\ values \in Seq(Holds) /\ FramesOK(frames, Shapes, Wants, Len(values))
  BY DEF IInv, Sound, Holds, Shapes, Wants
<1>2. /\ Bounded(Shapes) /\ DOMAIN Shapes = 1 .. Len(functions)
      /\ \A f \in 1 .. Len(functions) :
              /\ functions[f].upvals \in Seq(1 .. Len(cells))
              /\ Shapes[f] = program.protos[functions[f].proto]
      /\ program.wants \subseteq Nat \cup {All} /\ Nil \in Stored(Len(functions), Len(packs))
  BY <1>1, ArenaBounds DEF Shapes
<1>3. frames # <<>> /\ Depth \in Nat \ {0} /\ Depth \in 1 .. Depth
  BY <1>1 DEF Running, Depth, FramesOK, IsList
<1>4. /\ IsFrame(Current, Shapes, Wants) /\ Current.top <= Len(values)
      /\ Room(Current, Shapes) <= Len(values)
  BY <1>1, <1>3 DEF FramesOK, Current, Depth
<1>5. Current.func \in 1 .. Len(functions)
  BY <1>2, <1>4 DEF IsFrame
<1>6. ProtoOf(Current) = Shapes[Current.func] /\ Upvals \in Seq(1 .. Len(cells))
  BY <1>2, <1>5 DEF ProtoOf, Proto, Upvals
<1>7. Len(values) \in Nat
  BY <1>1
<1> QED
  BY <1>1, <1>2, <1>3, <1>4, <1>6, <1>7 DEF Wants, Holds

(* The running frame's numbers.                                            *)
LEMMA CurrentBounds ==
  ASSUME IInv, Running, NEW f, f = Current, NEW p, p = ProtoOf(Current)
  PROVE  /\ f.base \in Nat /\ f.top \in Nat /\ f.ret_to \in Nat /\ f.varargs \in Nat /\ f.temps \in Nat
         /\ f.spread \in BOOLEAN /\ f.want \in Nat \cup {All} /\ f.want \in Wants \cup {0}
         /\ IsProto(p) /\ p.params \in Nat /\ p.slots \in Nat /\ p.registers \in Nat
         /\ p.vararg = "Table" => p.params < p.slots
         /\ Fixed(p) \in Nat /\ Len(f.vars) \in Fixed(p) .. p.slots /\ IsList(f.vars)
         /\ p.slots + f.temps <= p.registers
         /\ f.varargs <= f.base /\ f.ret_to < f.base - f.varargs
         /\ f.base + p.slots + f.temps <= f.top /\ f.top <= Len(values) /\ Len(values) \in Nat
         /\ ~f.spread => f.top = f.base + p.registers
         /\ f.base + p.registers <= Len(values)
<1>1. /\ IsFrame(f, Shapes, Wants) /\ Bounded(Shapes) /\ p = Shapes[f.func]
      /\ Room(f, Shapes) <= Len(values)
      /\ f.top <= Len(values) /\ Len(values) \in Nat /\ Wants \subseteq Nat \cup {All}
  BY CurrentIs
<1>2. /\ f.base \in Nat /\ f.top \in Nat /\ f.ret_to \in Nat
      /\ f.varargs \in Nat /\ f.temps \in Nat /\ f.spread \in BOOLEAN /\ f.want \in Wants \cup {0}
      /\ IsProto(p) /\ p.params \in Nat /\ p.slots \in Nat /\ p.registers \in Nat
      /\ p.vararg = "Table" => p.params < p.slots
      /\ Fixed(p) \in Nat
  BY <1>1, FrameBounds
<1>3. /\ IsList(f.vars) /\ Len(f.vars) \in Fixed(p) .. p.slots
      /\ p.slots + f.temps <= p.registers
      /\ f.varargs <= f.base /\ f.ret_to < f.base - f.varargs
      /\ f.base + p.slots + f.temps <= f.top
      /\ ~f.spread => f.top = f.base + p.registers
  BY <1>1 DEF IsFrame
<1>4. f.want \in Nat \cup {All}
  <2>1. f.want \in Wants \/ f.want = 0
    BY <1>2
  <2>2. f.want = 0 => f.want \in Nat
    OBVIOUS
  <2> QED
    BY <1>1, <2>1, <2>2
<1>5. f.base + p.registers <= Len(values)
  BY <1>1 DEF Room
<1> QED
  BY <1>1, <1>2, <1>3, <1>4, <1>5

(* The locals that name tables are below the running frame's temporaries,  *)
(* and those of the frames below it below its results.                     *)
Under(fs, shapes, height, k, at) ==
  LET f == fs[Len(fs)]
  IN  /\ at \in Nat /\ at < height /\ at < f.base + shapes[f.func].slots
      /\ k < Len(fs) => at < f.ret_to

(* The local that names a table of extra arguments lies where no temporary *)
(* of the running frame and no result of a waiting one is written.         *)
LEMMA NamedUnder ==
  ASSUME NEW shapes, NEW wants, NEW height \in Nat, Bounded(shapes),
         NEW fs, FramesOK(fs, shapes, wants, height), NEW last, last = Len(fs),
         NEW k \in 1 .. last, shapes[fs[k].func].vararg = "Table",
         NEW at, at = fs[k].base + shapes[fs[k].func].params
  PROVE  Under(fs, shapes, height, k, at)
<1>1. at \in Nat /\ at < height /\ at < fs[k].base + shapes[fs[k].func].slots
  BY NamedBelow
<1>2. last \in Nat /\ last \in 1 .. last
  BY DEF FramesOK, IsList
<1> DEFINE f == fs[k]
           g == fs[last]
<1>3. IsFrame(f, shapes, wants) /\ IsFrame(g, shapes, wants)
  BY <1>2 DEF FramesOK
<1>4. k < last => Reach(f, shapes) <= g.ret_to
  BY <1>2 DEF FramesOK
<1> HIDE DEF f, g
<1>5. /\ f.base \in Nat /\ shapes[f.func].slots \in Nat /\ Reach(f, shapes) \in Nat
      /\ f.base + shapes[f.func].slots <= Reach(f, shapes)
  BY <1>3, FrameBounds
<1>6. /\ g.base \in Nat /\ shapes[g.func].slots \in Nat /\ g.ret_to \in Nat /\ g.ret_to < g.base
  BY <1>3, FrameBounds
<1>7. at < f.base + shapes[f.func].slots
  BY <1>1 DEF f
<1>8. k < last => at < g.ret_to
  BY <1>1, <1>4, <1>5, <1>6, <1>7
<1>9. at < g.base + shapes[g.func].slots
  <2>1. CASE k = last
    BY <1>7, <2>1 DEF f, g
  <2>2. CASE k < last
    BY <1>1, <1>6, <1>8, <2>2
  <2> QED
    BY <1>2, <2>1, <2>2
<1> QED
  BY <1>1, <1>8, <1>9 DEF g, Under

(* A slot is written that no frame's table is named by.                    *)
LEMMA PutPacks ==
  ASSUME NEW shapes, NEW wants, NEW S, NEW v \in Seq(S), Bounded(shapes),
         NEW fs, FramesOK(fs, shapes, wants, Len(v)), NEW tables, PacksNamed(fs, shapes, v, tables),
         NEW slot \in Nat, slot < Len(v), NEW x \in S,
         \A k \in 1 .. Len(fs) :
           shapes[fs[k].func].vararg = "Table" => slot # fs[k].base + shapes[fs[k].func].params
  PROVE  PacksNamed(fs, shapes, Put(v, slot, x), tables)
<1> SUFFICES ASSUME NEW k \in 1 .. Len(fs), shapes[fs[k].func].vararg = "Table"
             PROVE  At(Put(v, slot, x), fs[k].base + shapes[fs[k].func].params)
                      \in {"table"} \X (1 .. tables)
  BY DEF PacksNamed
<1> DEFINE at == fs[k].base + shapes[fs[k].func].params
<1>1. Len(v) \in Nat
  OBVIOUS
<1>2. at \in Nat /\ at # slot
  BY <1>1, NamedBelow
<1>3. At(v, at) \in {"table"} \X (1 .. tables)
  BY DEF PacksNamed
<1> HIDE DEF at
<1>4. At(Put(v, slot, x), at) = At(v, at)
  BY <1>2, PutKeeps
<1> QED
  BY <1>3, <1>4 DEF at

(* A frame's row, its locals and its temporaries changed.                  *)
Changed(f, top, variables, temps, spread) ==
  [f EXCEPT !.top = top, !.vars = variables, !.temps = temps, !.spread = spread]

(* A row within a prototype's bounds.                                      *)
RowMeets(f, p, top, variables, temps, spread) ==
  /\ top \in Nat /\ temps \in Nat /\ spread \in BOOLEAN
  /\ IsList(variables) /\ Len(variables) \in Fixed(p) .. p.slots
  /\ p.slots + temps <= p.registers /\ f.base + p.slots + temps <= top
  /\ ~spread => top = f.base + p.registers

ChangedTo(f, g, top, variables, temps, spread) ==
  /\ g.func = f.func /\ g.base = f.base /\ g.want = f.want /\ g.ret_to = f.ret_to
  /\ g.varargs = f.varargs
  /\ g.top = top /\ g.vars = variables /\ g.temps = temps /\ g.spread = spread

(* A changed row within its prototype's bounds leaves a frame.             *)
LEMMA ChangedIs ==
  ASSUME NEW shapes, NEW wants, NEW f, IsFrame(f, shapes, wants),
         NEW top, NEW variables, NEW temps, NEW spread,
         RowMeets(f, shapes[f.func], top, variables, temps, spread)
  PROVE  /\ IsFrame(Changed(f, top, variables, temps, spread), shapes, wants)
         /\ ChangedTo(f, Changed(f, top, variables, temps, spread), top, variables, temps, spread)
<1> DEFINE p == shapes[f.func]
           g == Changed(f, top, variables, temps, spread)
<1>0. /\ top \in Nat /\ temps \in Nat /\ spread \in BOOLEAN
      /\ IsList(variables) /\ Len(variables) \in Fixed(p) .. p.slots
      /\ p.slots + temps <= p.registers /\ f.base + p.slots + temps <= top
      /\ ~spread => top = f.base + p.registers
  BY DEF RowMeets
<1> DEFINE R(vs) == [func : DOMAIN shapes, base : Nat, top : Nat, want : wants \cup {0}, ret_to : Nat,
                     varargs : Nat, vars : {vs}, temps : Nat, spread : BOOLEAN]
<1>1. f \in R(f.vars) /\ f.varargs <= f.base /\ f.ret_to < f.base - f.varargs
  BY DEF IsFrame
<1>2. /\ g.func = f.func /\ g.base = f.base /\ g.want = f.want /\ g.ret_to = f.ret_to
      /\ g.varargs = f.varargs
      /\ g.top = top /\ g.vars = variables /\ g.temps = temps /\ g.spread = spread
  BY <1>1 DEF Changed
<1>3. g \in R(g.vars)
  BY <1>0, <1>1, <1>2 DEF Changed
<1> HIDE DEF R, g
<1>4. IsFrame(g, shapes, wants)
  BY <1>0, <1>1, <1>2, <1>3 DEF IsFrame, R
<1> QED
  BY <1>2, <1>4 DEF ChangedTo, g

(* Changing some of the row changes no more.                               *)
IsRow(f) ==
  /\ \A t : [f EXCEPT !.temps = t] = Changed(f, f.top, f.vars, t, f.spread)
  /\ \A t, vs : [f EXCEPT !.temps = t, !.vars = vs] = Changed(f, f.top, vs, t, f.spread)
  /\ \A vs : [f EXCEPT !.vars = vs] = Changed(f, f.top, vs, f.temps, f.spread)
  /\ \A top : [f EXCEPT !.top = top, !.spread = TRUE] = Changed(f, top, f.vars, f.temps, TRUE)
  /\ \A top, t :
       [f EXCEPT !.top = top, !.temps = t, !.spread = FALSE] = Changed(f, top, f.vars, t, FALSE)

(* Each EXCEPT of the instructions is such a change of the row.            *)
LEMMA ChangedOnly ==
  ASSUME NEW shapes, NEW wants, NEW f, IsFrame(f, shapes, wants)
  PROVE  IsRow(f)
<1> DEFINE R == [func : DOMAIN shapes, base : Nat, top : Nat, want : wants \cup {0}, ret_to : Nat,
                 varargs : Nat, vars : {f.vars}, temps : Nat, spread : BOOLEAN]
<1>1. f \in R
  BY DEF IsFrame
<1> QED
  BY <1>1 DEF Changed, IsRow

(* The frames are the same ones: their rows and locals may differ.         *)
Like(fs, gs) ==
  /\ Len(gs) = Len(fs)
  /\ \A k \in 1 .. Len(fs) : gs[k].base = fs[k].base /\ gs[k].func = fs[k].func

(* A row, and locals, that the running frame may have under that height.   *)
RowFits(top, variables, temps, spread, tall) ==
  LET p == ProtoOf(Current)
  IN  /\ top \in Nat /\ temps \in Nat /\ spread \in BOOLEAN /\ tall \in Nat
      /\ IsList(variables) /\ Len(variables) \in Fixed(p) .. p.slots
      /\ p.slots + temps <= p.registers /\ Current.base + p.slots + temps <= top
      /\ ~spread => top = Current.base + p.registers
      /\ Len(values) <= tall /\ top <= tall

(* What having them leaves of the frames.                                  *)
RowChanged(gs, variables, temps, tall) ==
  /\ FramesOK(gs, Shapes, Wants, tall) /\ Like(frames, gs) /\ Depth \in Nat \ {0}
  /\ gs[Depth].vars = variables /\ gs[Depth].temps = temps
  /\ \A k \in 1 .. Depth - 1 : gs[k] = frames[k]

(* The running frame's row changed, and its locals.                        *)
LEMMA RunningChanged ==
  ASSUME IInv, Running,
         NEW top, NEW variables, NEW temps, NEW spread, NEW tall,
         RowFits(top, variables, temps, spread, tall),
         NEW gs, gs = WithFrame(frames, Changed(Current, top, variables, temps, spread))
  PROVE  RowChanged(gs, variables, temps, tall)
<1> DEFINE p == ProtoOf(Current)
<1>0. /\ top \in Nat /\ temps \in Nat /\ spread \in BOOLEAN /\ tall \in Nat
      /\ IsList(variables) /\ Len(variables) \in Fixed(p) .. p.slots
      /\ p.slots + temps <= p.registers /\ Current.base + p.slots + temps <= top
      /\ ~spread => top = Current.base + p.registers
      /\ Len(values) <= tall /\ top <= tall
  BY DEF RowFits
<1> DEFINE g == Changed(Current, top, variables, temps, spread)
<1>1. /\ Bounded(Shapes) /\ Len(values) \in Nat
      /\ FramesOK(frames, Shapes, Wants, Len(values)) /\ frames # <<>>
      /\ IsFrame(Current, Shapes, Wants) /\ p = Shapes[Current.func]
      /\ Room(Current, Shapes) <= Len(values) /\ Room(Current, Shapes) \in Nat
      /\ Depth \in Nat /\ Current = frames[Depth] /\ Depth = Len(frames)
  BY CurrentIs, FrameBounds DEF Current, Depth
<1>2. /\ IsFrame(g, Shapes, Wants)
      /\ g.func = Current.func /\ g.base = Current.base /\ g.want = Current.want
      /\ g.ret_to = Current.ret_to
      /\ g.top = top /\ g.vars = variables /\ g.temps = temps
  <2>1. RowMeets(Current, Shapes[Current.func], top, variables, temps, spread)
    BY <1>0, <1>1 DEF RowMeets
  <2>2. IsFrame(g, Shapes, Wants) /\ ChangedTo(Current, g, top, variables, temps, spread)
    BY <1>1, <2>1, ChangedIs
  <2> QED
    BY <2>2 DEF ChangedTo
<1> HIDE DEF g, p
<1>3. /\ FramesOK(gs, Shapes, Wants, tall)
      /\ Len(gs) = Depth /\ gs[Depth] = g
      /\ \A k \in 1 .. Depth - 1 : gs[k] = frames[k]
  <2>1. /\ g.top <= tall /\ Room(g, Shapes) <= tall
        /\ g.ret_to = frames[Len(frames)].ret_to /\ g.want = frames[Len(frames)].want
    <3>1. Room(g, Shapes) = Room(Current, Shapes)
      BY <1>2 DEF Room
    <3> QED
      BY <1>0, <1>1, <1>2, <3>1
  <2>2. gs = WithFrame(frames, g)
    BY DEF g
  <2>3. /\ FramesOK(gs, Shapes, Wants, tall)
        /\ Len(gs) = Len(frames) /\ gs[Len(frames)] = g
        /\ \A k \in 1 .. Len(frames) - 1 : gs[k] = frames[k]
    <3>1. /\ Len(values) \in Nat /\ tall \in Nat /\ Len(values) <= tall
          /\ FramesOK(frames, Shapes, Wants, Len(values)) /\ Bounded(Shapes) /\ frames # <<>>
          /\ IsFrame(g, Shapes, Wants)
      BY <1>0, <1>1, <1>2
    <3>2. FramesOK(gs, Shapes, Wants, tall)
      BY ONLY <2>1, <2>2, <3>1, FrameChanged
    <3>3. IsList(frames)
      BY <1>1 DEF FramesOK
    <3> QED
      BY <1>1, <2>2, <3>2, <3>3, WithFrameIs
  <2> QED
    BY <1>1, <2>3
<1>4. Like(frames, gs)
  <2> SUFFICES ASSUME NEW k \in 1 .. Depth
               PROVE  gs[k].base = frames[k].base /\ gs[k].func = frames[k].func
    BY <1>1, <1>3 DEF Like
  <2>1. k = Depth \/ k \in 1 .. Depth - 1
    BY <1>1
  <2> QED
    BY <1>1, <1>2, <1>3, <2>1
<1>5. Depth \in Nat \ {0}
  BY CurrentIs
<1> QED
  BY <1>2, <1>3, <1>4, <1>5 DEF RowChanged

(* Likened frames: what is named stays named, what is local stays local.   *)
LEMMA LikePacks ==
  ASSUME NEW fs, NEW gs, Like(fs, gs), NEW shapes, NEW v, NEW tables, PacksNamed(fs, shapes, v, tables)
  PROVE  PacksNamed(gs, shapes, v, tables)
BY DEF Like, PacksNamed

(* Only the running frame's locals change, and only by more of them: what  *)
(* was local is local still.                                               *)
LEMMA RunningStays ==
  ASSUME NEW gs, NEW last \in Nat, last = Len(frames), Like(frames, gs),
         \A k \in 1 .. last - 1 : gs[k] = frames[k],
         Len(gs[last].vars) \in Nat,
         \A i \in 1 .. Len(frames[last].vars) :
           i \in 1 .. Len(gs[last].vars) /\ gs[last].vars[i] = frames[last].vars[i]
  PROVE  Stays(frames, gs)
<1> SUFFICES ASSUME NEW k \in 1 .. last
             PROVE  /\ k \in 1 .. Len(gs) /\ gs[k].base = frames[k].base
                    /\ gs[k].func = frames[k].func
                    /\ \A i \in 1 .. Len(frames[k].vars) :
                         i \in 1 .. Len(gs[k].vars) /\ gs[k].vars[i] = frames[k].vars[i]
  BY DEF Stays
<1>1. k = last \/ k \in 1 .. last - 1
  OBVIOUS
<1> QED
  BY <1>1 DEF Like

(* Stack and frames changed, the same functions, cells and tables.         *)
LEMMA SameHeap ==
  ASSUME IInv, NEW v \in Seq(Holds), NEW fs, FramesOK(fs, Shapes, Wants, Len(v)),
         Stays(frames, fs), PacksNamed(fs, Shapes, v, Len(packs))
  PROVE  Sound(v, fs, open, cells, owner, functions, packs, program)
<1>1. /\ ArenasOK(functions, cells, packs, program)
      /\ FramesOK(frames, Shapes, Wants, Len(values))
      /\ OpenOK(open, cells, owner, frames, Shapes)
  BY DEF IInv, Sound, Shapes, Wants
<1>2. IsList(cells) /\ IsList(owner) /\ Len(owner) = Len(cells) /\ Len(cells) \in Nat
  BY <1>1 DEF ArenasOK, OpenOK, IsList
<1>3. Runs(frames, Shapes)
  BY <1>1, FramesRun
<1>4. Extends(Shapes, Shapes)
  BY DEF Extends
<1>5. OpenOK(open, cells, owner, fs, Shapes)
  <2>1. Len(cells) <= Len(cells)
    BY <1>2
  <2> QED
    BY <1>1, <1>2, <1>3, <1>4, <2>1, OpenKept
<1> QED
  BY <1>1, <1>5 DEF Sound, Holds, Shapes, Wants

(* The running frame's named tables are below its temporaries.             *)
LEMMA TemporaryIsNotNamed ==
  ASSUME IInv, Running, NEW slot \in Nat, Current.base + ProtoOf(Current).slots <= slot,
         NEW k \in 1 .. Len(frames), Shapes[frames[k].func].vararg = "Table"
  PROVE  slot # frames[k].base + Shapes[frames[k].func].params
<1>1. /\ Bounded(Shapes) /\ FramesOK(frames, Shapes, Wants, Len(values)) /\ Len(values) \in Nat
      /\ ProtoOf(Current) = Shapes[Current.func] /\ Current = frames[Len(frames)]
  BY CurrentIs DEF Current, Depth
<1> DEFINE at == frames[k].base + Shapes[frames[k].func].params
           b == Current.base + ProtoOf(Current).slots
<1>2. at \in Nat /\ at < b
  <2>1. Under(frames, Shapes, Len(values), k, at)
    BY <1>1, NamedUnder
  <2> HIDE DEF at
  <2> QED
    BY <1>1, <2>1 DEF Under
<1>3. b \in Nat
  <2>1. Current.base \in Nat /\ ProtoOf(Current).slots \in Nat
    BY CurrentBounds
  <2> QED
    BY <2>1
<1> HIDE DEF at, b
<1>4. slot # at
  BY <1>2, <1>3 DEF b
<1> QED
  BY <1>4 DEF at

(* An instruction that writes the next temporary.                          *)
LEMMA EvaluateSound ==
  ASSUME IInv, Running, NEW S, values \in Seq(S), NEW v \in S, Evaluate(v)
  PROVE  /\ values' \in Seq(S) /\ Len(values') = Len(values)
         /\ FramesOK(frames', Shapes, Wants, Len(values))
         /\ Stays(frames, frames') /\ PacksNamed(frames', Shapes, values', Len(packs))
<1> DEFINE f == Current
           p == ProtoOf(Current)
           t == Current.temps + 1
           slot == TempSlot(Current, t)
<1>1. /\ f.base \in Nat /\ f.top \in Nat /\ f.temps \in Nat /\ f.spread = FALSE
      /\ p.slots \in Nat /\ p.registers \in Nat
      /\ Len(f.vars) \in Fixed(p) .. p.slots /\ IsList(f.vars) /\ Fixed(p) \in Nat
      /\ f.top <= Len(values) /\ Len(values) \in Nat /\ f.top = f.base + p.registers
  BY CurrentBounds DEF Evaluate
<1>2. /\ values' = Put(values, slot, v)
      /\ frames' = WithFrame(frames, [f EXCEPT !.temps = t])
      /\ p.slots + t - 1 + 1 <= p.registers
  BY DEF Evaluate, Fits
<1>3. slot = f.base + p.slots + t - 1
  BY DEF TempSlot
<1> HIDE DEF slot, p, f
<1>4. t \in Nat /\ f.base + p.slots + t <= f.top /\ p.slots + t <= p.registers
  <2>1. t \in Nat
    BY <1>1 DEF f
  <2> HIDE DEF t
  <2> QED
    BY <1>1, <1>2, <2>1, SMTT(30)
<1>5. slot \in Nat /\ f.base + p.slots <= slot /\ slot < Len(values)
  <2>1. 1 <= t
    BY <1>1 DEF f
  <2> HIDE DEF t
  <2> QED
    BY <1>1, <1>3, <1>4, <2>1, SMTT(30)
<1>6. Keeps(values, values', slot, S) /\ Len(values') = Len(values)
  BY <1>2, <1>5, PutKeeps
<1>7. values' \in Seq(S)
  BY <1>6 DEF Keeps
<1>8. /\ FramesOK(frames', Shapes, Wants, Len(values)) /\ Like(frames, frames')
      /\ frames'[Depth].vars = f.vars
      /\ \A k \in 1 .. Depth - 1 : frames'[k] = frames[k]
  <2>1. frames' = WithFrame(frames, Changed(f, f.top, f.vars, t, FALSE))
    <3>1. IsFrame(f, Shapes, Wants)
      BY CurrentIs DEF f
    <3>2. IsRow(f)
      BY <3>1, ChangedOnly
    <3>3. [f EXCEPT !.temps = t] = Changed(f, f.top, f.vars, t, f.spread)
      BY <3>2 DEF IsRow
    <3> QED
      BY <1>1, <1>2, <3>3
  <2> HIDE DEF t
  <2>2. RowFits(f.top, f.vars, t, FALSE, Len(values))
    BY <1>1, <1>4 DEF RowFits, f, p
  <2>3. RowChanged(frames', f.vars, t, Len(values))
    BY <2>1, <2>2, RunningChanged DEF f
  <2> QED
    BY <2>3 DEF RowChanged
<1>9. Stays(frames, frames')
  <2>1. Depth \in Nat /\ Depth = Len(frames) /\ f = frames[Len(frames)]
    BY CurrentIs DEF Depth, f, Current
  <2>2. Len(frames'[Depth].vars) \in Nat /\ frames'[Depth].vars = frames[Depth].vars
    BY <1>1, <1>8, <2>1
  <2> QED
    BY <1>8, <2>1, <2>2, RunningStays
<1>10. PacksNamed(frames', Shapes, values', Len(packs))
  <2>1. /\ Bounded(Shapes) /\ FramesOK(frames, Shapes, Wants, Len(values))
        /\ PacksNamed(frames, Shapes, values, Len(packs))
    BY CurrentIs DEF IInv, Sound, Shapes
  <2>2. \A k \in 1 .. Len(frames) : Shapes[frames[k].func].vararg = "Table" =>
          slot # frames[k].base + Shapes[frames[k].func].params
    BY <1>5, TemporaryIsNotNamed DEF f, p
  <2>3. PacksNamed(frames, Shapes, values', Len(packs))
    BY <1>2, <1>5, <2>1, <2>2, PutPacks
  <2> QED
    BY <1>8, <2>3, LikePacks
<1> QED
  BY <1>6, <1>7, <1>8, <1>9, <1>10

(* What an instruction loads is something the stack may hold.              *)
LEMMA EvaluateSame ==
  ASSUME IInv, Running, NEW v \in Holds, Evaluate(v), UNCHANGED <<open, heap, outcome, program>>
  PROVE  IInv'
<1>1. /\ values' \in Seq(Holds) /\ Len(values') = Len(values)
      /\ FramesOK(frames', Shapes, Wants, Len(values))
      /\ Stays(frames, frames') /\ PacksNamed(frames', Shapes, values', Len(packs))
  <2>1. values \in Seq(Holds)
    BY CurrentIs
  <2> QED
    BY <2>1, EvaluateSound
<1>2. Sound(values', frames', open, cells, owner, functions, packs, program)
  BY <1>1, SameHeap
<1> QED
  BY <1>2 DEF IInv, heap

(* Where a local of the running frame is.                                  *)
LEMMA RunningLocal ==
  ASSUME IInv, Running, NEW k \in 1 .. Len(Current.vars)
  PROVE  /\ LocalSlot(Current, k) \in Nat /\ LocalSlot(Current, k) < Len(values)
         /\ Current.base <= LocalSlot(Current, k)
         /\ LocalSlot(Current, k) < Current.base + ProtoOf(Current).slots
<1>1. /\ Bounded(Shapes) /\ FramesOK(frames, Shapes, Wants, Len(values)) /\ Len(values) \in Nat
      /\ ProtoOf(Current) = Shapes[Current.func] /\ Current = frames[Depth]
      /\ Depth \in 1 .. Len(frames)
  BY CurrentIs DEF Current, Depth
<1> QED
  BY <1>1, LocalAt DEF LocalSlot

(* What is known of each frame.                                            *)
LEMMA FrameIs ==
  ASSUME IInv, NEW k \in 1 .. Depth
  PROVE  LET f == frames[k]
             p == ProtoOf(f)
         IN  /\ IsFrame(f, Shapes, Wants) /\ p = Shapes[f.func] /\ f.func \in 1 .. Len(functions)
             /\ f.top <= Len(values) /\ Len(values) \in Nat
             /\ f.base \in Nat /\ f.top \in Nat /\ f.ret_to \in Nat /\ f.varargs \in Nat
             /\ f.temps \in Nat /\ f.spread \in BOOLEAN /\ f.want \in Wants \cup {0}
             /\ Len(f.vars) \in Nat /\ Fixed(p) \in Nat /\ p.slots \in Nat /\ p.registers \in Nat
             /\ p.params \in Nat /\ Fixed(p) <= Len(f.vars) /\ Len(f.vars) <= p.slots
             /\ p.slots + f.temps <= p.registers
             /\ f.varargs <= f.base /\ f.ret_to < f.base - f.varargs
             /\ f.base + p.slots + f.temps <= f.top
             /\ ~f.spread => f.top = f.base + p.registers
<1> DEFINE f == frames[k]
           p == ProtoOf(f)
<1>1. /\ program \in Programs /\ ArenasOK(functions, cells, packs, program)
      /\ FramesOK(frames, Shapes, Wants, Len(values)) /\ Len(values) \in Nat
  BY DEF IInv, Sound, Shapes, Wants
<1>2. Bounded(Shapes) /\ DOMAIN Shapes = 1 .. Len(functions)
      /\ \A n \in 1 .. Len(functions) : Shapes[n] = program.protos[functions[n].proto]
  BY <1>1, ArenaBounds DEF Shapes
<1>3. IsFrame(f, Shapes, Wants) /\ f.top <= Len(values)
  BY <1>1 DEF FramesOK, Depth
<1> HIDE DEF f
<1>4. f.func \in 1 .. Len(functions) /\ p = Shapes[f.func]
  BY <1>2, <1>3, FrameBounds DEF ProtoOf, Proto
<1>5. /\ f.base \in Nat /\ f.top \in Nat /\ f.ret_to \in Nat /\ f.varargs \in Nat
      /\ f.temps \in Nat /\ f.spread \in BOOLEAN /\ f.want \in Wants \cup {0}
      /\ Len(f.vars) \in Nat /\ Fixed(p) \in Nat /\ p.slots \in Nat /\ p.registers \in Nat
      /\ p.params \in Nat /\ Fixed(p) <= Len(f.vars) /\ Len(f.vars) <= p.slots
  BY <1>2, <1>3, <1>4, FrameBounds
<1>6. /\ p.slots + f.temps <= p.registers
      /\ f.varargs <= f.base /\ f.ret_to < f.base - f.varargs
      /\ f.base + p.slots + f.temps <= f.top
      /\ ~f.spread => f.top = f.base + p.registers
  BY <1>3, <1>4 DEF IsFrame
<1> QED
  BY <1>1, <1>3, <1>4, <1>5, <1>6 DEF f

(* Where an open cell points, on the stack.                                *)
LEMMA OpenIsOnStack ==
  ASSUME IInv, NEW s \in DOMAIN open
  PROVE  /\ s \in Nat /\ s < Len(values)
         /\ IsLocal(s, owner[open[s]], frames)
         /\ open[s] \in 1 .. Len(cells) /\ cells[open[s]] = Open(s)
<1>1. /\ OpenOK(open, cells, owner, frames, Shapes)
      /\ FramesOK(frames, Shapes, Wants, Len(values)) /\ values \in Seq(Holds)
      /\ ArenasOK(functions, cells, packs, program) /\ program \in Programs
  BY DEF IInv, Sound, Holds, Shapes, Wants
<1>2. Bounded(Shapes) /\ Len(values) \in Nat
  BY <1>1, ArenaBounds DEF Shapes
<1>3. /\ IsLocal(s, owner[open[s]], frames)
      /\ open[s] \in 1 .. Len(cells) /\ cells[open[s]] = Open(s)
  BY <1>1 DEF OpenOK
<1>4. PICK k \in 1 .. Len(frames) : \E i \in 1 .. Len(frames[k].vars) : s = frames[k].base + i - 1
  BY <1>3 DEF IsLocal
<1>5. s \in Nat /\ s < Len(values)
  BY <1>1, <1>2, <1>4, LocalAt
<1> QED
  BY <1>3, <1>5

(* A constant is loaded into the next temporary.                           *)
LEMMA LoadSound ==
  ASSUME IInv, Running, NEW v \in Loads, Load(v), UNCHANGED program
  PROVE  IInv'
<1>1. v \in Holds
  BY PlainAssumption DEF Holds, Stored
<1> QED
  BY <1>1, EvaluateSame DEF Load, heap

(* A local is read into the next temporary.                                *)
LEMMA MoveFromLocalSound ==
  ASSUME IInv, Running, NEW k \in 1 .. Len(Current.vars), MoveFromLocal(k), UNCHANGED program
  PROVE  IInv'
<1> DEFINE v == At(values, LocalSlot(Current, k))
<1>1. v \in Holds
  <2>1. LocalSlot(Current, k) \in Nat /\ LocalSlot(Current, k) < Len(values)
    BY RunningLocal
  <2>2. values \in Seq(Holds)
    BY CurrentIs
  <2> QED
    BY <2>1, <2>2, AtType
<1>2. Evaluate(v) /\ UNCHANGED <<open, heap, outcome, program>>
  BY DEF MoveFromLocal, heap
<1> HIDE DEF v
<1> QED
  BY <1>1, <1>2, EvaluateSame

(* An upvalue is read through its cell, off the stack while it is open.    *)
LEMMA GetUpvalSound ==
  ASSUME IInv, Running, NEW j \in 1 .. Len(Upvals), GetUpval(j), UNCHANGED program
  PROVE  IInv'
<1> DEFINE c == Upvals[j]
           cell == cells[c]
           v == IF cell.kind = "Open" THEN At(values, cell.slot) ELSE cell.value
<1>1. c \in 1 .. Len(cells) /\ values \in Seq(Holds)
  BY CurrentIs
<1>2. IsCell(cells[c], Holds)
  <2> HIDE DEF c
  <2> QED
    BY <1>1 DEF IInv, Sound, ArenasOK, Holds
<1>3. v \in Holds
  <2>1. CASE cell.kind = "Open"
    <3>1. cell.slot \in DOMAIN open
      <4>1. OpenOK(open, cells, owner, frames, Shapes)
        BY DEF IInv, Sound, Shapes
      <4> HIDE DEF c
      <4> QED
        BY <1>1, <2>1, <4>1 DEF OpenOK
    <3>2. cell.slot \in Nat /\ cell.slot < Len(values)
      BY <3>1, OpenIsOnStack
    <3>3. At(values, cell.slot) \in Holds
      <4> HIDE DEF cell
      <4> QED
        BY <1>1, <3>2, AtType
    <3> QED
      BY <2>1, <3>3
  <2>2. CASE cell.kind # "Open"
    <3> HIDE DEF c
    <3> QED
      BY <1>2, <2>2 DEF IsCell
  <2> QED
    BY <2>1, <2>2
<1>4. Evaluate(v) /\ UNCHANGED <<open, heap, outcome, program>>
  BY DEF GetUpval, heap
<1> HIDE DEF v
<1> QED
  BY <1>3, <1>4, EvaluateSame

(* The open cells, with the frames that stand.                             *)
LEMMA SameOpen ==
  ASSUME IInv, NEW fs, Stays(frames, fs)
  PROVE  OpenOK(open, cells, owner, fs, Shapes)
<1>1. /\ ArenasOK(functions, cells, packs, program)
      /\ FramesOK(frames, Shapes, Wants, Len(values))
      /\ OpenOK(open, cells, owner, frames, Shapes)
  BY DEF IInv, Sound, Shapes, Wants
<1>2. IsList(cells) /\ IsList(owner) /\ Len(owner) = Len(cells) /\ Len(cells) <= Len(cells)
  BY <1>1 DEF ArenasOK, OpenOK, IsList
<1>3. Runs(frames, Shapes)
  BY <1>1, FramesRun
<1>4. Extends(Shapes, Shapes)
  BY DEF Extends
<1> QED
  BY <1>1, <1>2, <1>3, <1>4, OpenKept

(* More tables made.                                                       *)
LEMMA PacksMore ==
  ASSUME NEW fs, NEW shapes, NEW v, NEW tables \in Nat, NEW made \in Nat, tables <= made,
         PacksNamed(fs, shapes, v, tables)
  PROVE  PacksNamed(fs, shapes, v, made)
<1>1. 1 .. tables \subseteq 1 .. made
  OBVIOUS
<1> QED
  BY <1>1 DEF PacksNamed

(* One more, at the end.                                                   *)
Appended(s, x, t) ==
  /\ IsList(t) /\ Len(s) \in Nat /\ Len(t) = Len(s) + 1 /\ t[Len(s) + 1] = x
  /\ \A k \in 1 .. Len(s) : t[k] = s[k]

(* Append, element by element.                                             *)
LEMMA AppendIs ==
  ASSUME NEW s, IsList(s), NEW x
  PROVE  Appended(s, x, Append(s, x))
<1> DEFINE t == Append(s, x)
<1> DEFINE S == Listed(s) \cup {x}
<1>1. s \in Seq(S) /\ x \in S /\ Len(s) \in Nat
  BY DEF IsList
<1> HIDE DEF S
<1>2. /\ t \in Seq(S) /\ Len(t) = Len(s) + 1 /\ t[Len(s) + 1] = x
      /\ \A k \in 1 .. Len(s) : t[k] = s[k]
  BY <1>1
<1> HIDE DEF t
<1>3. t = [k \in 1 .. Len(t) |-> t[k]]
  BY ONLY <1>2
<1>4. IsList(t)
  <2>1. Len(t) \in Nat
    BY <1>1, <1>2
  <2> QED
    BY <1>3, <2>1, ListOf
<1>5. Appended(s, x, t)
  BY <1>1, <1>2, <1>4 DEF Appended
<1> QED
  BY <1>5 DEF t

(* A sequence is a list.                                                   *)
LEMMA SeqIsList ==
  ASSUME NEW S, NEW s \in Seq(S)
  PROVE  IsList(s) /\ Len(s) \in Nat
<1>1. s = [k \in 1 .. Len(s) |-> s[k]] /\ Len(s) \in Nat
  OBVIOUS
<1> QED
  BY <1>1, ListOf

(* The arenas are lists of bounded length.                                 *)
LEMMA ArenaLists ==
  ASSUME IInv
  PROVE  /\ IsList(functions) /\ IsList(cells) /\ IsList(packs) /\ IsList(owner)
         /\ Len(functions) \in Nat /\ Len(cells) \in Nat /\ Len(packs) \in Nat
         /\ Len(functions) <= program.functions /\ Len(packs) <= program.packs
         /\ Len(owner) = Len(cells) /\ ArenasOK(functions, cells, packs, program)
         /\ program \in Programs /\ {program.functions, program.packs} \subseteq Nat
<1>1. /\ ArenasOK(functions, cells, packs, program) /\ OpenOK(open, cells, owner, frames, Shapes)
      /\ program \in Programs
  BY DEF IInv, Sound, Shapes
<1>2. IsList(functions) /\ IsList(packs) /\ Len(functions) \in Nat /\ Len(packs) \in Nat
  BY <1>1, SeqIsList DEF ArenasOK
<1>3. IsList(cells) /\ Len(cells) \in Nat
  BY <1>1 DEF ArenasOK, IsList
<1> QED
  BY <1>1, <1>2, <1>3, ProgramAssumption DEF ArenasOK, OpenOK

(* NewTable makes a table and leaves its handle in the next temporary.     *)
LEMMA NewTableSound ==
  ASSUME IInv, Running, NewTable, UNCHANGED program
  PROVE  IInv'
<1> DEFINE made == [items |-> <<>>, n |-> BadCount]
           S == Stored(Len(functions), Len(packs'))
<1>1. /\ program \in Programs /\ ArenasOK(functions, cells, packs, program)
      /\ values \in Seq(Holds)
  BY CurrentIs DEF IInv, Sound
<1>2. /\ IsList(functions) /\ IsList(cells) /\ IsList(packs)
      /\ Len(functions) <= program.functions
  BY ArenaLists
<1>3. /\ IsList(packs') /\ Len(packs) \in Nat /\ Len(packs') = Len(packs) + 1
      /\ packs'[Len(packs) + 1] = made /\ \A t \in 1 .. Len(packs) : packs'[t] = packs[t]
  <2>1. packs' = Append(packs, made)
    BY DEF NewTable
  <2> HIDE DEF made
  <2> QED
    BY <1>2, <2>1, AppendIs DEF Appended
<1>4. Len(packs') <= program.packs
  <2>1. Len(packs) < program.packs /\ program.packs \in Nat
    BY <1>1, ProgramAssumption DEF NewTable, MaxPacks
  <2> QED
    BY <1>3, <2>1
<1>5. made \in [items : Seq(S), n : Nat \cup {BadCount}]
  OBVIOUS
<1>6. \A t \in 1 .. Len(packs') :
        \/ t \in 1 .. Len(packs) /\ packs'[t] = packs[t]
        \/ packs'[t] \in [items : Seq(S), n : Nat \cup {BadCount}]
  <2> HIDE DEF made, S
  <2> SUFFICES ASSUME NEW t \in 1 .. Len(packs')
               PROVE  t \in 1 .. Len(packs) \/ t = Len(packs) + 1
    BY <1>3, <1>5
  <2> QED
    BY <1>3
<1>7. /\ ArenasOK(functions, cells, packs', program)
      /\ Stored(Len(functions), Len(packs)) \subseteq S
  <2>1. Len(functions) <= Len(functions) /\ Len(cells) <= Len(cells) /\ Len(packs) <= Len(packs')
    BY <1>2, <1>3 DEF IsList
  <2> QED
    BY <1>1, <1>2, <1>3, <1>4, <1>6, <2>1, ArenasGrown
<1>8. TableValue(Len(packs) + 1) \in S
  BY <1>3 DEF TableValue, Stored
<1> HIDE DEF S
<1>9. values \in Seq(S)
  BY <1>1, <1>7 DEF Holds
<1>10. /\ values' \in Seq(S) /\ Len(values') = Len(values)
       /\ FramesOK(frames', Shapes, Wants, Len(values))
       /\ Stays(frames, frames') /\ PacksNamed(frames', Shapes, values', Len(packs))
  <2>1. Evaluate(TableValue(Len(packs) + 1))
    BY DEF NewTable
  <2> QED
    BY <1>8, <1>9, <2>1, EvaluateSound
<1>11. PacksNamed(frames', Shapes, values', Len(packs'))
  <2>1. Len(packs') \in Nat /\ Len(packs) <= Len(packs')
    BY <1>3
  <2> QED
    BY <1>3, <1>10, <2>1, PacksMore
<1>12. OpenOK(open, cells, owner, frames', Shapes)
  BY <1>10, SameOpen
<1>13. Sound(values', frames', open, cells, owner, functions, packs', program)
  BY <1>7, <1>10, <1>11, <1>12 DEF Sound, Shapes, Wants, S
<1>14. UNCHANGED <<open, cells, functions, owner, outcome>>
  BY DEF NewTable
<1> QED
  BY <1>13, <1>14 DEF IInv

(* Rows that keep the locals there were.                                   *)
LEMMA RowStays ==
  ASSUME NEW gs, NEW variables, NEW temps, NEW tall, RowChanged(gs, variables, temps, tall),
         Len(variables) \in Nat,
         \A i \in 1 .. Len(Current.vars) :
           i \in 1 .. Len(variables) /\ variables[i] = Current.vars[i]
  PROVE  Stays(frames, gs)
<1>1. /\ Like(frames, gs) /\ Depth \in Nat /\ Depth = Len(frames)
      /\ gs[Depth].vars = variables /\ Current = frames[Depth]
      /\ \A k \in 1 .. Depth - 1 : gs[k] = frames[k]
  BY DEF RowChanged, Depth, Current
<1> QED
  BY <1>1, RunningStays

(* The last temporary, and the frame without it.                           *)
LEMMA ConsumedSound ==
  ASSUME IInv, Running, ~Current.spread, Current.temps > 0
  PROVE  /\ Last \in Holds
         /\ RowChanged(Consumed, Current.vars, Current.temps - 1, Len(values))
         /\ Stays(frames, Consumed)
<1> DEFINE f == Current
           p == ProtoOf(Current)
<1>1. /\ f.base \in Nat /\ f.top \in Nat /\ f.temps \in Nat /\ f.spread = FALSE /\ f.temps > 0
      /\ p.slots \in Nat /\ p.registers \in Nat
      /\ Len(f.vars) \in Fixed(p) .. p.slots /\ IsList(f.vars) /\ Fixed(p) \in Nat
      /\ p.slots + f.temps <= p.registers /\ f.base + p.slots + f.temps <= f.top
      /\ f.top <= Len(values) /\ Len(values) \in Nat /\ f.top = f.base + p.registers
  BY CurrentBounds
<1>2. Last = At(values, f.base + p.slots + f.temps - 1) /\ values \in Seq(Holds)
  BY CurrentIs DEF Last, TempSlot
<1>3. IsRow(f)
  BY CurrentIs, ChangedOnly
<1>4. Consumed = WithFrame(frames, [f EXCEPT !.temps = f.temps - 1])
  BY DEF Consumed
<1> HIDE DEF f, p
<1>5. Last \in Holds
  <2>1. f.base + p.slots + f.temps - 1 \in Nat /\ f.base + p.slots + f.temps - 1 < Len(values)
    BY <1>1, SMTT(30)
  <2> QED
    BY <1>2, <2>1, AtType
<1>6. RowFits(f.top, f.vars, f.temps - 1, FALSE, Len(values))
  <2>1. /\ f.temps - 1 \in Nat /\ p.slots + (f.temps - 1) <= p.registers
        /\ f.base + p.slots + (f.temps - 1) <= f.top
    BY <1>1, SMTT(30)
  <2> QED
    BY <1>1, <2>1 DEF RowFits, f, p
<1>7. Consumed = WithFrame(frames, Changed(f, f.top, f.vars, f.temps - 1, FALSE))
  BY <1>1, <1>3, <1>4 DEF IsRow
<1>8. RowChanged(Consumed, f.vars, f.temps - 1, Len(values))
  BY <1>6, <1>7, RunningChanged DEF f
<1>9. Stays(frames, Consumed)
  BY <1>1, <1>8, RowStays DEF f
<1> QED
  BY <1>5, <1>8, <1>9 DEF f

(* A slot below the height is written, of no frame's named table.          *)
LEMMA WriteSound ==
  ASSUME IInv, Running, NEW slot \in Nat, slot < Len(values), NEW x \in Holds,
         \A k \in 1 .. Len(frames) : Shapes[frames[k].func].vararg = "Table" =>
           slot # frames[k].base + Shapes[frames[k].func].params,
         NEW fs, FramesOK(fs, Shapes, Wants, Len(values)), Like(frames, fs), Stays(frames, fs)
  PROVE  Sound(Put(values, slot, x), fs, open, cells, owner, functions, packs, program)
<1> DEFINE w == Put(values, slot, x)
<1>1. /\ Bounded(Shapes) /\ FramesOK(frames, Shapes, Wants, Len(values)) /\ values \in Seq(Holds)
      /\ PacksNamed(frames, Shapes, values, Len(packs))
  BY CurrentIs DEF IInv, Sound, Shapes
<1>2. PacksNamed(frames, Shapes, w, Len(packs))
  BY <1>1, PutPacks
<1> HIDE DEF w
<1>3. PacksNamed(fs, Shapes, w, Len(packs))
  BY <1>2, LikePacks
<1>4. w \in Seq(Holds) /\ Len(w) = Len(values)
  BY <1>1, PutKeeps DEF Keeps, w
<1> QED
  BY <1>3, <1>4, SameHeap DEF w

(* An assignment to a local is one to no other slot, and not to the local  *)
(* that names a table.                                                     *)
LEMMA MoveToLocalSound ==
  ASSUME IInv, Running, NEW i \in 1 .. Len(Current.vars), MoveToLocal(i), UNCHANGED program
  PROVE  IInv'
<1>1. /\ Last \in Holds /\ Stays(frames, Consumed)
      /\ FramesOK(Consumed, Shapes, Wants, Len(values)) /\ Like(frames, Consumed)
  BY ConsumedSound DEF MoveToLocal, RowChanged
<1> DEFINE slot == LocalSlot(Current, i)
<1>2. slot \in Nat /\ slot < Len(values)
  BY RunningLocal
<1>3. \A k \in 1 .. Len(frames) : Shapes[frames[k].func].vararg = "Table" =>
        slot # frames[k].base + Shapes[frames[k].func].params
  <2>1. /\ Bounded(Shapes) /\ FramesOK(frames, Shapes, Wants, Len(values)) /\ Len(values) \in Nat
        /\ ProtoOf(Current) = Shapes[Current.func] /\ Current = frames[Depth]
        /\ Depth \in 1 .. Len(frames)
    BY CurrentIs DEF Current, Depth
  <2>2. Shapes[frames[Depth].func].vararg = "Table" => i # Shapes[frames[Depth].func].params + 1
    BY <2>1 DEF MoveToLocal, NamesPack, Depth, LocalSlot
  <2>3. slot = frames[Depth].base + i - 1
    BY <2>1 DEF LocalSlot
  <2> HIDE DEF slot
  <2> QED
    BY <2>1, <2>2, <2>3, OneIsNamed, ZenonT(40)
<1>4. Sound(Put(values, slot, Last), Consumed, open, cells, owner, functions, packs, program)
  <2> HIDE DEF slot
  <2> QED
    BY <1>1, <1>2, <1>3, WriteSound
<1> QED
  BY <1>4 DEF IInv, MoveToLocal, heap

(* One list after another.                                                 *)
Joined(s, t, u) ==
  /\ IsList(u) /\ Len(s) \in Nat /\ Len(t) \in Nat /\ Len(u) = Len(s) + Len(t)
  /\ \A k \in 1 .. Len(s) : k \in 1 .. Len(u) /\ u[k] = s[k]
  /\ \A k \in 1 .. Len(t) : u[Len(s) + k] = t[k]

(* Concatenation, element by element.                                      *)
LEMMA JoinIs ==
  ASSUME NEW s, IsList(s), NEW t, IsList(t)
  PROVE  Joined(s, t, s \o t)
<1> DEFINE S == Listed(s) \cup Listed(t)
           u == s \o t
<1>1. s \in Seq(S) /\ t \in Seq(S) /\ Len(s) \in Nat /\ Len(t) \in Nat
  BY DEF IsList
<1> HIDE DEF S
<1>2. /\ u \in Seq(S) /\ Len(u) = Len(s) + Len(t)
      /\ \A k \in 1 .. Len(s) : u[k] = s[k]
      /\ \A k \in 1 .. Len(t) : u[Len(s) + k] = t[k]
  BY <1>1, ConcatIs
<1> HIDE DEF u
<1>3. IsList(u)
  BY <1>2, SeqIsList
<1>4. \A k \in 1 .. Len(s) : k \in 1 .. Len(u)
  BY <1>1, <1>2
<1>5. Joined(s, t, u)
  BY <1>1, <1>2, <1>3, <1>4 DEF Joined
<1> QED
  BY <1>5 DEF u

(* Identities for new variables.                                           *)
LEMMA FreshIs ==
  ASSUME NEW used, NEW n \in Nat
  PROVE  IsList(Fresh(used, n)) /\ Len(Fresh(used, n)) = n
<1> DEFINE s == Fresh(used, n)
<1>1. s = [k \in 1 .. n |-> s[k]]
  BY DEF Fresh
<1> HIDE DEF s
<1>2. IsList(s) /\ Len(s) = n
  BY <1>1, ListOf
<1> QED
  BY <1>2 DEF s

(* A declaration brings temporaries into scope as locals, where they are.  *)
LEMMA DeclareSound ==
  ASSUME IInv, Running, Declare, UNCHANGED program
  PROVE  IInv'
<1> DEFINE f == Current
           p == ProtoOf(Current)
           slot == LocalSlot(Current, Len(Current.vars) + 1)
           more == f.vars \o Fresh(InUse(frames), 1)
<1>1. /\ f.base \in Nat /\ f.top \in Nat /\ f.temps \in Nat /\ f.spread = FALSE /\ f.temps > 0
      /\ p.slots \in Nat /\ p.registers \in Nat /\ p.params \in Nat
      /\ Len(f.vars) \in Fixed(p) .. p.slots /\ IsList(f.vars) /\ Fixed(p) \in Nat
      /\ p.slots + f.temps <= p.registers /\ f.base + p.slots + f.temps <= f.top
      /\ f.top <= Len(values) /\ Len(values) \in Nat /\ f.top = f.base + p.registers
      /\ Len(f.vars) < p.slots /\ f.ret_to \in Nat /\ f.ret_to < f.base - f.varargs
      /\ f.varargs \in Nat /\ IsProto(p)
  BY CurrentBounds DEF Declare
<1>2. p.vararg = "Table" => p.params < Fixed(p)
  BY <1>1 DEF Fixed
<1>3. Last \in Holds
  BY ConsumedSound DEF Declare
<1>4. IsRow(f)
  BY CurrentIs, ChangedOnly
<1>5. /\ values' = Put(values, slot, Last)
      /\ frames' = WithFrame(frames, [f EXCEPT !.temps = f.temps - 1, !.vars = more])
      /\ UNCHANGED <<open, cells, functions, packs, owner, outcome>>
  BY DEF Declare, heap
<1>6. /\ IsList(more) /\ Len(more) = Len(f.vars) + 1
      /\ \A i \in 1 .. Len(f.vars) : i \in 1 .. Len(more) /\ more[i] = f.vars[i]
  <2> DEFINE new == Fresh(InUse(frames), 1)
  <2>1. IsList(new) /\ Len(new) = 1
    BY FreshIs
  <2> HIDE DEF new
  <2>2. Joined(f.vars, new, f.vars \o new)
    BY <1>1, <2>1, JoinIs
  <2>3. Joined(f.vars, new, more)
    BY <2>2 DEF new
  <2> HIDE DEF more
  <2> QED
    BY <2>1, <2>3 DEF Joined
<1>7. slot = f.base + Len(f.vars)
  BY <1>1 DEF LocalSlot
<1> HIDE DEF f, p, slot, more
<1>8. slot \in Nat /\ slot < Len(values) /\ f.base + Fixed(p) <= slot
  <2>1. PICK n \in Nat : n = Len(f.vars) /\ Fixed(p) <= n /\ n < p.slots
    BY <1>1
  <2>2. f.base + p.slots <= Len(values) /\ Len(values) \in Nat
    BY <1>1, SMTT(30)
  <2>3. f.base \in Nat /\ p.slots \in Nat /\ Fixed(p) \in Nat /\ slot = f.base + n
    BY <1>1, <1>7, <2>1
  <2> QED
    BY ONLY <2>1, <2>2, <2>3
<1>9. /\ FramesOK(frames', Shapes, Wants, Len(values)) /\ Like(frames, frames')
      /\ Stays(frames, frames')
  <2>1. RowFits(f.top, more, f.temps - 1, FALSE, Len(values))
    <3>1. /\ f.temps - 1 \in Nat /\ p.slots + (f.temps - 1) <= p.registers
          /\ f.base + p.slots + (f.temps - 1) <= f.top
      <4>1. /\ f.base \in Nat /\ f.top \in Nat /\ f.temps \in Nat /\ f.temps > 0
            /\ p.slots \in Nat /\ p.registers \in Nat
            /\ p.slots + f.temps <= p.registers /\ f.base + p.slots + f.temps <= f.top
        BY <1>1
      <4> QED
        BY ONLY <4>1
    <3>2. Len(more) \in Fixed(p) .. p.slots
      <4>1. PICK n \in Nat : n = Len(f.vars) /\ Fixed(p) <= n /\ n < p.slots
        BY <1>1
      <4> QED
        BY <1>1, <1>6, <4>1, SMTT(30)
    <3> QED
      BY <1>1, <1>6, <3>1, <3>2 DEF RowFits, f, p
  <2>2. frames' = WithFrame(frames, Changed(f, f.top, more, f.temps - 1, FALSE))
    <3>1. [f EXCEPT !.temps = f.temps - 1, !.vars = more]
            = Changed(f, f.top, more, f.temps - 1, f.spread)
      BY <1>4 DEF IsRow
    <3> QED
      BY <1>1, <1>5, <3>1
  <2>3. RowChanged(frames', more, f.temps - 1, Len(values))
    BY <2>1, <2>2, RunningChanged DEF f
  <2>4. Stays(frames, frames')
    <3>1. Len(more) \in Nat
      BY <1>1, <1>6
    <3> QED
      BY <1>6, <2>3, <3>1, RowStays DEF f
  <2> QED
    BY <2>3, <2>4 DEF RowChanged
<1>10. \A k \in 1 .. Len(frames) : Shapes[frames[k].func].vararg = "Table" =>
         slot # frames[k].base + Shapes[frames[k].func].params
  <2> SUFFICES ASSUME NEW k \in 1 .. Len(frames), Shapes[frames[k].func].vararg = "Table"
               PROVE  slot # frames[k].base + Shapes[frames[k].func].params
    OBVIOUS
  <2> DEFINE at == frames[k].base + Shapes[frames[k].func].params
  <2>1. /\ Bounded(Shapes) /\ FramesOK(frames, Shapes, Wants, Len(values)) /\ Len(values) \in Nat
        /\ p = Shapes[f.func] /\ f = frames[Len(frames)] /\ Len(frames) \in Nat
    BY CurrentIs DEF Current, Depth, f, p
  <2>2. at \in Nat /\ (k < Len(frames) => at < f.ret_to)
    <3>1. Under(frames, Shapes, Len(values), k, at)
      BY <2>1, NamedUnder
    <3> HIDE DEF at
    <3> QED
      BY <2>1, <3>1 DEF Under
  <2>3. k = Len(frames) => at = f.base + p.params /\ p.vararg = "Table"
    BY <2>1
  <2> HIDE DEF at
  <2>4. at < f.base + Fixed(p)
    <3>1. CASE k = Len(frames)
      BY <1>1, <1>2, <2>3, <3>1
    <3>2. CASE k < Len(frames)
      BY <1>1, <2>2, <3>2
    <3> QED
      BY <2>1, <3>1, <3>2
  <2>5. slot # at
    BY <1>1, <1>8, <2>2, <2>4
  <2> QED
    BY <2>5 DEF at
<1>11. Sound(Put(values, slot, Last), frames', open, cells, owner, functions, packs, program)
  BY <1>3, <1>8, <1>9, <1>10, WriteSound
<1> QED
  BY <1>5, <1>11 DEF IInv

(* Cells change what they hold.                                            *)
LEMMA CellsChanged ==
  ASSUME IInv, NEW ds, IsList(ds), Len(ds) = Len(cells), \A c \in 1 .. Len(ds) : IsCell(ds[c], Holds)
  PROVE  ArenasOK(functions, ds, packs, program)
<1>1. /\ ArenasOK(functions, cells, packs, program)
      /\ \A c \in 1 .. Len(ds) : IsCell(ds[c], Stored(Len(functions), Len(packs)))
  BY ArenaLists DEF Holds
<1> QED
  BY <1>1 DEF ArenasOK

(* An assignment to an upvalue goes to the stack while the cell is open,   *)
(* where it is a local of some frame, and to the cell afterwards.          *)
LEMMA SetUpvalSound ==
  ASSUME IInv, Running, NEW j \in 1 .. Len(Upvals), SetUpval(j), UNCHANGED program
  PROVE  IInv'
<1>1. PICK c : c = Upvals[j] /\ c \in 1 .. Len(cells)
  BY CurrentIs
<1>2. /\ Last \in Holds /\ Stays(frames, Consumed)
      /\ FramesOK(Consumed, Shapes, Wants, Len(values)) /\ Like(frames, Consumed)
  BY ConsumedSound DEF SetUpval, RowChanged
<1>3. frames' = Consumed /\ UNCHANGED <<open, functions, packs, owner, outcome>>
  BY DEF SetUpval
<1>4. /\ OpenOK(open, cells, owner, frames, Shapes) /\ PacksNamed(frames, Shapes, values, Len(packs))
      /\ \A k \in 1 .. Len(cells) : IsCell(cells[k], Holds)
  BY DEF IInv, Sound, Shapes, ArenasOK, Holds
<1>5. CASE cells[c].kind = "Open"
  <2>1. values' = Put(values, cells[c].slot, Last) /\ cells' = cells
    BY <1>1, <1>5 DEF SetUpval
  <2>2. PICK s \in DOMAIN open : s = cells[c].slot
    BY <1>1, <1>4, <1>5 DEF OpenOK
  <2>3. s \in Nat /\ s < Len(values) /\ IsLocal(s, owner[open[s]], frames)
    BY OpenIsOnStack
  <2>4. ASSUME NEW k \in 1 .. Len(frames), Shapes[frames[k].func].vararg = "Table"
        PROVE  s # frames[k].base + Shapes[frames[k].func].params
    <3>1. ~NamesPack(s)
      BY <1>1, <1>5, <2>2 DEF SetUpval
    <3>2. s # LocalSlot(frames[k], ProtoOf(frames[k]).params + 1)
      BY <2>4, <3>1, FrameIs DEF NamesPack, Depth
    <3>3. /\ ProtoOf(frames[k]) = Shapes[frames[k].func]
          /\ frames[k].base \in Nat /\ ProtoOf(frames[k]).params \in Nat
      BY FrameIs DEF Depth
    <3> QED
      BY <3>2, <3>3 DEF LocalSlot
  <2>5. Sound(Put(values, s, Last), Consumed, open, cells, owner, functions, packs, program)
    BY <1>2, <2>3, <2>4, WriteSound
  <2> QED
    BY <1>3, <2>1, <2>2, <2>5 DEF IInv
<1>6. CASE cells[c].kind # "Open"
  <2>1. cells' = [cells EXCEPT ![c] = Closed(Last)] /\ values' = values
    BY <1>1, <1>6 DEF SetUpval
  <2>2. /\ IsList(cells) /\ IsList(owner) /\ Len(owner) = Len(cells) /\ Len(cells) \in Nat
        /\ cells = [k \in 1 .. Len(cells) |-> cells[k]]
    BY ArenaLists DEF IsList
  <2>3. cells' = [k \in 1 .. Len(cells) |-> IF k = c THEN Closed(Last) ELSE cells[k]]
    BY <1>1, <2>1, <2>2
  <2>4. /\ cells' = [k \in 1 .. Len(cells) |-> cells'[k]]
        /\ \A k \in 1 .. Len(cells) : k # c => cells'[k] = cells[k]
        /\ cells'[c] = Closed(Last)
    BY <1>1, <2>3
  <2>5. IsList(cells') /\ Len(cells') = Len(cells)
    BY <2>2, <2>4, ListOf
  <2>6. \A k \in 1 .. Len(cells') : IsCell(cells'[k], Holds)
    <3>1. IsCell(Closed(Last), Holds)
      BY <1>2 DEF IsCell, Closed
    <3> QED
      BY <1>4, <2>4, <2>5, <3>1
  <2>7. ArenasOK(functions, cells', packs, program)
    BY <2>5, <2>6, CellsChanged
  <2>8. cells[c].kind = "Closed" /\ cells'[c].kind = "Closed"
    BY <1>1, <1>4, <1>6, <2>4 DEF IsCell, Closed
  <2>9. OpenOK(open, cells', owner, Consumed, Shapes)
    <3>1. Runs(frames, Shapes)
      BY CurrentIs, FramesRun
    <3>2. Extends(Shapes, Shapes)
      BY DEF Extends
    <3>3. \A k \in 1 .. Len(cells) : owner[k] = owner[k]
            /\ (cells'[k] = cells[k] \/ {cells[k].kind, cells'[k].kind} = {"Closed"})
      BY <2>4, <2>8
    <3>4. \A k \in 1 .. Len(cells') : k \notin 1 .. Len(cells) => cells'[k].kind = "Closed"
      BY <2>5
    <3>5. Len(cells) <= Len(cells') /\ Len(owner) = Len(cells')
      BY <2>2, <2>5
    <3> QED
      BY <1>2, <1>4, <2>2, <2>5, <3>1, <3>2, <3>3, <3>4, <3>5, OpenKept
  <2>10. PacksNamed(Consumed, Shapes, values, Len(packs)) /\ values \in Seq(Holds)
    BY <1>2, <1>4, LikePacks, CurrentIs
  <2>11. Sound(values, Consumed, open, cells', owner, functions, packs, program)
    BY <1>2, <2>7, <2>9, <2>10 DEF Sound, Shapes, Wants, Holds
  <2> QED
    BY <1>3, <2>1, <2>11 DEF IInv
<1> QED
  BY <1>5, <1>6

(* The first locals of a list.                                             *)
LEMMA PrefixIs ==
  ASSUME NEW s, IsList(s), NEW n \in Nat, n <= Len(s)
  PROVE  /\ IsList(SubSeq(s, 1, n)) /\ Len(SubSeq(s, 1, n)) = n
         /\ \A k \in 1 .. n : SubSeq(s, 1, n)[k] = s[k]
<1> DEFINE t == SubSeq(s, 1, n)
<1>1. s \in Seq(Listed(s)) /\ n \in 0 .. Len(s) /\ Len(s) \in Nat
  BY DEF IsList
<1>2. t \in Seq(Listed(s)) /\ Len(t) = n /\ \A k \in 1 .. n : t[k] = s[k]
  BY <1>1
<1> HIDE DEF t
<1>3. IsList(t)
  BY <1>2, SeqIsList
<1> QED
  BY <1>2, <1>3 DEF t

(* A scope ends: what was captured of it is closed first, so no cell       *)
(* points at a local that is gone.                                         *)
LEMMA LeaveScopeSound ==
  ASSUME IInv, Running, NEW kept \in 0 .. Len(Current.vars) - 1, LeaveScope(kept), UNCHANGED program
  PROVE  IInv'
<1> DEFINE f == Current
           p == ProtoOf(Current)
           from == LocalSlot(Current, kept + 1)
           fewer == SubSeq(f.vars, 1, kept)
<1>1. /\ f.base \in Nat /\ f.top \in Nat /\ f.temps = 0 /\ f.spread = FALSE
      /\ p.slots \in Nat /\ p.registers \in Nat /\ Fixed(p) \in Nat
      /\ IsList(f.vars) /\ Len(f.vars) \in Nat /\ Len(f.vars) <= p.slots
      /\ f.base + p.slots <= f.top /\ p.slots <= p.registers
      /\ f.top <= Len(values) /\ Len(values) \in Nat /\ f.top = f.base + p.registers
      /\ kept \in Nat /\ Fixed(p) <= kept /\ kept < Len(f.vars)
  <2>1. /\ f.temps = 0 /\ f.spread = FALSE /\ Fixed(p) <= kept /\ kept < Len(f.vars)
    BY CurrentBounds DEF LeaveScope, LeaveScopeFrom
  <2>2. /\ f.base \in Nat /\ f.top \in Nat /\ p.slots \in Nat /\ p.registers \in Nat
        /\ Fixed(p) \in Nat /\ IsList(f.vars) /\ Len(f.vars) \in Fixed(p) .. p.slots
        /\ p.slots + f.temps <= p.registers /\ f.base + p.slots + f.temps <= f.top
        /\ f.top <= Len(values) /\ Len(values) \in Nat
        /\ ~f.spread => f.top = f.base + p.registers
    BY CurrentBounds
  <2> HIDE DEF f, p
  <2>3. kept \in Nat
    BY DEF f
  <2> QED
    BY <2>1, <2>2, <2>3
<1>2. IsRow(f)
  BY CurrentIs, ChangedOnly
<1>3. /\ cells' = ClosedCells(values, from) /\ open' = StillOpen(from)
      /\ frames' = WithFrame(frames, [f EXCEPT !.vars = fewer])
      /\ UNCHANGED <<values, functions, packs, owner, outcome>>
  BY DEF LeaveScope, LeaveScopeFrom
<1>4. from = f.base + kept /\ from \in Nat
  <2>1. from = f.base + (kept + 1) - 1
    BY DEF LocalSlot
  <2> HIDE DEF from, f
  <2> QED
    BY <1>1, <2>1
<1> HIDE DEF f, p, from
<1>5. IsList(fewer) /\ Len(fewer) = kept /\ \A i \in 1 .. kept : fewer[i] = f.vars[i]
  BY <1>1, PrefixIs
<1> HIDE DEF fewer
<1>6. RowChanged(frames', fewer, 0, Len(values))
  <2>1. RowFits(f.top, fewer, 0, FALSE, Len(values))
    <3>1. Len(fewer) \in Fixed(p) .. p.slots
      BY <1>1, <1>5
    <3>2. p.slots + 0 <= p.registers /\ f.base + p.slots + 0 <= f.top
      BY <1>1
    <3> QED
      BY <1>1, <1>5, <3>1, <3>2 DEF RowFits, f, p
  <2>2. [f EXCEPT !.vars = fewer] = Changed(f, f.top, fewer, f.temps, f.spread)
    BY <1>2 DEF IsRow
  <2>3. frames' = WithFrame(frames, Changed(f, f.top, fewer, 0, FALSE))
    BY <1>1, <1>3, <2>2
  <2> QED
    BY <2>1, <2>3, RunningChanged DEF f
<1>7. /\ FramesOK(frames', Shapes, Wants, Len(values)) /\ Like(frames, frames')
      /\ frames'[Depth].vars = fewer /\ Depth = Len(frames) /\ f = frames[Depth]
      /\ Len(frames) \in Nat /\ \A k \in 1 .. Depth - 1 : frames'[k] = frames[k]
  BY <1>6 DEF RowChanged, Depth, f, Current
<1>8. ASSUME NEW s \in Nat, NEW x, IsLocal(s, x, frames), s < from
      PROVE  IsLocal(s, x, frames')
  <2>1. PICK k \in 1 .. Len(frames) : \E i \in 1 .. Len(frames[k].vars) :
          s = frames[k].base + i - 1 /\ x = frames[k].vars[i]
    BY <1>8 DEF IsLocal
  <2>2. PICK i \in 1 .. Len(frames[k].vars) :
          s = frames[k].base + i - 1 /\ x = frames[k].vars[i]
    BY <2>1
  <2>3. /\ k \in 1 .. Len(frames') /\ frames'[k].base = frames[k].base
        /\ frames'[k].func = frames[k].func
    BY <1>7 DEF Like
  <2>4. i \in 1 .. Len(frames'[k].vars) /\ frames'[k].vars[i] = frames[k].vars[i]
    <3>1. CASE k = Depth
      <4>1. s = f.base + i - 1 /\ i \in 1 .. Len(f.vars)
        BY <1>7, <2>2, <3>1
      <4>2. i \in 1 .. kept
        BY ONLY <1>1, <1>4, <1>8, <4>1
      <4> QED
        BY <1>5, <1>7, <3>1, <4>2
    <3>2. CASE k \in 1 .. Depth - 1
      BY <1>7, <3>2
    <3>3. k = Depth \/ k \in 1 .. Depth - 1
      BY <1>7
    <3> QED
      BY <3>1, <3>2, <3>3
  <2> QED
    BY <2>2, <2>3, <2>4 DEF IsLocal
<1>9. /\ OpenOK(open, cells, owner, frames, Shapes)
      /\ PacksNamed(frames, Shapes, values, Len(packs))
      /\ IsList(cells) /\ \A c \in 1 .. Len(cells) : IsCell(cells[c], Holds)
  BY DEF IInv, Sound, Shapes, ArenasOK, Holds
<1>10. /\ OpenOK(open', cells', owner, frames', Shapes)
       /\ IsList(cells') /\ Len(cells') = Len(cells)
       /\ \A c \in 1 .. Len(cells') : IsCell(cells'[c], Holds)
  <2>1. /\ Bounded(Shapes) /\ values \in Seq(Holds)
        /\ FramesOK(frames, Shapes, Wants, Len(values))
    BY CurrentIs
  <2>2. /\ OpenOK(StillOpen(from), cells', owner, frames', Shapes)
        /\ IsList(cells') /\ Len(cells') = Len(cells)
        /\ \A c \in 1 .. Len(cells') : IsCell(cells'[c], Holds)
    BY <1>3, <1>4, <1>8, <1>9, <2>1, OpenClosed
  <2> QED
    BY <1>3, <2>2
<1>11. ArenasOK(functions, cells', packs, program)
  BY <1>10, CellsChanged
<1>12. PacksNamed(frames', Shapes, values, Len(packs)) /\ values \in Seq(Holds)
  BY <1>7, <1>9, LikePacks, CurrentIs
<1>13. Sound(values, frames', open', cells', owner, functions, packs, program)
  BY <1>7, <1>10, <1>11, <1>12 DEF Sound, Shapes, Wants, Holds
<1> QED
  BY <1>3, <1>13 DEF IInv

(* An Err leaves the machine as it was.                                    *)
LEMMA ThrowSound ==
  ASSUME IInv, Throw, UNCHANGED program
  PROVE  IInv'
BY DEF IInv, Throw

(* The table that names the running frame's arguments is one of the arena. *)
LEMMA PackIs ==
  ASSUME IInv, Running, Named
  PROVE  /\ At(values, Current.base + ProtoOf(Current).params)[2] \in 1 .. Len(packs)
         /\ Pack \in [items : Seq(Holds), n : Nat \cup {BadCount}]
<1> DEFINE v == At(values, Current.base + ProtoOf(Current).params)
<1>1. v \in {"table"} \X (1 .. Len(packs))
  <2>1. /\ PacksNamed(frames, Shapes, values, Len(packs))
        /\ ProtoOf(Current) = Shapes[Current.func] /\ Current = frames[Depth]
        /\ Depth \in 1 .. Len(frames)
    BY CurrentIs DEF IInv, Sound, Shapes, Current, Depth
  <2>2. Shapes[frames[Depth].func].vararg = "Table"
    BY <2>1 DEF Named
  <2> QED
    BY <2>1, <2>2 DEF PacksNamed
<1>2. Pack = packs[v[2]]
  BY DEF Pack
<1> HIDE DEF v
<1>3. v[2] \in 1 .. Len(packs)
  BY <1>1
<1>4. packs \in Seq([items : Seq(Holds), n : Nat \cup {BadCount}])
  BY DEF IInv, Sound, ArenasOK, Holds
<1>5. Pack \in [items : Seq(Holds), n : Nat \cup {BadCount}]
  <2> DEFINE R == [items : Seq(Holds), n : Nat \cup {BadCount}]
  <2> HIDE DEF R
  <2>1. packs \in Seq(R)
    BY <1>4 DEF R
  <2>2. packs[v[2]] \in R
    BY <1>3, <2>1
  <2> QED
    BY <1>2, <2>2 DEF R
<1> QED
  BY <1>3, <1>5 DEF v

(* One table changed.                                                      *)
LEMMA PackChanged ==
  ASSUME IInv, NEW t \in 1 .. Len(packs), NEW x \in [items : Seq(Holds), n : Nat \cup {BadCount}],
         NEW packed, packed = [packs EXCEPT ![t] = x]
  PROVE  ArenasOK(functions, cells, packed, program) /\ Len(packed) = Len(packs)
<1> DEFINE R == [items : Seq(Holds), n : Nat \cup {BadCount}]
<1>1. packs \in Seq(R) /\ x \in R /\ ArenasOK(functions, cells, packs, program)
  BY DEF IInv, Sound, ArenasOK, Holds
<1> HIDE DEF R
<1>2. packed \in Seq(R) /\ Len(packed) = Len(packs)
  BY <1>1
<1>3. packed \in Seq([items : Seq(Stored(Len(functions), Len(packs))), n : Nat \cup {BadCount}])
  BY <1>2 DEF R, Holds
<1> QED
  BY <1>1, <1>2, <1>3 DEF ArenasOK

(* The program may overwrite the n of its table of extra arguments.        *)
LEMMA StoreCountSound ==
  ASSUME IInv, Running, NEW n \in Counts, StoreCount(n), UNCHANGED program
  PROVE  IInv'
<1> DEFINE t == At(values, Current.base + ProtoOf(Current).params)[2]
           R == [items : Seq(Holds), n : Nat \cup {BadCount}]
           x == [Pack EXCEPT !.n = n]
<1>1. t \in 1 .. Len(packs) /\ Pack \in R /\ Pack = packs[t]
  BY PackIs DEF StoreCount, Pack
<1>2. n \in Nat \cup {BadCount}
  BY ProgramAssumption DEF Counts, IInv
<1>3. packs' = [packs EXCEPT ![t] = x]
  <2>1. packs' = [packs EXCEPT ![t].n = n]
    BY DEF StoreCount
  <2> HIDE DEF t
  <2> QED
    BY <1>1, <2>1
<1>4. x \in R
  BY <1>1, <1>2
<1> HIDE DEF t, x, R
<1>5. ArenasOK(functions, cells, packs', program) /\ Len(packs') = Len(packs)
  BY <1>1, <1>3, <1>4, PackChanged DEF R
<1>6. UNCHANGED <<values, frames, open, cells, functions, owner, outcome>>
  BY DEF StoreCount
<1>7. Sound(values, frames, open, cells, owner, functions, packs', program)
  BY <1>5 DEF Sound, IInv
<1> QED
  BY <1>6, <1>7 DEF IInv

(* SetList takes the row above a table's temporary into the table, an open *)
(* row up to the top, and the top returns to the registers.                *)
LEMMA SetListSound ==
  ASSUME IInv, Running, NEW i \in 1 .. Current.temps, SetList(i), UNCHANGED program
  PROVE  IInv'
<1> DEFINE f == Current
           p == ProtoOf(Current)
           from == TempSlot(Current, i + 1)
           count == IF Current.spread THEN Current.top - from ELSE Current.temps - i
           v == At(values, TempSlot(Current, i))
           t == v[2]
           row == [k \in 1 .. count |-> At(values, from + k - 1)]
           x == [packs[t] EXCEPT !.items = @ \o row]
           R == [items : Seq(Holds), n : Nat \cup {BadCount}]
<1>1. /\ f.base \in Nat /\ f.top \in Nat /\ f.temps \in Nat /\ f.spread \in BOOLEAN
      /\ p.slots \in Nat /\ p.registers \in Nat
      /\ p.slots + f.temps <= p.registers /\ f.base + p.slots + f.temps <= f.top
      /\ f.top <= Len(values) /\ Len(values) \in Nat /\ f.base + p.registers <= Len(values)
      /\ i \in Nat /\ 1 <= i /\ i <= f.temps
  BY CurrentBounds
<1>2. IsList(f.vars) /\ Len(f.vars) \in Fixed(p) .. p.slots
  BY CurrentBounds
<1>3. IsRow(f) /\ values \in Seq(Holds)
  BY CurrentIs, ChangedOnly
<1>4. /\ IsTable(v) /\ UNCHANGED <<values, open, cells, functions, owner, outcome>>
      /\ packs' = [packs EXCEPT ![t].items = @ \o row]
      /\ frames' = WithFrame(frames, [f EXCEPT !.top = IF f.spread THEN f.base + p.registers ELSE f.top,
                                               !.temps = i, !.spread = FALSE])
  BY DEF SetList
<1>5. ~f.spread => f.top = f.base + p.registers
  BY CurrentBounds
<1>6. from = f.base + p.slots + (i + 1) - 1 /\ TempSlot(Current, i) = f.base + p.slots + i - 1
  BY DEF TempSlot
<1>7. count = IF f.spread THEN f.top - from ELSE f.temps - i
  OBVIOUS
<1> HIDE DEF f, p, from, count
<1>8. count \in Nat /\ from \in Nat /\ from + count <= Len(values)
  <2>1. PICK b \in Nat : b = f.base + p.slots
    BY <1>1
  <2>2. PICK len \in Nat : len = Len(values)
    BY <1>1
  <2>3. PICK n \in Nat : n = f.temps
    BY <1>1
  <2>4. PICK top \in Nat : top = f.top
    BY <1>1
  <2>5. /\ i \in Nat /\ i <= n /\ b + n <= top /\ top <= len /\ from = b + i
        /\ count = IF f.spread THEN top - from ELSE n - i
    BY <1>1, <1>6, <1>7, <2>1, <2>2, <2>3, <2>4
  <2>6. count \in Nat /\ from \in Nat /\ from + count <= len
    BY ONLY <2>5
  <2> QED
    BY <2>2, <2>6
<1>9. v \in Holds
  <2>1. TempSlot(Current, i) \in Nat /\ TempSlot(Current, i) < Len(values)
    BY ONLY <1>1, <1>6, SMTT(30)
  <2> QED
    BY <1>3, <2>1, AtType
<1> HIDE DEF v
<1>10. t \in 1 .. Len(packs)
  BY <1>4, <1>9 DEF IsTable, Holds, Stored
<1>11. row \in Seq(Holds)
  <2>1. \A k \in 1 .. count : At(values, from + k - 1) \in Holds
    <3> SUFFICES ASSUME NEW k \in 1 .. count PROVE At(values, from + k - 1) \in Holds
      OBVIOUS
    <3>1. from + k - 1 \in Nat /\ from + k - 1 < Len(values)
      BY <1>1, <1>8
    <3> QED
      BY <1>3, <3>1, AtType
  <2> QED
    BY <1>8, <2>1
<1> HIDE DEF t, row
<1>12. packs[t] \in R
  <2>1. packs \in Seq(R)
    BY DEF IInv, Sound, ArenasOK, Holds
  <2> HIDE DEF R
  <2> QED
    BY <1>10, <2>1
<1>13. x \in R
  <2>1. packs[t].items \o row \in Seq(Holds)
    BY <1>11, <1>12
  <2> QED
    BY <1>12, <2>1
<1>14. packs' = [packs EXCEPT ![t] = x]
  BY <1>4, <1>10
<1> HIDE DEF x, R
<1>15. ArenasOK(functions, cells, packs', program) /\ Len(packs') = Len(packs)
  BY <1>10, <1>13, <1>14, PackChanged DEF R
<1>16. RowChanged(frames', f.vars, i, Len(values))
  <2>1. RowFits(f.base + p.registers, f.vars, i, FALSE, Len(values))
    <3>1. /\ f.base + p.registers \in Nat /\ p.slots + i <= p.registers
          /\ f.base + p.slots + i <= f.base + p.registers
      BY <1>1
    <3> QED
      BY <1>1, <1>2, <3>1 DEF RowFits, f, p
  <2>2. [f EXCEPT !.top = f.base + p.registers, !.temps = i, !.spread = FALSE]
          = Changed(f, f.base + p.registers, f.vars, i, FALSE)
    BY <1>3 DEF IsRow
  <2>3. frames' = WithFrame(frames, Changed(f, f.base + p.registers, f.vars, i, FALSE))
    BY <1>1, <1>4, <1>5, <2>2
  <2> QED
    BY <2>1, <2>3, RunningChanged DEF f
<1>17. Stays(frames, frames')
  <2>1. Len(f.vars) \in Nat
    BY <1>2 DEF IsList
  <2> QED
    BY <1>16, <2>1, RowStays DEF f
<1>18. OpenOK(open, cells, owner, frames', Shapes)
  BY <1>17, SameOpen
<1>19. PacksNamed(frames', Shapes, values, Len(packs)) /\ FramesOK(frames', Shapes, Wants, Len(values))
  <2>1. PacksNamed(frames, Shapes, values, Len(packs)) /\ Like(frames, frames')
    BY <1>16 DEF RowChanged, IInv, Sound, Shapes
  <2> QED
    BY <1>16, <2>1, LikePacks DEF RowChanged
<1>20. Sound(values, frames', open, cells, owner, functions, packs', program)
  BY <1>3, <1>15, <1>18, <1>19 DEF Sound, Shapes, Wants, Holds
<1> QED
  BY <1>4, <1>20 DEF IInv

(* The named tables, when only temporaries and above are written.          *)
LEMMA NamedKept ==
  ASSUME IInv, Running, NEW w, NEW from \in Nat, Keeps(values, w, from, Holds),
         Current.base + ProtoOf(Current).slots <= from
  PROVE  PacksNamed(frames, Shapes, w, Len(packs))
<1>1. /\ Bounded(Shapes) /\ FramesOK(frames, Shapes, Wants, Len(values)) /\ Len(values) \in Nat
      /\ ProtoOf(Current) = Shapes[Current.func] /\ Current = frames[Len(frames)]
      /\ PacksNamed(frames, Shapes, values, Len(packs)) /\ Len(packs) \in Nat
  BY CurrentIs, ArenaLists DEF Current, Depth, IInv, Sound, Shapes
<1>2. Extends(Shapes, Shapes) /\ Runs(frames, Shapes) /\ Len(packs) <= Len(packs)
  BY <1>1, FramesRun DEF Extends
<1>3. \A k \in 1 .. Len(frames) :
        /\ k \in 1 .. Len(frames) /\ frames[k].base = frames[k].base /\ frames[k].func = frames[k].func
        /\ Shapes[frames[k].func].vararg = "Table" =>
             At(w, frames[k].base + Shapes[frames[k].func].params)
               = At(values, frames[k].base + Shapes[frames[k].func].params)
  <2> SUFFICES ASSUME NEW k \in 1 .. Len(frames), Shapes[frames[k].func].vararg = "Table"
               PROVE  At(w, frames[k].base + Shapes[frames[k].func].params)
                        = At(values, frames[k].base + Shapes[frames[k].func].params)
    OBVIOUS
  <2> DEFINE at == frames[k].base + Shapes[frames[k].func].params
             b == Current.base + ProtoOf(Current).slots
  <2>1. at \in Nat /\ at < Len(values) /\ at < b
    <3>1. Under(frames, Shapes, Len(values), k, at)
      BY <1>1, NamedUnder
    <3> HIDE DEF at
    <3> QED
      BY <1>1, <3>1 DEF Under
  <2>2. Current.base \in Nat /\ ProtoOf(Current).slots \in Nat /\ b = Current.base + ProtoOf(Current).slots
    BY CurrentBounds
  <2> HIDE DEF at, b
  <2>3. b \in Nat /\ b <= from
    BY <2>2
  <2>4. at \in 0 .. Len(values) - 1 /\ at < from
    BY <1>1, <2>1, <2>3
  <2>5. At(w, at) = At(values, at)
    BY <2>4 DEF Keeps
  <2> QED
    BY <2>5 DEF at
<1> QED
  BY <1>1, <1>2, <1>3, PacksKept

(* The frames with the last one's row changed: they stand, with the same   *)
(* locals.                                                                 *)
Settled(fs, gs, shapes, wants, tall) ==
  FramesOK(gs, shapes, wants, tall) /\ Like(fs, gs) /\ Stays(fs, gs)

(* call::settle leaves the caller's frame with its results as temporaries, *)
(* or with an open row up to the top.                                      *)
LEMMA SettleFramesIs ==
  ASSUME NEW shapes, NEW wants, NEW height \in Nat, NEW tall \in Nat, height <= tall,
         NEW fs, FramesOK(fs, shapes, wants, height), Bounded(shapes), fs # <<>>,
         NEW f, f = fs[Len(fs)], ~f.spread,
         NEW to, to = Reach(f, shapes), NEW produced \in Nat, NEW want \in Nat \cup {All},
         want # All => shapes[f.func].slots + f.temps + want <= shapes[f.func].registers,
         to + Kept(produced, want) <= tall
  PROVE  Settled(fs, SettleFrames(fs, to, produced, want), shapes, wants, tall)
<1> DEFINE gs == SettleFrames(fs, to, produced, want)
           p == shapes[f.func]
           n == Len(fs)
<1>1. IsList(fs) /\ n \in Nat /\ n # 0 /\ n \in 1 .. n
  BY DEF FramesOK, IsList
<1>2. IsFrame(f, shapes, wants) /\ f.top <= height /\ Room(f, shapes) <= height
  BY <1>1 DEF FramesOK
<1>3. /\ f.base \in Nat /\ f.top \in Nat /\ f.temps \in Nat
      /\ p.slots \in Nat /\ p.registers \in Nat /\ to \in Nat
      /\ Len(f.vars) \in Nat /\ Room(f, shapes) \in Nat
  BY <1>2, FrameBounds
<1>4. /\ IsList(f.vars) /\ Len(f.vars) \in Fixed(p) .. p.slots
      /\ p.slots + f.temps <= p.registers /\ f.top = f.base + p.registers
      /\ to = f.base + p.slots + f.temps
  BY <1>2 DEF IsFrame, Reach
<1>5. IsRow(f)
  BY <1>2, ChangedOnly
<1> HIDE DEF p
<1>6. PICK g : /\ IsFrame(g, shapes, wants) /\ g.top <= tall
               /\ g.func = f.func /\ g.base = f.base /\ g.want = f.want /\ g.ret_to = f.ret_to
               /\ g.vars = f.vars /\ gs = WithFrame(fs, g)
  <2>1. CASE want = All
    <3> DEFINE g == Changed(f, to + produced, f.vars, f.temps, TRUE)
    <3>1. to + produced \in Nat /\ to + produced <= tall /\ f.base + p.slots + f.temps <= to + produced
      BY <1>3, <1>4, <2>1 DEF Kept
    <3>2. /\ IsFrame(g, shapes, wants) /\ g.top = to + produced
          /\ g.func = f.func /\ g.base = f.base /\ g.want = f.want /\ g.ret_to = f.ret_to
          /\ g.vars = f.vars
      <4>1. RowMeets(f, shapes[f.func], to + produced, f.vars, f.temps, TRUE)
        BY <1>3, <1>4, <3>1 DEF p, RowMeets
      <4>2. IsFrame(g, shapes, wants) /\ ChangedTo(f, g, to + produced, f.vars, f.temps, TRUE)
        BY <1>2, <4>1, ChangedIs
      <4> QED
        BY <4>2 DEF ChangedTo
    <3>3. gs = WithFrame(fs, g)
      <4>1. [f EXCEPT !.top = to + produced, !.spread = TRUE] = g
        BY <1>5 DEF IsRow
      <4> QED
        BY <2>1, <4>1 DEF SettleFrames
    <3> HIDE DEF g
    <3> QED
      BY <3>1, <3>2, <3>3
  <2>2. CASE want # All
    <3> DEFINE g == Changed(f, f.top, f.vars, f.temps + want, FALSE)
    <3>1. /\ want \in Nat /\ f.temps + want \in Nat /\ p.slots + (f.temps + want) <= p.registers
      BY <1>3, <2>2, SMTT(30) DEF p
    <3>2. f.base + p.slots + (f.temps + want) <= f.top
      BY ONLY <1>3, <1>4, <3>1, SMTT(30)
    <3>3. /\ IsFrame(g, shapes, wants) /\ g.top = f.top
          /\ g.func = f.func /\ g.base = f.base /\ g.want = f.want /\ g.ret_to = f.ret_to
          /\ g.vars = f.vars
      <4>1. RowMeets(f, shapes[f.func], f.top, f.vars, f.temps + want, FALSE)
        BY <1>3, <1>4, <3>1, <3>2 DEF p, RowMeets
      <4>2. IsFrame(g, shapes, wants) /\ ChangedTo(f, g, f.top, f.vars, f.temps + want, FALSE)
        BY <1>2, <4>1, ChangedIs
      <4> QED
        BY <4>2 DEF ChangedTo
    <3>4. gs = WithFrame(fs, g)
      <4>1. [f EXCEPT !.temps = f.temps + want] = Changed(f, f.top, f.vars, f.temps + want, f.spread)
        BY <1>5 DEF IsRow
      <4>2. f.spread = FALSE
        BY <1>2, FrameBounds
      <4>3. gs = WithFrame(fs, [f EXCEPT !.temps = f.temps + want])
        BY <2>2 DEF SettleFrames
      <4> QED
        BY <4>1, <4>2, <4>3
    <3> HIDE DEF g
    <3>5. g.top <= tall
      BY <1>2, <1>3, <3>3
    <3> QED
      BY <3>3, <3>4, <3>5
  <2> QED
    BY <2>1, <2>2
<1> HIDE DEF gs
<1>7. FramesOK(gs, shapes, wants, tall)
  <2>1. Room(g, shapes) <= tall /\ g.ret_to = fs[Len(fs)].ret_to /\ g.want = fs[Len(fs)].want
    <3>1. Room(g, shapes) = Room(f, shapes)
      BY <1>6 DEF Room
    <3> QED
      BY <1>2, <1>3, <1>6, <3>1
  <2> QED
    BY <1>6, <2>1, FrameChanged
<1>8. /\ Len(gs) = n /\ gs[n] = g /\ \A k \in 1 .. n - 1 : gs[k] = fs[k]
  BY <1>1, <1>6, WithFrameIs
<1>9. \A k \in 1 .. n : k = n \/ k \in 1 .. n - 1
  BY <1>1
<1>10. \A k \in 1 .. n : gs[k].base = fs[k].base /\ gs[k].func = fs[k].func /\ gs[k].vars = fs[k].vars
  BY <1>6, <1>8, <1>9
<1>11. Like(fs, gs) /\ Stays(fs, gs)
  BY <1>8, <1>10 DEF Like, Stays
<1> QED
  BY <1>7, <1>11 DEF Settled, gs

-----------------------------------------------------------------------------
(* A temporary of the running frame, and the row above it.                 *)
LEMMA CalleeBounds ==
  ASSUME IInv, Running, NEW i \in 1 .. Current.temps
  PROVE  /\ TempSlot(Current, i) \in Nat /\ Args(i) \in Nat
         /\ TempSlot(Current, i) + 1 + Args(i) <= Len(values)
         /\ Current.base + ProtoOf(Current).slots <= TempSlot(Current, i)
         /\ TempSlot(Current, i) = Current.base + ProtoOf(Current).slots + (i - 1)
         /\ At(values, TempSlot(Current, i)) \in Holds
<1> DEFINE f == Current
           p == ProtoOf(Current)
           at == TempSlot(Current, i)
           args == Args(i)
<1>1. /\ f.base \in Nat /\ f.top \in Nat /\ f.temps \in Nat /\ f.spread \in BOOLEAN
      /\ p.slots \in Nat /\ f.base + p.slots + f.temps <= f.top
      /\ f.top <= Len(values) /\ Len(values) \in Nat
      /\ i \in Nat /\ 1 <= i /\ i <= f.temps
  BY CurrentBounds
<1>2. at = f.base + p.slots + i - 1 /\ args = IF f.spread THEN f.top - at - 1 ELSE f.temps - i
  BY DEF TempSlot, Args
<1> HIDE DEF f, p, at, args
<1>3. PICK b \in Nat : b = f.base + p.slots
  BY <1>1
<1>4. PICK len \in Nat : len = Len(values)
  BY <1>1
<1>5. PICK n \in Nat : n = f.temps
  BY <1>1
<1>6. PICK top \in Nat : top = f.top
  BY <1>1
<1>7. /\ i \in Nat /\ 1 <= i /\ i <= n /\ b + n <= top /\ top <= len /\ at = b + i - 1
      /\ args = IF f.spread THEN top - at - 1 ELSE n - i
  BY <1>1, <1>2, <1>3, <1>4, <1>5, <1>6
<1>8. at \in Nat /\ args \in Nat /\ at + 1 + args <= len /\ b <= at /\ at = b + (i - 1) /\ at < len
  BY ONLY <1>7
<1>9. At(values, at) \in Holds
  <2>1. values \in Seq(Holds)
    BY CurrentIs
  <2> QED
    BY <1>4, <1>8, <2>1, AtType
<1>10. f.base + p.slots <= at /\ at = f.base + p.slots + (i - 1) /\ at + 1 + args <= Len(values)
  BY ONLY <1>3, <1>4, <1>8
<1> QED
  BY <1>8, <1>9, <1>10 DEF f, p, at, args

(* The caller while its callee runs: what is above the callee is gone from *)
(* its row, and its top is back.                                           *)
Waits(gs, i) ==
  LET g == gs[Len(gs)]
  IN  /\ FramesOK(gs, Shapes, Wants, Len(values)) /\ Like(frames, gs) /\ Stays(frames, gs)
      /\ gs # <<>> /\ Len(gs) \in Nat \ {0}
      /\ ~g.spread /\ Reach(g, Shapes) = TempSlot(Current, i)
      /\ g.func = Current.func /\ g.temps = i - 1

(* A caller waits within its prototype's bounds.                           *)
LEMMA WaitingIs ==
  ASSUME IInv, Running, NEW i \in 1 .. Current.temps
  PROVE  Waits(Waiting(i), i)
<1> DEFINE f == Current
           p == ProtoOf(Current)
           top == f.base + p.registers
           g == Changed(f, top, f.vars, i - 1, FALSE)
           gs == WithFrame(frames, g)
<1>1. /\ f.base \in Nat /\ f.temps \in Nat /\ p.slots \in Nat /\ p.registers \in Nat
      /\ p.slots + f.temps <= p.registers /\ Len(values) \in Nat /\ top <= Len(values)
      /\ i - 1 \in Nat /\ i - 1 <= f.temps
      /\ IsList(f.vars) /\ Len(f.vars) \in Fixed(p) .. p.slots
  BY CurrentBounds
<1>2. /\ IsFrame(f, Shapes, Wants) /\ p = Shapes[f.func] /\ IsList(frames) /\ frames # <<>>
      /\ Depth \in Nat \ {0} /\ Depth = Len(frames) /\ f = frames[Len(frames)]
  BY CurrentIs DEF FramesOK, Depth, Current
<1>3. IsRow(f)
  BY <1>2, ChangedOnly
<1>4. Waiting(i) = gs
  BY <1>3 DEF Waiting, IsRow
<1> HIDE DEF f, p
<1>5. p.slots + (i - 1) <= p.registers /\ f.base + p.slots + (i - 1) <= top /\ top \in Nat
  BY <1>1
<1> HIDE DEF top
<1>6. RowChanged(gs, f.vars, i - 1, Len(values))
  <2>1. RowFits(top, f.vars, i - 1, FALSE, Len(values))
    BY <1>1, <1>5 DEF RowFits, f, p, top
  <2> QED
    BY <2>1, RunningChanged DEF f
<1>7. ChangedTo(f, g, top, f.vars, i - 1, FALSE)
  <2>1. RowMeets(f, Shapes[f.func], top, f.vars, i - 1, FALSE)
    BY <1>1, <1>2, <1>5 DEF RowMeets, top
  <2> QED
    BY <1>2, <2>1, ChangedIs
<1> HIDE DEF g
<1>8. Len(gs) = Depth /\ gs[Depth] = g
  BY <1>2, WithFrameIs
<1> HIDE DEF gs
<1>9. Stays(frames, gs)
  <2>1. Len(f.vars) \in Nat
    BY <1>1 DEF IsList
  <2> QED
    BY <1>6, <2>1, RowStays DEF f
<1>10. Reach(g, Shapes) = TempSlot(Current, i)
  <2>1. TempSlot(Current, i) = f.base + p.slots + (i - 1)
    BY CalleeBounds DEF f, p
  <2>2. Reach(g, Shapes) = f.base + p.slots + (i - 1)
    BY <1>2, <1>7 DEF Reach, ChangedTo
  <2> QED
    BY <2>1, <2>2
<1>11. g.func = f.func /\ g.temps = i - 1 /\ ~g.spread
  BY <1>7 DEF ChangedTo
<1>12. gs # <<>>
  BY <1>2, <1>8
<1>13. FramesOK(gs, Shapes, Wants, Len(values)) /\ Like(frames, gs)
  BY <1>6 DEF RowChanged
<1>14. Waits(gs, i)
  BY <1>2, <1>8, <1>9, <1>10, <1>11, <1>12, <1>13 DEF Waits, f
<1> QED
  BY <1>4, <1>14

(* What stays, and then stays, has stayed.                                 *)
LEMMA StaysOn ==
  ASSUME NEW fs, NEW gs, NEW hs, Stays(fs, gs), Stays(gs, hs)
  PROVE  Stays(fs, hs)
BY DEF Stays

(* What is likened twice is likened.                                       *)
LEMMA LikeOn ==
  ASSUME NEW fs, NEW gs, NEW hs, Like(fs, gs), Like(gs, hs)
  PROVE  Like(fs, hs)
BY DEF Like

(* A call of a host function over the i-th temporary.                      *)
LEMMA CallNativeSound ==
  ASSUME IInv, Running, NEW i \in 1 .. Current.temps, NEW want \in Wants,
         NEW results \in HostResults, CallNative(i, want, results), UNCHANGED program
  PROVE  IInv'
<1> DEFINE at == TempSlot(Current, i)
           w == NativeValues(values, at, results, want)
           gs == Waiting(i)
           hs == SettleFrames(gs, at, Len(results), want)
<1>1. CASE Throw
  BY <1>1, ThrowSound
<1>2. CASE values' = w /\ frames' = hs /\ UNCHANGED <<open, heap, outcome>>
  <2>1. /\ at \in Nat /\ at <= Len(values) /\ Current.base + ProtoOf(Current).slots <= at
    <3>1. at \in Nat /\ Args(i) \in Nat /\ at + 1 + Args(i) <= Len(values) /\ Len(values) \in Nat
      BY CalleeBounds, CurrentBounds
    <3>2. Current.base + ProtoOf(Current).slots <= at
      BY CalleeBounds
    <3> HIDE DEF at
    <3> QED
      BY <3>1, <3>2
  <2>2. values \in Seq(Holds) /\ Nil \in Holds /\ want \in Nat \cup {All} /\ Bounded(Shapes)
    BY CurrentIs
  <2>3. results \in Seq(Holds)
    <3>1. results \in Seq(Plain \cup {Native})
      BY PlainAssumption
    <3>2. Plain \cup {Native} \subseteq Holds
      BY DEF Holds, Stored
    <3> QED
      BY <3>1, <3>2
  <2>4. Waits(gs, i)
    BY WaitingIs
  <2>6. Asks(i, want)
    BY DEF CallNative
  <2> HIDE DEF at, w, gs
  <2>7. Keeps(values, w, at, Holds) /\ Kept(Len(results), want) \in Nat
        /\ at + Kept(Len(results), want) <= Len(w)
    BY <2>1, <2>2, <2>3, NativeKeeps DEF w
  <2>8. w \in Seq(Holds) /\ Len(values) <= Len(w) /\ Len(w) \in Nat /\ Len(values) \in Nat
    BY <2>7 DEF Keeps
  <2>9. Len(results) \in Nat
    BY <2>3
  <2>10. want # All => Shapes[gs[Len(gs)].func].slots + gs[Len(gs)].temps + want
                        <= Shapes[gs[Len(gs)].func].registers
    <3> SUFFICES ASSUME want # All
                 PROVE  Shapes[gs[Len(gs)].func].slots + gs[Len(gs)].temps + want
                          <= Shapes[gs[Len(gs)].func].registers
      OBVIOUS
    <3>1. ProtoOf(Current).slots + i - 1 + want <= ProtoOf(Current).registers
      BY <2>6 DEF Asks, Fits
    <3>2. /\ Shapes[gs[Len(gs)].func] = ProtoOf(Current) /\ gs[Len(gs)].temps = i - 1
          /\ ProtoOf(Current).slots \in Nat /\ want \in Nat
      BY <2>2, <2>4, CurrentIs, CurrentBounds DEF Waits
    <3>3. ProtoOf(Current).slots + (i - 1) + want = ProtoOf(Current).slots + i - 1 + want
      BY <3>2
    <3> QED
      BY <3>1, <3>2, <3>3
  <2>11. Settled(gs, hs, Shapes, Wants, Len(w))
    <3>1. /\ FramesOK(gs, Shapes, Wants, Len(values)) /\ gs # <<>> /\ ~gs[Len(gs)].spread
          /\ at = Reach(gs[Len(gs)], Shapes)
      BY <2>4 DEF Waits, at
    <3> DEFINE f == gs[Len(gs)]
    <3>2. f = gs[Len(gs)]
      OBVIOUS
    <3> HIDE DEF f
    <3> QED
      BY <2>2, <2>7, <2>8, <2>9, <2>10, <3>1, <3>2, SettleFramesIs
  <2> HIDE DEF hs
  <2>12. FramesOK(hs, Shapes, Wants, Len(w)) /\ Stays(frames, hs) /\ Like(frames, hs)
    BY <2>4, <2>11, StaysOn, LikeOn DEF Settled, Waits
  <2>13. PacksNamed(hs, Shapes, w, Len(packs))
    <3>1. PacksNamed(frames, Shapes, w, Len(packs))
      BY <2>1, <2>7, NamedKept
    <3> QED
      BY <2>12, <3>1, LikePacks
  <2>14. Sound(w, hs, open, cells, owner, functions, packs, program)
    BY <2>8, <2>12, <2>13, SameHeap
  <2> QED
    BY <1>2, <2>14 DEF IInv, heap
<1> QED
  BY <1>1, <1>2 DEF CallNative

(* A call of what is no function.                                          *)
LEMMA CallOtherSound ==
  ASSUME IInv, NEW i, CallOther(i), UNCHANGED program
  PROVE  IInv'
BY ThrowSound DEF CallOther

(* How many extra arguments there are to spread.                           *)
LEMMA AvailableIs ==
  ASSUME IInv, Running, ~(Named /\ Pack.n = BadCount)
  PROVE  Available \in Nat /\ (~Named => Available = Current.varargs)
<1>1. CASE Named
  BY <1>1, PackIs DEF Available
<1>2. CASE ~Named
  BY <1>2, CurrentBounds DEF Available
<1> QED
  BY <1>1, <1>2

(* The extra arguments of a running function, over its temporaries.        *)
LEMMA VarargSound ==
  ASSUME IInv, Running, NEW want \in Wants, Vararg(want), UNCHANGED program
  PROVE  IInv'
<1> DEFINE f == Current
           p == ProtoOf(Current)
           to == TempSlot(Current, Current.temps + 1)
           some == Available
           wanted == IF want = All THEN some ELSE want
           copied == Least(wanted, some)
           grown == Reserve(values, to + wanted)
           item(k) == IF k <= Len(Pack.items) THEN Pack.items[k] ELSE Nil
           row == [k \in 1 .. Len(grown) |->
                     IF to < k /\ k <= to + copied THEN item(k - to) ELSE grown[k]]
           slid == Shift(grown, f.base - f.varargs, to, copied)
           spilled == IF Named THEN row ELSE slid
           w == Fill(spilled, to + copied, to + wanted, Nil)
           hs == SettleFrames(frames, to, wanted, want)
<1>1. ~f.spread /\ Asks(f.temps + 1, want)
  BY DEF Vararg
<1>2. CASE Throw
  BY <1>2, ThrowSound
<1>3. CASE /\ ~(Named /\ Pack.n = BadCount)
           /\ values' = w /\ frames' = hs /\ UNCHANGED <<open, heap, outcome>>
  <2>1. values \in Seq(Holds) /\ Nil \in Holds /\ want \in Nat \cup {All} /\ Bounded(Shapes)
        /\ Len(values) \in Nat
    BY CurrentIs
  <2>2. /\ f.base \in Nat /\ f.temps \in Nat /\ f.varargs \in Nat /\ f.varargs <= f.base
        /\ p.slots \in Nat /\ p.registers \in Nat
        /\ f.base + p.slots + f.temps <= f.top /\ f.top <= Len(values) /\ f.top \in Nat
    BY CurrentBounds
  <2>3. p = Shapes[f.func]
    BY CurrentIs
  <2>4. to = f.base + p.slots + (f.temps + 1) - 1
    BY DEF TempSlot
  <2>5. some \in Nat /\ (~Named => some = f.varargs)
    BY <1>3, AvailableIs
  <2> HIDE DEF f, p, to, some
  <2>6. to \in Nat /\ to = f.base + p.slots + f.temps /\ to <= Len(values)
        /\ f.base <= to /\ f.base + p.slots <= to
    BY ONLY <2>1, <2>2, <2>4, SMTT(30)
  <2>7. wanted \in Nat /\ Kept(wanted, want) = wanted
    BY <2>1, <2>5 DEF Kept
  <2> HIDE DEF wanted
  <2>8. copied \in Nat /\ copied <= wanted /\ copied <= some
    BY <2>5, <2>7 DEF Least
  <2> HIDE DEF copied
  <2>9. /\ Keeps(values, grown, to, Holds) /\ Len(grown) \in Nat
        /\ to + wanted <= Len(grown) /\ Len(values) <= Len(grown) /\ grown \in Seq(Holds)
    <3>1. to + wanted \in Nat
      BY <2>6, <2>7
    <3>2. Keeps(values, grown, to, Holds)
          /\ Len(grown) = IF Len(values) < to + wanted THEN to + wanted ELSE Len(values)
      BY <2>1, <2>6, <3>1, ReserveKeeps
    <3> HIDE DEF grown
    <3> QED
      BY <2>1, <3>1, <3>2 DEF Keeps
  <2> HIDE DEF grown
  <2>10. Keeps(grown, spilled, to, Holds) /\ Len(spilled) = Len(grown)
    <3>1. CASE ~Named
      <4>1. f.base - f.varargs \in Nat /\ f.base - f.varargs + copied <= Len(grown)
        <5>1. PICK b \in Nat : b = f.base - f.varargs
          BY <2>2
        <5>2. b + f.varargs = f.base /\ some = f.varargs /\ b + copied <= f.base
          BY <2>2, <2>5, <2>8, <3>1, <5>1
        <5> QED
          BY <2>1, <2>6, <2>9, <2>2, <2>8, <5>1, <5>2
      <4>2. spilled = slid
        BY <3>1
      <4> HIDE DEF spilled
      <4>3. Keeps(grown, slid, to, Holds) /\ Len(slid) = Len(grown)
        BY <2>6, <2>8, <2>9, <4>1, ShiftKeeps
      <4> QED
        BY <4>2, <4>3
    <3>2. CASE Named
      <4>1. Pack \in [items : Seq(Holds), n : Nat \cup {BadCount}]
        BY <3>2, PackIs
      <4>2. \A k \in Nat \ {0} : item(k) \in Holds
        <5> SUFFICES ASSUME NEW k \in Nat \ {0} PROVE item(k) \in Holds
          OBVIOUS
        <5>1. CASE k <= Len(Pack.items)
          <6>1. k \in 1 .. Len(Pack.items) /\ Pack.items \in Seq(Holds)
            BY <4>1, <5>1
          <6> QED
            BY <5>1, <6>1
        <5>2. CASE ~(k <= Len(Pack.items))
          BY <2>1, <5>2
        <5> QED
          BY <5>1, <5>2
      <4> HIDE DEF item
      <4>3. \A k \in 1 .. Len(grown) : to < k => k - to \in Nat \ {0}
        BY <2>6, <2>9
      <4>4. /\ row = [k \in 1 .. Len(grown) |-> row[k]]
            /\ \A k \in 1 .. Len(grown) : row[k] \in Holds
            /\ \A k \in 1 .. Len(grown) : ~(to < k) => row[k] = grown[k]
        <5>1. \A k \in 1 .. Len(grown) : grown[k] \in Holds
          BY <2>9
        <5> QED
          BY <4>2, <4>3, <5>1
      <4>5. spilled = row
        BY <3>2
      <4> HIDE DEF row, spilled
      <4>6. row \in Seq(Holds) /\ Len(row) = Len(grown)
        BY <2>9, <4>4, SequenceOf
      <4>7. \A s \in 0 .. Len(grown) - 1 : s < to => s + 1 \in 1 .. Len(grown) /\ ~(to < s + 1)
        BY <2>6, <2>9
      <4>8. Keeps(grown, row, to, Holds)
        BY <2>9, <4>4, <4>6, <4>7 DEF Keeps, At
      <4> QED
        BY <4>5, <4>6, <4>8
    <3> QED
      BY <3>1, <3>2
  <2> HIDE DEF spilled
  <2>11. Keeps(spilled, w, to, Holds) /\ Len(w) = Len(spilled)
    <3>1. spilled \in Seq(Holds) /\ to + copied \in Nat /\ to <= to + copied
      BY <2>6, <2>8, <2>10 DEF Keeps
    <3>2. Keeps(spilled, w, to + copied, Holds) /\ Len(w) = Len(spilled)
      BY <2>1, <3>1, FillKeeps
    <3> HIDE DEF w
    <3> QED
      BY <2>6, <3>1, <3>2, KeepsFewer
  <2> HIDE DEF w
  <2>12. Keeps(values, w, to, Holds) /\ to + Kept(wanted, want) <= Len(w)
    <3>1. Keeps(values, spilled, to, Holds)
      BY <2>9, <2>10, KeepsOn
    <3>2. Keeps(values, w, to, Holds)
      BY <2>11, <3>1, KeepsOn
    <3> QED
      BY <2>7, <2>9, <2>10, <2>11, <3>2
  <2>13. w \in Seq(Holds) /\ Len(values) <= Len(w) /\ Len(w) \in Nat
    BY <2>12 DEF Keeps
  <2>14. want # All => p.slots + f.temps + want <= p.registers
    <3> SUFFICES ASSUME want # All PROVE p.slots + f.temps + want <= p.registers
      OBVIOUS
    <3>1. p.slots + (f.temps + 1) - 1 + want <= p.registers
      BY <1>1 DEF Asks, Fits, f, p
    <3>2. p.slots + (f.temps + 1) - 1 + want = p.slots + f.temps + want
      BY <2>1, <2>2
    <3> QED
      BY <3>1, <3>2
  <2>15. Settled(frames, hs, Shapes, Wants, Len(w))
    <3>1. FramesOK(frames, Shapes, Wants, Len(values)) /\ frames # <<>> /\ f = frames[Len(frames)]
      BY CurrentIs DEF f, Current, Depth
    <3>2. to = Reach(f, Shapes)
      BY <2>3, <2>6 DEF Reach
    <3> QED
      BY <1>1, <2>1, <2>3, <2>7, <2>12, <2>13, <2>14, <3>1, <3>2, SettleFramesIs DEF f
  <2> HIDE DEF hs
  <2>16. FramesOK(hs, Shapes, Wants, Len(w)) /\ Stays(frames, hs) /\ Like(frames, hs)
    BY <2>15 DEF Settled
  <2>17. PacksNamed(hs, Shapes, w, Len(packs))
    <3>1. PacksNamed(frames, Shapes, w, Len(packs))
      BY <2>6, <2>12, NamedKept DEF f, p
    <3> QED
      BY <2>16, <3>1, LikePacks
  <2>18. Sound(w, hs, open, cells, owner, functions, packs, program)
    BY <2>13, <2>16, <2>17, SameHeap
  <2> QED
    BY <1>3, <2>18 DEF IInv, heap
<1>4. Throw \/ (/\ ~(Named /\ Pack.n = BadCount)
                /\ values' = w /\ frames' = hs /\ UNCHANGED <<open, heap, outcome>>)
  <2> HIDE DEF f, p, w, hs
  <2> QED
    BY DEF Vararg, w, hs, f
<1> QED
  BY <1>2, <1>3, <1>4

-----------------------------------------------------------------------------
(* The frames below the running one: they stand, and wait for it.          *)
LEMMA BelowIs ==
  ASSUME IInv, Running
  PROVE  /\ FramesOK(Below, Shapes, Wants, Len(values)) /\ IsList(Below)
         /\ Len(Below) \in Nat /\ Depth = Len(Below) + 1
         /\ \A k \in 1 .. Len(Below) : Below[k] = frames[k] /\ k \in 1 .. Depth - 1
         /\ Below # <<>> => Nests(Below[Len(Below)], Current, Shapes)
<1>1. FramesOK(frames, Shapes, Wants, Len(values)) /\ frames # <<>> /\ Len(values) \in Nat
  BY CurrentIs
<1>2. Below = SubSeq(frames, 1, Len(frames) - 1) /\ Current = frames[Len(frames)] /\ Depth = Len(frames)
  BY DEF Below, Current, Depth
<1> DEFINE b == Below
<1>3. /\ FramesOK(b, Shapes, Wants, Len(values)) /\ Len(frames) \in Nat \ {0}
      /\ Len(b) = Len(frames) - 1 /\ \A k \in 1 .. Len(b) : b[k] = frames[k]
      /\ b # <<>> => Nests(b[Len(b)], frames[Len(frames)], Shapes)
  <2>1. Popped(Shapes, Wants, Len(values), frames, SubSeq(frames, 1, Len(frames) - 1))
    BY <1>1, FramePopped
  <2>2. Popped(Shapes, Wants, Len(values), frames, b)
    BY <1>2, <2>1
  <2> QED
    BY <2>2 DEF Popped
<1> HIDE DEF b
<1>4. Len(b) \in Nat /\ Depth = Len(b) + 1 /\ \A k \in 1 .. Len(b) : k \in 1 .. Depth - 1
  BY <1>2, <1>3
<1> QED
  BY <1>2, <1>3, <1>4 DEF b, FramesOK

(* The running frame closes its locals as it leaves: what is open still is *)
(* a local of the frames below.                                            *)
LEMMA LeftSound ==
  ASSUME IInv, Running, NEW v, Keeps(values, v, Current.ret_to, Holds)
  PROVE  LET ds == ClosedCells(v, Current.base)
         IN  /\ OpenOK(StillOpen(Current.base), ds, owner, Below, Shapes)
             /\ ArenasOK(functions, ds, packs, program) /\ Len(ds) = Len(cells)
<1> DEFINE ds == ClosedCells(v, Current.base)
<1>1. v \in Seq(Holds) /\ Len(values) <= Len(v) /\ Len(v) \in Nat
  BY DEF Keeps
<1>2. /\ FramesOK(frames, Shapes, Wants, Len(values)) /\ Len(values) \in Nat /\ Bounded(Shapes)
      /\ Current.base \in Nat
  BY CurrentIs, CurrentBounds
<1>3. FramesOK(frames, Shapes, Wants, Len(v))
  <2>1. Extends(Shapes, Shapes)
    BY DEF Extends
  <2> QED
    BY <1>1, <1>2, <2>1, FramesGrown
<1>4. /\ OpenOK(open, cells, owner, frames, Shapes) /\ IsList(cells)
      /\ \A c \in 1 .. Len(cells) : IsCell(cells[c], Holds)
  BY DEF IInv, Sound, ArenasOK, Shapes, Holds
<1>5. \A s \in Nat : \A x : IsLocal(s, x, frames) /\ s < Current.base
                              => IsLocal(s, x, Below)
  <2> SUFFICES ASSUME NEW s \in Nat, NEW x, IsLocal(s, x, frames), s < Current.base
               PROVE  IsLocal(s, x, Below)
    OBVIOUS
  <2>1. PICK k \in 1 .. Len(frames) :
          \E i \in 1 .. Len(frames[k].vars) :
            s = frames[k].base + i - 1 /\ x = frames[k].vars[i]
    BY DEF IsLocal
  <2>2. PICK i \in 1 .. Len(frames[k].vars) :
            s = frames[k].base + i - 1 /\ x = frames[k].vars[i]
    BY <2>1
  <2>3. frames[k].base <= s /\ frames[k].base \in Nat
    <3>1. frames[k].base <= s
      BY <1>2, <2>2, LocalAt
    <3>2. IsFrame(frames[k], Shapes, Wants)
      BY <1>2 DEF FramesOK
    <3> QED
      BY <1>2, <3>1, <3>2, FrameBounds
  <2>4. k # Depth
    BY <1>2, <2>3 DEF Current
  <2>5. k \in 1 .. Len(Below) /\ Below[k] = frames[k]
    <3>1. Depth = Len(Below) + 1 /\ Len(Below) \in Nat /\ Depth = Len(frames)
      BY BelowIs DEF Depth
    <3>2. k \in 1 .. Len(Below)
      BY <2>4, <3>1
    <3> QED
      BY <3>2, BelowIs
  <2> QED
    BY <2>2, <2>5 DEF IsLocal
<1>6. /\ OpenOK(StillOpen(Current.base), ds, owner, Below, Shapes)
      /\ IsList(ds) /\ Len(ds) = Len(cells) /\ \A c \in 1 .. Len(ds) : IsCell(ds[c], Holds)
  <2> DEFINE b == Current.base
             still == Below
  <2>1. ds = ClosedCells(v, b) /\ b \in Nat
    BY <1>2
  <2>2. \A s \in Nat : \A x : IsLocal(s, x, frames) /\ s < b => IsLocal(s, x, still)
    BY <1>5
  <2> HIDE DEF ds, b, still
  <2>3. /\ OpenOK(StillOpen(b), ds, owner, still, Shapes)
        /\ IsList(ds) /\ Len(ds) = Len(cells) /\ \A c \in 1 .. Len(ds) : IsCell(ds[c], Holds)
    BY ONLY <1>1, <1>2, <1>3, <1>4, <2>1, <2>2, OpenClosed
  <2> QED
    BY <2>3 DEF b, still
<1> HIDE DEF ds
<1>7. ArenasOK(functions, ds, packs, program)
  BY <1>6, CellsChanged
<1> QED
  BY <1>6, <1>7 DEF ds

(* Its results go where nothing names a table of the frames below.         *)
LEMMA BelowNamed ==
  ASSUME IInv, Running, NEW w, Keeps(values, w, Current.ret_to, Holds)
  PROVE  PacksNamed(Below, Shapes, w, Len(packs))
<1>1. /\ Bounded(Shapes) /\ FramesOK(frames, Shapes, Wants, Len(values)) /\ Len(values) \in Nat
      /\ Current = frames[Len(frames)] /\ Depth = Len(frames)
      /\ PacksNamed(frames, Shapes, values, Len(packs)) /\ Len(packs) \in Nat
  BY CurrentIs, ArenaLists DEF Current, Depth, IInv, Sound, Shapes
<1>2. Extends(Shapes, Shapes) /\ Runs(frames, Shapes) /\ Len(packs) <= Len(packs)
  BY <1>1, FramesRun DEF Extends
<1>3. \A k \in 1 .. Len(Below) :
        /\ k \in 1 .. Len(frames) /\ Below[k].base = frames[k].base /\ Below[k].func = frames[k].func
        /\ Shapes[frames[k].func].vararg = "Table" =>
             At(w, frames[k].base + Shapes[frames[k].func].params)
               = At(values, frames[k].base + Shapes[frames[k].func].params)
  <2> SUFFICES ASSUME NEW k \in 1 .. Len(Below)
      PROVE /\ k \in 1 .. Len(frames) /\ Below[k].base = frames[k].base /\ Below[k].func = frames[k].func
            /\ Shapes[frames[k].func].vararg = "Table" =>
                 At(w, frames[k].base + Shapes[frames[k].func].params)
                   = At(values, frames[k].base + Shapes[frames[k].func].params)
    OBVIOUS
  <2>1. Below[k] = frames[k] /\ Len(frames) = Len(Below) + 1 /\ Len(Below) \in Nat
    BY <1>1, BelowIs
  <2>2. k \in 1 .. Len(frames) /\ k < Len(frames)
    BY <2>1
  <2>3. ASSUME Shapes[frames[k].func].vararg = "Table"
        PROVE  At(w, frames[k].base + Shapes[frames[k].func].params)
                 = At(values, frames[k].base + Shapes[frames[k].func].params)
    <3> DEFINE at == frames[k].base + Shapes[frames[k].func].params
    <3>1. at \in Nat /\ at < Len(values) /\ (k < Len(frames) => at < frames[Len(frames)].ret_to)
      <4>1. Under(frames, Shapes, Len(values), k, at)
        BY <1>1, <2>2, <2>3, NamedUnder
      <4> HIDE DEF at
      <4> QED
        BY <4>1 DEF Under
    <3>2. at < Current.ret_to
      BY <1>1, <2>2, <3>1
    <3> HIDE DEF at
    <3>3. at \in 0 .. Len(values) - 1
      BY <1>1, <3>1
    <3>4. At(w, at) = At(values, at)
      BY <3>2, <3>3 DEF Keeps
    <3> QED
      BY <3>4 DEF at
  <2> QED
    BY <2>1, <2>2, <2>3
<1> QED
  BY <1>1, <1>2, <1>3, PacksKept

(* A frame hands its results to the frame below.                           *)
LEMMA FinishSound ==
  ASSUME IInv, Running, NEW v, Keeps(values, v, Current.ret_to, Holds),
         NEW from \in Nat, NEW produced \in Nat, from + produced <= Len(v),
         Finish(v, from, produced), UNCHANGED program
  PROVE  IInv'
<1> DEFINE f == Current
           w == SettleValues(v, from, f.ret_to, produced, f.want)
           hs == SettleFrames(Below, f.ret_to, produced, f.want)
           ds == ClosedCells(v, f.base)
           still == StillOpen(f.base)
<1>1. /\ values' = w /\ frames' = hs /\ cells' = ds /\ open' = still
      /\ UNCHANGED <<functions, packs, outcome, owner>>
  BY DEF Finish
<1>2. f.ret_to \in Nat /\ f.want \in Nat \cup {All} /\ Nil \in Holds /\ v \in Seq(Holds)
      /\ Bounded(Shapes) /\ Len(values) \in Nat
  BY CurrentIs, CurrentBounds DEF Keeps
<1>3. /\ OpenOK(still, ds, owner, Below, Shapes)
      /\ ArenasOK(functions, ds, packs, program) /\ Len(ds) = Len(cells)
  BY LeftSound
<1> HIDE DEF f, ds, still
<1>4. /\ Keeps(v, w, f.ret_to, Holds) /\ Kept(produced, f.want) \in Nat
      /\ f.ret_to + Kept(produced, f.want) <= Len(w)
  BY <1>2, SettleKeeps, ZenonT(40)
<1> HIDE DEF w
<1>5. Keeps(values, w, f.ret_to, Holds)
  BY <1>4, KeepsOn DEF f
<1>6. w \in Seq(Holds) /\ Len(values) <= Len(w) /\ Len(w) \in Nat
  BY <1>5 DEF Keeps
<1>7. PacksNamed(Below, Shapes, w, Len(packs))
  BY <1>5, BelowNamed DEF f
<1>8. FramesOK(Below, Shapes, Wants, Len(values)) /\ IsList(Below)
  BY BelowIs
<1>9. Settled(Below, hs, Shapes, Wants, Len(w))
  <2>1. CASE Below = <<>>
    <3>1. hs = Below
      BY <2>1 DEF SettleFrames
    <3>2. FramesOK(Below, Shapes, Wants, Len(w))
      <4>1. Extends(Shapes, Shapes)
        BY DEF Extends
      <4> QED
        BY <1>2, <1>6, <1>8, <4>1, FramesGrown
    <3>3. Like(Below, Below) /\ Stays(Below, Below)
      BY DEF Like, Stays
    <3> QED
      BY <3>1, <3>2, <3>3 DEF Settled
  <2>2. CASE Below # <<>>
    <3> DEFINE g == Below[Len(Below)]
    <3>1. Nests(g, f, Shapes)
      BY <2>2, BelowIs DEF f
    <3>2. g = Below[Len(Below)]
      OBVIOUS
    <3> HIDE DEF g
    <3>3. /\ f.ret_to = Reach(g, Shapes) /\ ~g.spread
          /\ f.want # All => Shapes[g.func].slots + g.temps + f.want <= Shapes[g.func].registers
      BY <3>1 DEF Nests
    <3> QED
      BY <1>2, <1>4, <1>6, <1>8, <2>2, <3>2, <3>3, SettleFramesIs
  <2> QED
    BY <2>1, <2>2
<1> HIDE DEF hs
<1>10. FramesOK(hs, Shapes, Wants, Len(w)) /\ Like(Below, hs) /\ Stays(Below, hs)
  BY <1>9 DEF Settled
<1>11. PacksNamed(hs, Shapes, w, Len(packs))
  BY <1>7, <1>10, LikePacks
<1>12. OpenOK(still, ds, owner, hs, Shapes)
  <2>1. Extends(Shapes, Shapes) /\ Runs(Below, Shapes)
    BY <1>8, FramesRun DEF Extends
  <2>2. IsList(ds) /\ IsList(owner) /\ Len(owner) = Len(ds) /\ Len(ds) \in Nat
    BY <1>3, ArenaLists DEF ArenasOK
  <2>3. \A c \in 1 .. Len(ds) :
          owner[c] = owner[c] /\ (ds[c] = ds[c] \/ {ds[c].kind, ds[c].kind} = {"Closed"})
    OBVIOUS
  <2>4. Len(ds) <= Len(ds) /\ \A c \in 1 .. Len(ds) : c \notin 1 .. Len(ds) => ds[c].kind = "Closed"
    BY <2>2
  <2> QED
    BY <1>3, <1>10, <2>1, <2>2, <2>3, <2>4, OpenKept
<1>13. Sound(w, hs, still, ds, owner, functions, packs, program)
  BY <1>3, <1>6, <1>10, <1>11, <1>12 DEF Sound, Shapes, Wants, Holds
<1> QED
  BY <1>1, <1>13 DEF IInv

(* Results are above where they settle.                                    *)
LEMMA FirstTemporary ==
  ASSUME IInv, Running
  PROVE  LET from == TempSlot(Current, 1)
             produced == IF Current.spread THEN Current.top - from ELSE Current.temps
         IN  /\ from \in Nat /\ produced \in Nat /\ from + produced <= Len(values)
             /\ Current.ret_to \in Nat /\ Current.ret_to <= from
<1> DEFINE f == Current
           p == ProtoOf(Current)
           from == TempSlot(Current, 1)
           produced == IF Current.spread THEN Current.top - from ELSE Current.temps
<1>1. /\ f.base \in Nat /\ f.top \in Nat /\ f.temps \in Nat /\ f.spread \in BOOLEAN
      /\ f.ret_to \in Nat /\ f.varargs \in Nat /\ f.ret_to < f.base - f.varargs
      /\ p.slots \in Nat /\ f.base + p.slots + f.temps <= f.top
      /\ f.top <= Len(values) /\ Len(values) \in Nat
  BY CurrentBounds
<1>2. from = f.base + p.slots + 1 - 1
  BY DEF TempSlot
<1>3. produced = IF f.spread THEN f.top - from ELSE f.temps
  OBVIOUS
<1> HIDE DEF f, p, from, produced
<1>4. PICK b \in Nat : b = f.base + p.slots
  BY <1>1
<1>5. PICK len \in Nat : len = Len(values)
  BY <1>1
<1>6. PICK n \in Nat : n = f.temps
  BY <1>1
<1>7. PICK top \in Nat : top = f.top
  BY <1>1
<1>8. PICK to \in Nat : to = f.ret_to
  BY <1>1
<1>9. from = b /\ b + n <= top /\ top <= len /\ to <= b
      /\ produced = IF f.spread THEN top - from ELSE n
  BY <1>1, <1>2, <1>3, <1>4, <1>5, <1>6, <1>7, <1>8, SMTT(30)
<1>10. from \in Nat /\ produced \in Nat /\ from + produced <= len /\ to <= from
  BY ONLY <1>9
<1> QED
  BY <1>5, <1>8, <1>10 DEF f, from, produced

(* A return closes what its frame captured, drops the frame and settles    *)
(* the row with its caller.                                                *)
LEMMA ReturnSound ==
  ASSUME IInv, Running, Return, UNCHANGED program
  PROVE  IInv'
<1> DEFINE from == TempSlot(Current, 1)
           produced == IF Current.spread THEN Current.top - from ELSE Current.temps
<1>1. /\ from \in Nat /\ produced \in Nat /\ from + produced <= Len(values)
  BY FirstTemporary
<1>2. Finish(values, from, produced)
  BY DEF Return
<1> HIDE DEF from, produced
<1>3. Keeps(values, values, Current.ret_to, Holds)
  BY CurrentIs DEF Keeps
<1> QED
  BY <1>1, <1>2, <1>3, FinishSound

(* A tail call of a host function returns what the function pushed.        *)
LEMMA TailCallNativeSound ==
  ASSUME IInv, Running, NEW results \in HostResults, TailCallNative(results), UNCHANGED program
  PROVE  IInv'
<1> DEFINE from == TempSlot(Current, 1)
           v == NativeValues(values, from, results, All)
<1>1. CASE Throw
  BY <1>1, ThrowSound
<1>2. CASE Finish(v, from, Len(results))
  <2>1. from \in Nat /\ from <= Len(values) /\ Current.ret_to \in Nat /\ Current.ret_to <= from
    <3>1. 1 \in 1 .. Current.temps
      BY CurrentBounds DEF TailCallNative
    <3>2. from \in Nat /\ Args(1) \in Nat /\ from + 1 + Args(1) <= Len(values) /\ Len(values) \in Nat
      BY <3>1, CalleeBounds, CurrentBounds
    <3>3. Current.ret_to \in Nat /\ Current.ret_to <= from
      BY FirstTemporary
    <3> HIDE DEF from
    <3> QED
      BY <3>2, <3>3
  <2>2. values \in Seq(Holds) /\ Nil \in Holds
    BY CurrentIs
  <2>3. results \in Seq(Holds) /\ Len(results) \in Nat
    <3>1. results \in Seq(Plain \cup {Native})
      BY PlainAssumption
    <3>2. Plain \cup {Native} \subseteq Holds
      BY DEF Holds, Stored
    <3> QED
      BY <3>1, <3>2
  <2> HIDE DEF from
  <2>4. Keeps(values, v, from, Holds) /\ from + Kept(Len(results), All) <= Len(v)
    BY <2>1, <2>2, <2>3, NativeKeeps
  <2> HIDE DEF v
  <2>5. Keeps(values, v, Current.ret_to, Holds) /\ from + Len(results) <= Len(v)
    BY <2>1, <2>4, KeepsFewer DEF Kept
  <2> QED
    BY <1>2, <2>1, <2>3, <2>5, FinishSound
<1> QED
  BY <1>1, <1>2 DEF TailCallNative

-----------------------------------------------------------------------------
(* With more tables made the stack may hold more.                          *)
LEMMA StoredMore ==
  ASSUME NEW fns \in Nat, NEW more \in Nat, fns <= more,
         NEW tables \in Nat, NEW made \in Nat, tables <= made,
         NEW v \in Seq(Stored(fns, tables))
  PROVE  v \in Seq(Stored(more, made)) /\ Stored(fns, tables) \subseteq Stored(more, made)
<1>1. Stored(fns, tables) \subseteq Stored(more, made)
  <2>1. 1 .. fns \subseteq 1 .. more /\ 1 .. tables \subseteq 1 .. made
    OBVIOUS
  <2> QED
    BY <2>1 DEF Stored
<1> DEFINE S == Stored(fns, tables)
           T == Stored(more, made)
<1> HIDE DEF S, T
<1>2. v \in Seq(S) /\ S \subseteq T
  BY <1>1 DEF S, T
<1>3. v \in Seq(T)
  BY ONLY <1>2
<1> QED
  BY <1>1, <1>3 DEF T

(* The frame a call gets: within its prototype's bounds, right above the   *)
(* callee and the extra arguments.                                         *)
EnteredFrame(f, p, callee, args, want, variables) ==
  LET base == EnterBase(p, callee, args)
  IN  [func |-> f, base |-> base, top |-> base + p.registers, want |-> want,
       ret_to |-> callee, varargs |-> EnterVarargs(p, args),
       vars |-> variables, temps |-> 0, spread |-> FALSE]

FrameFor(g, shapes, wants, f, p, callee, args, want) ==
  /\ IsFrame(g, shapes, wants) /\ g.func = f /\ g.base = EnterBase(p, callee, args)
  /\ g.ret_to = callee /\ g.want = want
  /\ g.top = EnterBase(p, callee, args) + p.registers
  /\ Room(g, shapes) = EnterBase(p, callee, args) + p.registers

(* The frame a call enters is within its prototype's bounds.               *)
LEMMA EnteredFrameIs ==
  ASSUME NEW shapes, NEW wants, NEW f \in DOMAIN shapes, NEW p, p = shapes[f], IsProto(p),
         NEW callee \in Nat, NEW args \in Nat, NEW want \in wants \cup {0},
         NEW variables, IsList(variables), Len(variables) = Fixed(p),
         NEW g, g = EnteredFrame(f, p, callee, args, want, variables)
  PROVE  FrameFor(g, shapes, wants, f, p, callee, args, want)
<1> DEFINE base == EnterBase(p, callee, args)
           extra == EnterVarargs(p, args)
<1>1. /\ p.params \in Nat /\ p.slots \in Nat /\ p.registers \in Nat
      /\ Fixed(p) \in Nat /\ Fixed(p) <= p.slots /\ p.slots <= p.registers
      /\ base \in Nat /\ extra \in Nat /\ callee < base - extra
  BY ProtoBounds
<1>2. g = [func |-> f, base |-> base, top |-> base + p.registers, want |-> want,
           ret_to |-> callee, varargs |-> extra,
           vars |-> variables, temps |-> 0, spread |-> FALSE]
  BY DEF EnteredFrame
<1> HIDE DEF base, extra
<1>3. extra <= base
  BY <1>1
<1>4. /\ g.func = f /\ g.base = base /\ g.top = base + p.registers /\ g.want = want
      /\ g.ret_to = callee /\ g.varargs = extra /\ g.vars = variables /\ g.temps = 0
      /\ g.spread = FALSE
  BY <1>2
<1>5. g \in [func : DOMAIN shapes, base : Nat, top : Nat, want : wants \cup {0}, ret_to : Nat,
             varargs : Nat, vars : {g.vars}, temps : Nat, spread : BOOLEAN]
  BY <1>1, <1>2
<1>6. /\ p.slots + 0 <= p.registers /\ base + p.slots + 0 <= base + p.registers
      /\ Fixed(p) \in Fixed(p) .. p.slots
  BY <1>1
<1>7. IsFrame(g, shapes, wants)
  BY <1>1, <1>3, <1>4, <1>5, <1>6 DEF IsFrame
<1>8. Room(g, shapes) = base + p.registers
  BY <1>4 DEF Room
<1> QED
  BY <1>4, <1>7, <1>8 DEF base, FrameFor

(* What a call leaves of the stack, the frames and the tables made.        *)
Entered(shapes, wants, made, below) ==
  /\ values' \in Seq(Stored(made, Len(packs')))
  /\ FramesOK(frames', shapes, wants, Len(values'))
  /\ Stays(below, frames') /\ PacksNamed(frames', shapes, values', Len(packs'))
  /\ IsList(packs') /\ Len(packs') \in Nat /\ Len(packs) <= Len(packs')
  /\ Len(packs') <= MaxPacks
  /\ \A t \in 1 .. Len(packs') :
       \/ t \in 1 .. Len(packs) /\ packs'[t] = packs[t]
       \/ packs'[t] \in [items : Seq(Stored(made, Len(packs'))), n : Nat \cup {BadCount}]

(* The extra arguments of a function that names them make a table.         *)
PackedBy(p, callee, args, w) ==
  LET base == EnterBase(p, callee, args)
      extra == EnterVarargs(p, args)
  IN  IF p.vararg = "Table"
      THEN Append(packs, [items |-> [k \in 1 .. extra |-> At(w, base - extra + k - 1)], n |-> extra])
      ELSE packs

PacksMade(p, packed, S) ==
  /\ IsList(packed) /\ Len(packed) \in Nat /\ Len(packs) <= Len(packed) /\ Len(packs) \in Nat
  /\ Len(packed) <= MaxPacks
  /\ p.vararg = "Table" => Len(packed) = Len(packs) + 1
  /\ \A t \in 1 .. Len(packed) :
       \/ t \in 1 .. Len(packs) /\ packed[t] = packs[t]
       \/ packed[t] \in [items : Seq(S), n : Nat \cup {BadCount}]

(* A function with a named `...` packs its extra arguments, values of the  *)
(* stack, into one more table; the others stay.                            *)
LEMMA EnterPacks ==
  ASSUME NEW p, IsProto(p), NEW callee \in Nat, NEW args \in Nat,
         IsList(packs), Len(packs) <= MaxPacks, MaxPacks \in Nat,
         NEW S, NEW w \in Seq(S), EnterBase(p, callee, args) <= Len(w),
         p.vararg = "Table" => Len(packs) < MaxPacks
  PROVE  PacksMade(p, PackedBy(p, callee, args, w), S)
<1> DEFINE base == EnterBase(p, callee, args)
           extra == EnterVarargs(p, args)
           row == [k \in 1 .. extra |-> At(w, base - extra + k - 1)]
           x == [items |-> row, n |-> extra]
<1>1. base \in Nat /\ extra \in Nat /\ callee < base - extra
  BY ProtoBounds
<1> DEFINE packed == PackedBy(p, callee, args, w)
<1>2. packed = IF p.vararg = "Table" THEN Append(packs, x) ELSE packs
  BY DEF PackedBy
<1> HIDE DEF packed
<1>3. Len(packs) \in Nat
  BY DEF IsList
<1>4. CASE p.vararg = "Table"
  <2> HIDE DEF base, extra
  <2>1. \A k \in 1 .. extra : At(w, base - extra + k - 1) \in S
    <3> SUFFICES ASSUME NEW k \in 1 .. extra PROVE At(w, base - extra + k - 1) \in S
      OBVIOUS
    <3> DEFINE s == base - extra + k - 1
    <3>1. s \in Nat /\ s < Len(w)
      BY <1>1 DEF base
    <3> HIDE DEF s
    <3>2. At(w, s) \in S
      BY <3>1, AtType
    <3> QED
      BY <3>2 DEF s
  <2>2. row \in Seq(S)
    BY <1>1, <2>1
  <2> HIDE DEF row
  <2>3. x \in [items : Seq(S), n : Nat \cup {BadCount}]
    BY <1>1, <2>2
  <2> HIDE DEF x
  <2>4. Appended(packs, x, packed)
    BY <1>2, <1>4, AppendIs
  <2>5. IsList(packed) /\ Len(packed) = Len(packs) + 1 /\ packed[Len(packs) + 1] = x
        /\ \A t \in 1 .. Len(packs) : packed[t] = packs[t]
    BY <2>4 DEF Appended
  <2>6. \A t \in 1 .. Len(packs) + 1 : t \in 1 .. Len(packs) \/ t = Len(packs) + 1
    BY <1>3
  <2>7. Len(packs) + 1 <= MaxPacks
    BY <1>3, <1>4
  <2>8. \A t \in 1 .. Len(packed) :
          \/ t \in 1 .. Len(packs) /\ packed[t] = packs[t]
          \/ packed[t] \in [items : Seq(S), n : Nat \cup {BadCount}]
    BY ONLY <2>3, <2>5, <2>6
  <2>9. Len(packed) \in Nat /\ Len(packs) <= Len(packed)
    BY ONLY <1>3, <2>5
  <2> QED
    BY ONLY <1>3, <2>5, <2>7, <2>8, <2>9 DEF PacksMade, packed
<1>5. CASE p.vararg # "Table"
  BY <1>2, <1>3, <1>5 DEF PacksMade, packed
<1> QED
  BY <1>4, <1>5

(* A call that can be made: its arguments are on the stack, its results    *)
(* will fit under it.                                                      *)
CanEnter(v, below, shapes, wants, made, f, callee, args, want) ==
  /\ v \in Seq(Stored(made, Len(packs))) /\ made \in Nat
  /\ FramesOK(below, shapes, wants, Len(v)) /\ Bounded(shapes)
  /\ f \in DOMAIN shapes /\ callee \in Nat /\ args \in Nat /\ callee + 1 + args <= Len(v)
  /\ want \in wants \cup {0}
  /\ below # <<>> =>
       LET g == below[Len(below)]
       IN  /\ callee = Reach(g, shapes) /\ ~g.spread
           /\ want # All => shapes[g.func].slots + g.temps + want <= shapes[g.func].registers
  /\ PacksNamed(below, shapes, v, Len(packs))
  /\ IsList(packs) /\ Len(packs) <= MaxPacks /\ MaxPacks \in Nat

(* The callee's frame is pushed, its registers laid out over the callee.   *)
LEMMA EnterSound ==
  ASSUME NEW v, NEW below, NEW shapes, NEW wants, NEW made, NEW f, NEW callee, NEW args, NEW want,
         CanEnter(v, below, shapes, wants, made, f, callee, args, want),
         Enter(v, below, f, shapes[f], callee, args, want)
  PROVE  Entered(shapes, wants, made, below) /\ UNCHANGED outcome
<1> DEFINE p == shapes[f]
           base == EnterBase(p, callee, args)
           extra == EnterVarargs(p, args)
           pack == TableValue(Len(packs) + 1)
           w == EnterValues(v, p, callee, args, pack)
           ps == packs'
           S == Stored(made, Len(ps))
           g == EnteredFrame(f, p, callee, args, want, Fresh(InUse(below), Fixed(p)))
           gs == Append(below, g)
<1>1. /\ v \in Seq(Stored(made, Len(packs))) /\ made \in Nat
      /\ FramesOK(below, shapes, wants, Len(v)) /\ Bounded(shapes) /\ Len(v) \in Nat
      /\ f \in DOMAIN shapes /\ callee \in Nat /\ args \in Nat /\ callee + 1 + args <= Len(v)
      /\ want \in wants \cup {0} /\ PacksNamed(below, shapes, v, Len(packs))
      /\ IsList(packs) /\ Len(packs) <= MaxPacks /\ MaxPacks \in Nat /\ Len(packs) \in Nat
  BY DEF CanEnter, IsList
<1>2. IsProto(p)
  BY <1>1 DEF Bounded
<1>3. /\ values' = w /\ frames' = gs /\ UNCHANGED outcome
      /\ ps = IF p.vararg = "Table"
              THEN Append(packs, [items |-> [k \in 1 .. extra |-> At(w, base - extra + k - 1)],
                                  n |-> extra])
              ELSE packs
      /\ p.vararg = "Table" => Len(packs) < MaxPacks
  <2> HIDE DEF w, pack, base, extra, p, ps
  <2> QED
    BY DEF Enter, EnteredFrame, w, pack, base, extra, p, ps
<1>4. /\ p.params \in Nat /\ p.registers \in Nat /\ p.slots \in Nat /\ Fixed(p) \in Nat
      /\ base \in Nat /\ callee < base
  <2>1. /\ p.params \in Nat /\ p.registers \in Nat /\ p.slots \in Nat /\ Fixed(p) \in Nat
        /\ base \in Nat /\ extra \in Nat /\ callee < base - extra
    BY <1>1, <1>2, ProtoBounds
  <2> HIDE DEF p, base, extra
  <2> QED
    BY <1>1, <2>1
<1> HIDE DEF p, base, ps
<1>5. Len(ps) \in Nat /\ Len(packs) <= Len(ps)
      /\ (p.vararg = "Table" => Len(ps) = Len(packs) + 1)
  <2>1. CASE p.vararg = "Table"
    <3> DEFINE x == [items |-> [k \in 1 .. extra |-> At(w, base - extra + k - 1)], n |-> extra]
    <3>1. ps = Append(packs, x)
      BY <1>3, <2>1
    <3> HIDE DEF x
    <3>2. Appended(packs, x, ps)
      BY <1>1, <3>1, AppendIs
    <3> QED
      BY <1>1, <3>2 DEF Appended
  <2>2. CASE p.vararg # "Table"
    BY <1>1, <1>3, <2>2
  <2> QED
    BY <2>1, <2>2
<1>6. v \in Seq(S) /\ Nil \in S /\ (p.vararg = "Table" => pack \in S)
  <2>1. v \in Seq(S)
    <3>1. made <= made
      BY <1>1
    <3> QED
      BY <1>1, <1>5, <3>1, StoredMore
  <2>2. Nil \in S
    BY PlainAssumption DEF Stored
  <2>3. p.vararg = "Table" => Len(packs) + 1 \in 1 .. Len(ps)
    BY <1>1, <1>5
  <2>4. p.vararg = "Table" => pack \in S
    BY <2>3 DEF Stored, TableValue
  <2> QED
    BY <2>1, <2>2, <2>4
<1> HIDE DEF pack, S
<1>7. /\ Keeps(v, w, callee + 1, S) /\ base + p.registers <= Len(w)
      /\ p.vararg = "Table" => At(w, base + p.params) = pack
  <2>1. w = EnterValues(v, p, callee, args, pack) /\ base = EnterBase(p, callee, args)
    BY DEF base
  <2> HIDE DEF w
  <2> QED
    <3>1. LaidOut(S, v, p, callee, args, pack, w)
      BY <1>1, <1>2, <1>6, <2>1, EnterKeeps
    <3> QED
      BY <3>1 DEF LaidOut, base
<1> HIDE DEF w
<1>8. w \in Seq(S) /\ Len(v) <= Len(w) /\ Len(w) \in Nat
  BY <1>7 DEF Keeps
<1>9. /\ IsList(ps) /\ Len(ps) <= MaxPacks
      /\ \A t \in 1 .. Len(ps) :
           \/ t \in 1 .. Len(packs) /\ ps[t] = packs[t]
           \/ ps[t] \in [items : Seq(S), n : Nat \cup {BadCount}]
  <2>1. EnterBase(p, callee, args) <= Len(w)
    <3>1. base <= Len(w)
      BY <1>4, <1>7, <1>8
    <3> QED
      BY <3>1 DEF base
  <2>2. ps = PackedBy(p, callee, args, w)
    BY <1>3 DEF base, PackedBy
  <2>3. PacksMade(p, PackedBy(p, callee, args, w), S)
    BY <1>1, <1>2, <1>3, <1>8, <2>1, EnterPacks
  <2> QED
    BY <2>2, <2>3 DEF PacksMade
<1>10. /\ IsFrame(g, shapes, wants) /\ g.func = f /\ g.base = base
       /\ g.ret_to = callee /\ g.want = want /\ g.top <= Len(w) /\ Room(g, shapes) <= Len(w)
  <2> DEFINE variables == Fresh(InUse(below), Fixed(p))
  <2>1. IsList(variables) /\ Len(variables) = Fixed(p)
    BY <1>4, FreshIs
  <2>2. g = EnteredFrame(f, p, callee, args, want, variables)
    OBVIOUS
  <2> HIDE DEF variables, g
  <2>3. p = shapes[f]
    BY DEF p
  <2>4. FrameFor(g, shapes, wants, f, p, callee, args, want)
    BY <1>1, <1>2, <2>1, <2>2, <2>3, EnteredFrameIs
  <2> QED
    BY <1>7, <2>4 DEF base, FrameFor
<1> HIDE DEF g
<1>11. below # <<>> => Nests(below[Len(below)], g, shapes)
  BY <1>10 DEF CanEnter, Nests
<1>12. /\ FramesOK(gs, shapes, wants, Len(w))
       /\ Len(below) \in Nat /\ Len(gs) = Len(below) + 1 /\ gs[Len(below) + 1] = g
       /\ \A k \in 1 .. Len(below) : gs[k] = below[k]
  <2>1. gs = Append(below, g)
    OBVIOUS
  <2> HIDE DEF gs
  <2>2. Pushed(shapes, wants, Len(w), below, g, gs)
    BY ONLY <1>1, <1>8, <1>10, <1>11, <2>1, FramePushed
  <2> QED
    BY <2>2 DEF Pushed
<1> HIDE DEF gs
<1>13. Stays(below, gs)
  BY <1>12 DEF Stays
<1>14. PacksNamed(gs, shapes, w, Len(ps))
  <2> SUFFICES ASSUME NEW k \in 1 .. Len(gs), shapes[gs[k].func].vararg = "Table"
               PROVE  At(w, gs[k].base + shapes[gs[k].func].params) \in {"table"} \X (1 .. Len(ps))
    BY DEF PacksNamed
  <2>1. CASE k = Len(below) + 1
    <3>1. gs[k] = g /\ p.vararg = "Table" /\ gs[k].base + shapes[gs[k].func].params = base + p.params
      BY <1>10, <1>12, <2>1 DEF p
    <3>2. At(w, base + p.params) = pack
      BY <1>7, <3>1
    <3>3. pack \in {"table"} \X (1 .. Len(ps))
      <4>1. Len(packs) + 1 \in 1 .. Len(ps)
        BY <1>1, <1>5, <3>1
      <4> QED
        BY <4>1 DEF pack, TableValue
    <3> QED
      BY <3>1, <3>2, <3>3
  <2>2. CASE k \in 1 .. Len(below)
    <3>1. gs[k] = below[k] /\ shapes[below[k].func].vararg = "Table"
      BY <1>12, <2>2
    <3> DEFINE at == below[k].base + shapes[below[k].func].params
               h == below[Len(below)]
    <3>2. Under(below, shapes, Len(v), k, at)
      BY <1>1, <2>2, <3>1, NamedUnder
    <3>3. At(v, at) \in {"table"} \X (1 .. Len(packs))
      BY <1>1, <2>2, <3>1 DEF PacksNamed
    <3> HIDE DEF at
    <3>4. at \in Nat /\ at < Len(v) /\ at < h.base + shapes[h.func].slots
      BY <3>2 DEF Under
    <3>5. IsFrame(h, shapes, wants) /\ below # <<>>
      <4>1. Len(below) \in 1 .. Len(below) /\ Len(below) # 0
        BY <1>12, <2>2
      <4> QED
        BY <1>1, <4>1 DEF FramesOK
    <3>6. callee = Reach(h, shapes)
      BY <3>5 DEF CanEnter
    <3> HIDE DEF h
    <3>7. /\ h.base \in Nat /\ shapes[h.func].slots \in Nat /\ Reach(h, shapes) \in Nat
          /\ h.base + shapes[h.func].slots <= Reach(h, shapes)
      BY <1>1, <3>5, FrameBounds
    <3>8. at < callee + 1 /\ at \in 0 .. Len(v) - 1
      BY <1>1, <3>4, <3>6, <3>7, SMTT(30)
    <3>9. At(w, at) = At(v, at)
      BY <1>7, <3>8 DEF Keeps
    <3>10. 1 .. Len(packs) \subseteq 1 .. Len(ps)
      BY <1>1, <1>5
    <3>11. At(w, at) \in {"table"} \X (1 .. Len(ps))
      BY <3>3, <3>9, <3>10
    <3> QED
      BY <3>1, <3>11 DEF at
  <2> QED
    BY <1>12, <2>1, <2>2
<1> QED
  BY <1>3, <1>5, <1>8, <1>9, <1>12, <1>13, <1>14 DEF Entered, S, ps

(* The arenas after a call.                                                *)
LEMMA EnteredArenas ==
  ASSUME program \in Programs, NEW fns, NEW cs, ArenasOK(fns, cs, packs, program),
         NEW shapes, NEW wants, NEW below, Entered(shapes, wants, Len(fns), below)
  PROVE  ArenasOK(fns, cs, packs', program)
<1> DEFINE packed == packs'
<1>1. /\ Len(fns) \in Nat /\ Len(cs) \in Nat /\ Len(packs) \in Nat
  BY ArenaBounds
<1>2. IsList(fns) /\ IsList(cs) /\ Len(fns) <= program.functions
  BY SeqIsList DEF ArenasOK
<1>3. /\ IsList(packed) /\ Len(packs) <= Len(packed) /\ Len(packed) <= program.packs
      /\ \A t \in 1 .. Len(packed) :
           \/ t \in 1 .. Len(packs) /\ packed[t] = packs[t]
           \/ packed[t] \in [items : Seq(Stored(Len(fns), Len(packed))), n : Nat \cup {BadCount}]
  BY DEF Entered, MaxPacks
<1> HIDE DEF packed
<1>4. /\ \A f \in 1 .. Len(fns) : fns[f] = fns[f]
      /\ \A f \in 1 .. Len(fns) :
           \/ f \in 1 .. Len(fns)
           \/ fns[f] \in [proto : DOMAIN program.protos, upvals : Seq(1 .. Len(cs))]
      /\ \A c \in 1 .. Len(cs) :
           \/ c \in 1 .. Len(cs) /\ cs[c] = cs[c]
           \/ IsCell(cs[c], Stored(Len(fns), Len(packed)))
      /\ Len(fns) <= Len(fns) /\ Len(cs) <= Len(cs)
  BY <1>1
<1>5. ArenasOK(fns, cs, packed, program)
  BY <1>1, <1>2, <1>3, <1>4, ArenasGrown
<1> QED
  BY <1>5 DEF packed

(* What is called is a function there is.                                  *)
LEMMA FunctionIs ==
  ASSUME IInv, NEW v \in Holds, IsFunction(v)
  PROVE  v[2] \in DOMAIN Shapes /\ Proto[functions[v[2]].proto] = Shapes[v[2]]
<1>1. v \in {"function"} \X (1 .. Len(functions))
  BY DEF IsFunction, Holds, Stored
<1>2. v[2] \in 1 .. Len(functions)
  BY <1>1
<1> QED
  BY <1>2 DEF Shapes, ShapesOf, Proto

(* A call that the machine makes can be made.                              *)
LEMMA CallCanEnter ==
  ASSUME IInv, Running, NEW i \in 1 .. Current.temps, NEW want \in Wants,
         NEW at, at = TempSlot(Current, i), IsFunction(At(values, at)), Asks(i, want),
         NEW f, f = At(values, at)[2]
  PROVE  /\ CanEnter(values, Waiting(i), Shapes, Wants, Len(functions), f, at, Args(i), want)
         /\ Proto[functions[f].proto] = Shapes[f]
<1> DEFINE gs == Waiting(i)
<1>1. /\ at \in Nat /\ Args(i) \in Nat /\ at + 1 + Args(i) <= Len(values) /\ At(values, at) \in Holds
  BY CalleeBounds
<1>2. /\ values \in Seq(Holds) /\ Bounded(Shapes) /\ Len(values) \in Nat
      /\ Wants \subseteq Nat \cup {All} /\ ProtoOf(Current) = Shapes[Current.func]
  BY CurrentIs
<1>3. f \in DOMAIN Shapes /\ Proto[functions[f].proto] = Shapes[f]
  BY <1>1, FunctionIs
<1>4. Waits(gs, i)
  BY WaitingIs
<1> HIDE DEF gs
<1>5. /\ FramesOK(gs, Shapes, Wants, Len(values)) /\ Like(frames, gs)
      /\ ~gs[Len(gs)].spread /\ Reach(gs[Len(gs)], Shapes) = at
      /\ gs[Len(gs)].func = Current.func /\ gs[Len(gs)].temps = i - 1
  BY <1>4 DEF Waits
<1>6. PacksNamed(gs, Shapes, values, Len(packs))
  <2>1. PacksNamed(frames, Shapes, values, Len(packs))
    BY DEF IInv, Sound, Shapes
  <2> QED
    BY <1>5, <2>1, LikePacks
<1>7. want # All => ProtoOf(Current).slots + (i - 1) + want <= ProtoOf(Current).registers
  <2> SUFFICES ASSUME want # All
               PROVE  ProtoOf(Current).slots + (i - 1) + want <= ProtoOf(Current).registers
    OBVIOUS
  <2>1. ProtoOf(Current).slots + i - 1 + want <= ProtoOf(Current).registers
    BY DEF Asks, Fits
  <2>2. ProtoOf(Current).slots \in Nat /\ want \in Nat
    BY <1>2, CurrentBounds
  <2>3. ProtoOf(Current).slots + (i - 1) + want = ProtoOf(Current).slots + i - 1 + want
    BY <2>2
  <2> QED
    BY <2>1, <2>3
<1>8. Len(functions) \in Nat /\ IsList(packs) /\ Len(packs) <= MaxPacks /\ MaxPacks \in Nat
  BY ArenaLists DEF MaxPacks
<1>9. CanEnter(values, gs, Shapes, Wants, Len(functions), f, at, Args(i), want)
  BY <1>1, <1>2, <1>3, <1>5, <1>6, <1>7, <1>8 DEF CanEnter, Holds
<1> QED
  BY <1>3, <1>9 DEF gs

(* A call of a function: over the frame that waits for it.                 *)
LEMMA CallLuaSound ==
  ASSUME IInv, Running, NEW i \in 1 .. Current.temps, NEW want \in Wants,
         CallLua(i, want), UNCHANGED program
  PROVE  IInv'
<1> DEFINE at == TempSlot(Current, i)
           f == At(values, at)[2]
           gs == Waiting(i)
           shape == Shapes
<1>1. IsFunction(At(values, at)) /\ Asks(i, want)
  BY DEF CallLua
<1>2. CASE Throw
  BY <1>2, ThrowSound
<1>3. CASE /\ Enter(values, gs, f, Proto[functions[f].proto], at, Args(i), want)
           /\ UNCHANGED <<open, cells, functions, owner>>
  <2>1. /\ CanEnter(values, gs, Shapes, Wants, Len(functions), f, at, Args(i), want)
        /\ Proto[functions[f].proto] = Shapes[f]
    BY <1>1, CallCanEnter
  <2>2. Waits(gs, i)
    BY WaitingIs
  <2> HIDE DEF at, f, gs
  <2>3. Entered(Shapes, Wants, Len(functions), gs) /\ UNCHANGED outcome
    <3>1. Enter(values, gs, f, Shapes[f], at, Args(i), want)
      BY <1>3, <2>1
    <3> QED
      BY <2>1, <3>1, EnterSound
  <2>4. ArenasOK(functions, cells, packs', program)
    BY <2>3, ArenaLists, EnteredArenas
  <2>5. OpenOK(open, cells, owner, frames', Shapes)
    <3>1. Stays(frames, frames')
      BY <2>2, <2>3, StaysOn DEF Waits, Entered
    <3> QED
      BY <3>1, SameOpen
  <2>6. Sound(values', frames', open, cells, owner, functions, packs', program)
    BY <2>3, <2>4, <2>5 DEF Sound, Entered, Shapes, Wants
  <2> QED
    BY <1>3, <2>3, <2>6 DEF IInv
<1> QED
  BY <1>2, <1>3 DEF CallLua

(* A tail call that the machine makes can be made.                         *)
LEMMA TailCanEnter ==
  ASSUME IInv, Running, Current.temps > 0, NEW from, from = TempSlot(Current, 1),
         IsFunction(At(values, from)), NEW f, f = At(values, from)[2],
         NEW v, v = Shift(values, from, Current.ret_to, Args(1) + 1)
  PROVE  /\ CanEnter(v, Below, Shapes, Wants, Len(functions), f, Current.ret_to, Args(1), Current.want)
         /\ Proto[functions[f].proto] = Shapes[f] /\ Keeps(values, v, Current.ret_to, Holds)
         /\ 1 \in 1 .. Current.temps
<1> DEFINE x == At(values, from)
           to == Current.ret_to
           args == Args(1)
           want == Current.want
<1>1. 1 \in 1 .. Current.temps
  BY CurrentBounds
<1>2. /\ from \in Nat /\ args \in Nat /\ from + 1 + args <= Len(values) /\ x \in Holds
  BY <1>1, CalleeBounds
<1>3. /\ values \in Seq(Holds) /\ Bounded(Shapes) /\ Len(values) \in Nat
      /\ to \in Nat /\ to <= from /\ want \in Wants \cup {0}
  BY CurrentIs, CurrentBounds, FirstTemporary
<1>4. f \in DOMAIN Shapes /\ Proto[functions[f].proto] = Shapes[f]
  BY <1>2, FunctionIs
<1> HIDE DEF x, args
<1>5. Keeps(values, v, to, Holds) /\ Len(v) = Len(values)
  <2>1. v = Shift(values, from, to, args + 1) /\ args + 1 \in Nat /\ from + (args + 1) <= Len(values)
    BY <1>2, <1>3 DEF args
  <2> QED
    BY <1>2, <1>3, <2>1, ShiftKeeps
<1>6. FramesOK(Below, Shapes, Wants, Len(values))
      /\ (Below # <<>> => Nests(Below[Len(Below)], Current, Shapes))
  BY BelowIs
<1>7. PacksNamed(Below, Shapes, v, Len(packs))
  BY <1>5, BelowNamed
<1>8. CanEnter(v, Below, Shapes, Wants, Len(functions), f, to, args, want)
  <2>1. Len(functions) \in Nat /\ IsList(packs) /\ Len(packs) <= MaxPacks /\ MaxPacks \in Nat
    BY ArenaLists DEF MaxPacks
  <2>2. v \in Seq(Holds)
    BY <1>5 DEF Keeps
  <2>3. to + 1 + args <= Len(v)
    BY <1>2, <1>3, <1>5
  <2>4. FramesOK(Below, Shapes, Wants, Len(v))
    BY <1>5, <1>6
  <2>5. ASSUME Below # <<>>
        PROVE  LET g == Below[Len(Below)]
               IN  /\ to = Reach(g, Shapes) /\ ~g.spread
                   /\ want # All => Shapes[g.func].slots + g.temps + want <= Shapes[g.func].registers
    BY <1>6, <2>5 DEF Nests
  <2> HIDE DEF to, want
  <2> QED
    BY <1>2, <1>3, <1>4, <1>7, <2>1, <2>2, <2>3, <2>4, <2>5 DEF CanEnter, Holds
<1> QED
  BY <1>1, <1>4, <1>5, <1>8 DEF args

(* A tail call of a function: the frame goes, its callee takes its place.  *)
LEMMA TailCallLuaSound ==
  ASSUME IInv, Running, TailCallLua, UNCHANGED program
  PROVE  IInv'
<1> DEFINE from == TempSlot(Current, 1)
           x == At(values, from)
           f == x[2]
           to == Current.ret_to
           args == Args(1)
           v == Shift(values, from, to, args + 1)
           ds == ClosedCells(values, Current.base)
           still == StillOpen(Current.base)
           want == Current.want
<1>1. /\ IsFunction(x) /\ cells' = ds /\ open' = still
      /\ Enter(v, Below, f, Proto[functions[f].proto], to, args, want)
      /\ UNCHANGED <<functions, owner>>
  BY DEF TailCallLua
<1>2. /\ CanEnter(v, Below, Shapes, Wants, Len(functions), f, to, args, want)
      /\ Proto[functions[f].proto] = Shapes[f]
  BY <1>1, TailCanEnter DEF TailCallLua
<1>3. values \in Seq(Holds) /\ to \in Nat
  BY CurrentIs, CurrentBounds
<1>4. /\ OpenOK(still, ds, owner, Below, Shapes)
      /\ ArenasOK(functions, ds, packs, program) /\ Len(ds) = Len(cells)
  <2>1. Keeps(values, values, to, Holds)
    BY <1>3 DEF Keeps
  <2> QED
    BY <2>1, LeftSound
<1> HIDE DEF from, x, f, args, v, ds, still
<1>5. FramesOK(Below, Shapes, Wants, Len(values)) /\ IsList(Below)
  BY BelowIs
<1>6. Entered(Shapes, Wants, Len(functions), Below) /\ UNCHANGED outcome
  <2>1. Enter(v, Below, f, Shapes[f], to, args, want)
    BY <1>1, <1>2
  <2> QED
    BY <1>2, <2>1, EnterSound
<1>7. ArenasOK(functions, ds, packs', program)
  BY <1>4, <1>6, ArenaLists, EnteredArenas
<1>8. OpenOK(still, ds, owner, frames', Shapes)
  <2>1. Extends(Shapes, Shapes) /\ Runs(Below, Shapes) /\ Stays(Below, frames')
    BY <1>5, <1>6, FramesRun DEF Extends, Entered
  <2>2. IsList(ds) /\ IsList(owner) /\ Len(owner) = Len(ds) /\ Len(ds) \in Nat
    BY <1>4, ArenaLists DEF ArenasOK
  <2>3. \A c \in 1 .. Len(ds) :
          owner[c] = owner[c] /\ (ds[c] = ds[c] \/ {ds[c].kind, ds[c].kind} = {"Closed"})
    OBVIOUS
  <2>4. Len(ds) <= Len(ds) /\ \A c \in 1 .. Len(ds) : c \notin 1 .. Len(ds) => ds[c].kind = "Closed"
    BY <2>2
  <2> QED
    BY <1>4, <2>1, <2>2, <2>3, <2>4, OpenKept
<1>9. Sound(values', frames', still, ds, owner, functions, packs', program)
  BY <1>6, <1>7, <1>8 DEF Sound, Entered, Shapes, Wants
<1> QED
  BY <1>1, <1>6, <1>9 DEF IInv

(* No frames: a chunk is called over what the last one left.               *)
LEMMA NoFrames ==
  ASSUME NEW shapes, NEW wants, NEW height, NEW v, NEW tables
  PROVE  FramesOK(<<>>, shapes, wants, height) /\ PacksNamed(<<>>, shapes, v, tables)
<1>1. Len(<<>>) = 0 /\ IsList(<<>>)
  BY DEF IsList
<1>2. \A k \in 1 .. Len(<<>>) : FALSE
  BY <1>1
<1>3. \A k \in 1 .. Len(<<>>) - 1 : FALSE
  BY <1>1
<1> QED
  BY <1>1, <1>2, <1>3 DEF FramesOK, PacksNamed

(* A chunk's function is made and called.                                  *)
LEMMA RunSound ==
  ASSUME IInv, Run, UNCHANGED program
  PROVE  IInv'
<1> DEFINE at == Len(values)
           n == Len(functions) + 1
           x == [proto |-> Main, upvals |-> <<Len(cells) + 1>>]
           grown == Reserve(values, at + 1)
           v == Put(grown, at, FunctionValue(n))
           one == Fresh(InUse(frames), 1)
           fns == functions'
           ds == cells'
           holders == owner'
           shapes == ShapesOf(fns, program)
           S == Stored(n, Len(packs))
<1>1. /\ frames = <<>> /\ Len(functions) < MaxFunctions
      /\ fns = Append(functions, x) /\ ds = Append(cells, Closed(Globals))
      /\ holders = owner \o one
      /\ Enter(v, <<>>, n, Proto[Main], at, 0, 0) /\ UNCHANGED open
  BY DEF Run
<1>2. /\ IsList(functions) /\ IsList(cells) /\ IsList(packs) /\ IsList(owner)
      /\ Len(functions) \in Nat /\ Len(cells) \in Nat /\ Len(packs) \in Nat
      /\ Len(functions) <= program.functions /\ Len(packs) <= program.packs
      /\ Len(owner) = Len(cells) /\ ArenasOK(functions, cells, packs, program)
      /\ program \in Programs /\ {program.functions, program.packs} \subseteq Nat
  BY ArenaLists
<1>3. values \in Seq(Holds) /\ at \in Nat
  BY DEF IInv, Sound, Holds
<1>4. IsList(one) /\ Len(one) = 1
  BY FreshIs
<1> HIDE DEF x, one, fns, ds, holders
<1>5. Appended(functions, x, fns) /\ Appended(cells, Closed(Globals), ds) /\ Joined(owner, one, holders)
  BY <1>1, <1>2, <1>4, AppendIs, JoinIs
<1>6. /\ IsList(fns) /\ Len(fns) = n /\ fns[n] = x /\ \A f \in 1 .. Len(functions) : fns[f] = functions[f]
      /\ IsList(ds) /\ Len(ds) = Len(cells) + 1 /\ ds[Len(cells) + 1] = Closed(Globals)
      /\ \A c \in 1 .. Len(cells) : ds[c] = cells[c]
      /\ IsList(holders) /\ Len(holders) = Len(ds)
      /\ \A c \in 1 .. Len(cells) : holders[c] = owner[c]
  BY <1>2, <1>4, <1>5 DEF Appended, Joined
<1> HIDE DEF at
<1>7. ArenasOK(fns, ds, packs, program) /\ Extends(Shapes, shapes)
      /\ Stored(Len(functions), Len(packs)) \subseteq Stored(Len(fns), Len(packs))
  <2>1. x \in [proto : DOMAIN program.protos, upvals : Seq(1 .. Len(ds))]
    <3>1. Main \in DOMAIN program.protos
      BY <1>2, ProgramAssumption
    <3>2. Len(cells) + 1 \in 1 .. Len(ds)
      BY <1>2, <1>6
    <3>3. <<Len(cells) + 1>> \in Seq(1 .. Len(ds))
      BY <3>2
    <3> QED
      BY <3>1, <3>3 DEF x
  <2>2. \A f \in 1 .. Len(fns) :
          \/ f \in 1 .. Len(functions)
          \/ fns[f] \in [proto : DOMAIN program.protos, upvals : Seq(1 .. Len(ds))]
    <3>1. \A f \in 1 .. Len(fns) : f \in 1 .. Len(functions) \/ f = n
      BY <1>2, <1>6
    <3> QED
      BY <1>6, <2>1, <3>1
  <2>3. IsCell(Closed(Globals), Stored(Len(fns), Len(packs)))
    BY PlainAssumption DEF IsCell, Closed, Stored
  <2>4. \A c \in 1 .. Len(ds) :
          \/ c \in 1 .. Len(cells) /\ ds[c] = cells[c]
          \/ IsCell(ds[c], Stored(Len(fns), Len(packs)))
    <3>1. \A c \in 1 .. Len(ds) : c \in 1 .. Len(cells) \/ c = Len(cells) + 1
      BY <1>2, <1>6
    <3> QED
      BY <1>6, <2>3, <3>1
  <2>5. /\ Len(functions) <= Len(fns) /\ Len(fns) <= program.functions /\ Len(cells) <= Len(ds)
        /\ Len(packs) <= Len(packs)
    <3>1. Len(functions) < program.functions /\ program.functions \in Nat
      BY <1>1, <1>2 DEF MaxFunctions
    <3> QED
      BY <1>2, <1>6, <3>1
  <2>6. \A t \in 1 .. Len(packs) :
           \/ t \in 1 .. Len(packs) /\ packs[t] = packs[t]
           \/ packs[t] \in [items : Seq(Stored(Len(fns), Len(packs))), n : Nat \cup {BadCount}]
    OBVIOUS
  <2> QED
    BY <1>2, <1>6, <2>2, <2>4, <2>5, <2>6, ArenasGrown, SMTT(30) DEF Shapes
<1>8. /\ Bounded(shapes) /\ n \in DOMAIN shapes /\ Proto[Main] = shapes[n] /\ Len(fns) \in Nat
  <2>1. /\ Bounded(shapes) /\ DOMAIN shapes = 1 .. Len(fns) /\ Len(fns) \in Nat
        /\ \A f \in 1 .. Len(fns) : shapes[f] = program.protos[fns[f].proto]
    BY <1>2, <1>7, ArenaBounds
  <2>2. n \in 1 .. Len(fns) /\ fns[n].proto = Main
    BY <1>2, <1>6 DEF x
  <2> HIDE DEF shapes
  <2> QED
    BY <2>1, <2>2 DEF Proto
<1>9. v \in Seq(S) /\ at + 1 <= Len(v) /\ Len(v) \in Nat
  <2>1. values \in Seq(S)
    <3>1. Len(functions) <= n /\ n \in Nat /\ Len(packs) <= Len(packs)
      BY <1>2
    <3> HIDE DEF n
    <3> QED
      BY <1>2, <1>3, <3>1, StoredMore DEF Holds
  <2>2. Nil \in S /\ FunctionValue(n) \in S
    <3>1. n \in 1 .. n
      BY <1>2
    <3> QED
      BY <3>1, PlainAssumption DEF Stored, FunctionValue
  <2>3. at = Len(values) /\ at + 1 \in Nat
    BY <1>3 DEF at
  <2> HIDE DEF S
  <2>4. grown \in Seq(S) /\ Len(grown) = at + 1
    <3>1. Keeps(values, grown, at, S)
          /\ Len(grown) = IF Len(values) < at + 1 THEN at + 1 ELSE Len(values)
      BY <1>3, <2>1, <2>2, <2>3, ReserveKeeps
    <3> HIDE DEF grown
    <3> QED
      BY <1>3, <2>3, <3>1 DEF Keeps
  <2> HIDE DEF grown
  <2>5. at < Len(grown)
    BY <1>3, <2>4
  <2>6. Keeps(grown, v, at, S) /\ Len(v) = Len(grown)
    BY <1>3, <2>2, <2>4, <2>5, PutKeeps
  <2> HIDE DEF v
  <2> QED
    BY <1>3, <2>4, <2>6 DEF Keeps
<1> HIDE DEF v, S, shapes, n
<1>10. CanEnter(v, <<>>, shapes, Wants, n, n, at, 0, 0)
  <2>1. FramesOK(<<>>, shapes, Wants, Len(v)) /\ PacksNamed(<<>>, shapes, v, Len(packs))
    BY NoFrames
  <2>2. at + 1 + 0 <= Len(v) /\ n \in Nat
    BY <1>3, <1>6, <1>8, <1>9
  <2> QED
    BY <1>2, <1>3, <1>8, <1>9, <2>1, <2>2 DEF CanEnter, S, MaxPacks
<1>11. Entered(shapes, Wants, n, <<>>) /\ UNCHANGED outcome
  <2>1. Enter(v, <<>>, n, shapes[n], at, 0, 0)
    BY <1>1, <1>8
  <2> QED
    BY <1>10, <2>1, EnterSound
<1>12. ArenasOK(fns, ds, packs', program)
  BY <1>2, <1>6, <1>7, <1>11, EnteredArenas
<1>13. OpenOK(open, ds, holders, frames', shapes)
  <2>1. OpenOK(open, cells, owner, frames, Shapes)
    BY DEF IInv, Sound, Shapes
  <2>2. Stays(frames, frames') /\ Runs(frames, Shapes)
    BY <1>1 DEF Stays, Runs
  <2>3. \A c \in 1 .. Len(cells) :
          holders[c] = owner[c] /\ (ds[c] = cells[c] \/ {cells[c].kind, ds[c].kind} = {"Closed"})
    BY <1>6
  <2>4. \A c \in 1 .. Len(ds) : c \notin 1 .. Len(cells) => ds[c].kind = "Closed"
    <3>1. \A c \in 1 .. Len(ds) : c \in 1 .. Len(cells) \/ c = Len(cells) + 1
      BY <1>2, <1>6
    <3> QED
      BY <1>6, <3>1 DEF Closed
  <2>5. Len(cells) <= Len(ds)
    BY <1>2, <1>6
  <2> QED
    BY <1>2, <1>6, <1>7, <2>1, <2>2, <2>3, <2>4, <2>5, OpenKept
<1>14. Sound(values', frames', open, ds, holders, fns, packs', program)
  <2>1. /\ values' \in Seq(Stored(Len(fns), Len(packs'))) /\ FramesOK(frames', shapes, Wants, Len(values'))
        /\ PacksNamed(frames', shapes, values', Len(packs'))
    BY <1>6, <1>11 DEF Entered
  <2> QED
    BY <1>12, <1>13, <2>1 DEF Sound, shapes, Wants
<1> QED
  BY <1>1, <1>11, <1>14 DEF IInv, fns, ds, holders

-----------------------------------------------------------------------------
(* The slots of a set, counted from the lowest.                            *)
Rank(T, s) == Cardinality({x \in T : x <= s})
NthOf(T, n) == CHOOSE s \in T : Cardinality({x \in T : x < s}) = n - 1

(* One rank each, and each rank is some slot's.                            *)
LEMMA RankIs ==
  ASSUME NEW T \in SUBSET Nat, IsFiniteSet(T)
  PROVE  /\ Cardinality(T) \in Nat
         /\ \A s \in T : /\ Rank(T, s) \in 1 .. Cardinality(T)
                         /\ Cardinality({x \in T : x < s}) = Rank(T, s) - 1
         /\ \A s, t \in T : Rank(T, s) = Rank(T, t) => s = t
         /\ \A n \in 1 .. Cardinality(T) : \E s \in T : Rank(T, s) = n
<1> DEFINE n == Cardinality(T)
           U(s) == {x \in T : x <= s}
           V(s) == {x \in T : x < s}
<1>1. n \in Nat
  BY FS_CardinalityType
<1>2. ASSUME NEW s \in T
      PROVE  /\ IsFiniteSet(U(s)) /\ IsFiniteSet(V(s)) /\ Rank(T, s) \in 1 .. n
             /\ Cardinality(V(s)) = Rank(T, s) - 1 /\ Cardinality(V(s)) \in Nat
  <2>1. U(s) \in SUBSET T /\ V(s) \in SUBSET T
    OBVIOUS
  <2>2. V(s) = U(s) \ {s} /\ s \in U(s)
    <3>1. \A x \in T : (x < s <=> x <= s /\ x # s) /\ x <= x
      OBVIOUS
    <3> QED
      BY <3>1
  <2>3. Rank(T, s) = Cardinality(U(s))
    BY DEF Rank
  <2> HIDE DEF U, V
  <2>4. IsFiniteSet(U(s)) /\ IsFiniteSet(V(s)) /\ Cardinality(U(s)) <= n
    BY <2>1, FS_Subset
  <2>5. Cardinality(V(s)) = Cardinality(U(s)) - 1
    BY <2>2, <2>4, FS_RemoveElement
  <2>6. Cardinality(U(s)) \in Nat /\ Cardinality(V(s)) \in Nat
    BY <2>4, FS_CardinalityType
  <2>7. Cardinality(U(s)) \in 1 .. n
    BY <1>1, <2>4, <2>5, <2>6
  <2> QED
    BY <2>3, <2>4, <2>5, <2>6, <2>7
<1>3. ASSUME NEW s \in T, NEW t \in T, s < t
      PROVE  Rank(T, s) # Rank(T, t)
  <2>1. U(s) \in SUBSET V(t)
    <3>1. \A x \in T : x <= s => x < t
      BY <1>3
    <3> QED
      BY <3>1
  <2>2. Rank(T, s) = Cardinality(U(s))
    BY DEF Rank
  <2>3. IsFiniteSet(V(t)) /\ Cardinality(V(t)) = Rank(T, t) - 1 /\ Rank(T, t) \in 1 .. n
        /\ Rank(T, s) \in 1 .. n
    BY <1>2
  <2> HIDE DEF U, V
  <2>4. Cardinality(U(s)) <= Cardinality(V(t))
    BY <2>1, <2>3, FS_Subset
  <2> QED
    BY <1>1, <2>2, <2>3, <2>4
<1>4. \A s, t \in T : Rank(T, s) = Rank(T, t) => s = t
  <2> SUFFICES ASSUME NEW s \in T, NEW t \in T, s # t PROVE Rank(T, s) # Rank(T, t)
    OBVIOUS
  <2>1. s < t \/ t < s
    OBVIOUS
  <2> QED
    BY <1>3, <2>1
<1>5. \A k \in 1 .. n : \E s \in T : Rank(T, s) = k
  <2> DEFINE f == [s \in T |-> Rank(T, s)]
             R == 1 .. n
  <2>1. f \in Injection(T, R)
    <3>1. f \in [T -> R]
      BY <1>2
    <3>2. \A s, t \in T : f[s] = f[t] => s = t
      BY <1>4
    <3> HIDE DEF f
    <3> QED
      BY <3>1, <3>2 DEF Injection, IsInjective
  <2>2. IsFiniteSet(R) /\ Cardinality(R) = n
    <3>1. 1 \in Int /\ n \in Int
      BY <1>1
    <3> HIDE DEF n
    <3>2. IsFiniteSet(1 .. n) /\ Cardinality(1 .. n) = IF 1 > n THEN 0 ELSE n - 1 + 1
      BY <3>1, FS_Interval
    <3> QED
      BY <1>1, <3>2
  <2>3. f \in Surjection(T, R)
    <3> HIDE DEF f, R
    <3> QED
      BY <2>1, <2>2, FS_Injection
  <2>4. \A k \in R : \E s \in T : f[s] = k
    <3> HIDE DEF f, R
    <3> QED
      BY <2>3 DEF Surjection
  <2> QED
    BY <2>4
<1> QED
  BY <1>1, <1>2, <1>4, <1>5

(* The n-th slot has that rank, and only it.                               *)
LEMMA NthIs ==
  ASSUME NEW T \in SUBSET Nat, IsFiniteSet(T)
  PROVE  /\ \A n \in 1 .. Cardinality(T) : NthOf(T, n) \in T /\ Rank(T, NthOf(T, n)) = n
         /\ \A s \in T : NthOf(T, Rank(T, s)) = s
<1>1. /\ Cardinality(T) \in Nat
      /\ \A s \in T : /\ Rank(T, s) \in 1 .. Cardinality(T)
                      /\ Cardinality({x \in T : x < s}) = Rank(T, s) - 1
      /\ \A s, t \in T : Rank(T, s) = Rank(T, t) => s = t
      /\ \A n \in 1 .. Cardinality(T) : \E s \in T : Rank(T, s) = n
  BY RankIs
<1>2. ASSUME NEW n \in 1 .. Cardinality(T)
      PROVE  NthOf(T, n) \in T /\ Rank(T, NthOf(T, n)) = n
  <2>1. PICK s \in T : Rank(T, s) = n
    BY <1>1
  <2>2. Cardinality({x \in T : x < s}) = n - 1
    BY <1>1, <2>1
  <2>3. NthOf(T, n) \in T /\ Cardinality({x \in T : x < NthOf(T, n)}) = n - 1
    BY <2>2 DEF NthOf
  <2> DEFINE t == NthOf(T, n)
  <2> HIDE DEF t
  <2>4. Rank(T, t) - 1 = n - 1 /\ Rank(T, t) \in 1 .. Cardinality(T)
    BY <1>1, <2>3 DEF t
  <2>5. Rank(T, t) = n
    BY <2>4
  <2> QED
    BY <2>3, <2>5 DEF t
<1>3. \A s \in T : NthOf(T, Rank(T, s)) = s
  <2> SUFFICES ASSUME NEW s \in T PROVE NthOf(T, Rank(T, s)) = s
    OBVIOUS
  <2>1. Rank(T, s) \in 1 .. Cardinality(T)
    BY <1>1
  <2>2. NthOf(T, Rank(T, s)) \in T /\ Rank(T, NthOf(T, Rank(T, s))) = Rank(T, s)
    BY <1>2, <2>1
  <2> QED
    BY <1>1, <2>2
<1> QED
  BY <1>2, <1>3

(* What a closure that captures the slots T adds: a cell for each, and the *)
(* variable it is for.                                                     *)
CellsWith(T) == cells \o [n \in 1 .. Cardinality(T) |-> Open(NthOf(T, n))]
OwnersWith(T) ==
  owner \o [n \in 1 .. Cardinality(T) |-> Current.vars[NthOf(T, n) - Current.base + 1]]
CellOf(T, s) == IF s \in T THEN Len(cells) + Rank(T, s) ELSE open[s]
OpenWith(T) == [s \in DOMAIN open \cup T |-> CellOf(T, s)]

(* The arena with the new cells, element by element.                       *)
LEMMA CellsWithIs ==
  ASSUME IInv, NEW T \in SUBSET Nat, IsFiniteSet(T)
  PROVE  /\ Cardinality(T) \in Nat /\ Len(cells) \in Nat
         /\ IsList(CellsWith(T)) /\ Len(CellsWith(T)) = Len(cells) + Cardinality(T)
         /\ \A c \in 1 .. Len(cells) : c \in 1 .. Len(CellsWith(T)) /\ CellsWith(T)[c] = cells[c]
         /\ \A n \in 1 .. Cardinality(T) : CellsWith(T)[Len(cells) + n] = Open(NthOf(T, n))
         /\ IsList(OwnersWith(T)) /\ Len(OwnersWith(T)) = Len(CellsWith(T))
         /\ \A c \in 1 .. Len(cells) : OwnersWith(T)[c] = owner[c]
         /\ \A n \in 1 .. Cardinality(T) :
              OwnersWith(T)[Len(cells) + n] = Current.vars[NthOf(T, n) - Current.base + 1]
<1> DEFINE m == Cardinality(T)
           ones == [n \in 1 .. m |-> Open(NthOf(T, n))]
           theirs == [n \in 1 .. m |-> Current.vars[NthOf(T, n) - Current.base + 1]]
<1>1. m \in Nat
  BY FS_CardinalityType
<1>2. IsList(cells) /\ IsList(owner) /\ Len(owner) = Len(cells) /\ Len(cells) \in Nat
  BY ArenaLists
<1> HIDE DEF m
<1>3. IsList(ones) /\ Len(ones) = m /\ \A n \in 1 .. m : ones[n] = Open(NthOf(T, n))
  <2>1. ones = [n \in 1 .. m |-> ones[n]] /\ \A n \in 1 .. m : ones[n] = Open(NthOf(T, n))
    OBVIOUS
  <2> HIDE DEF ones
  <2> QED
    BY <1>1, <2>1, ListOf
<1>4. /\ IsList(theirs) /\ Len(theirs) = m
      /\ \A n \in 1 .. m : theirs[n] = Current.vars[NthOf(T, n) - Current.base + 1]
  <2>1. /\ theirs = [n \in 1 .. m |-> theirs[n]]
        /\ \A n \in 1 .. m : theirs[n] = Current.vars[NthOf(T, n) - Current.base + 1]
    OBVIOUS
  <2> HIDE DEF theirs
  <2> QED
    BY <1>1, <2>1, ListOf
<1> DEFINE ds == CellsWith(T)
           holders == OwnersWith(T)
<1>5. ds = cells \o ones /\ holders = owner \o theirs
  BY DEF CellsWith, OwnersWith, m
<1> HIDE DEF ones, theirs, ds, holders
<1>6. Joined(cells, ones, ds) /\ Joined(owner, theirs, holders)
  BY <1>2, <1>3, <1>4, <1>5, JoinIs
<1> QED
  BY <1>1, <1>2, <1>3, <1>4, <1>6 DEF Joined, ds, holders, m

(* The captured slots are listed with their cells, and the rest as before. *)
LEMMA CapturedSound ==
  ASSUME IInv, NEW T \in SUBSET Nat, IsFiniteSet(T), T \cap DOMAIN open = {},
         \A s \in T : IsLocal(s, Current.vars[s - Current.base + 1], frames),
         NEW gs, Stays(frames, gs), NEW more, Extends(Shapes, more)
  PROVE  /\ OpenOK(OpenWith(T), CellsWith(T), OwnersWith(T), gs, more)
         /\ \A s \in DOMAIN open \cup T : CellOf(T, s) \in 1 .. Len(CellsWith(T))
<1> DEFINE m == Cardinality(T)
           n == Len(cells)
           ds == CellsWith(T)
           holders == OwnersWith(T)
           listed == OpenWith(T)
<1>1. /\ m \in Nat /\ n \in Nat /\ IsList(ds) /\ Len(ds) = n + m
      /\ \A c \in 1 .. n : c \in 1 .. Len(ds) /\ ds[c] = cells[c]
      /\ \A k \in 1 .. m : ds[n + k] = Open(NthOf(T, k))
      /\ IsList(holders) /\ Len(holders) = Len(ds)
      /\ \A c \in 1 .. n : holders[c] = owner[c]
      /\ \A k \in 1 .. m : holders[n + k] = Current.vars[NthOf(T, k) - Current.base + 1]
  BY CellsWithIs
<1>2. /\ \A k \in 1 .. m : NthOf(T, k) \in T /\ Rank(T, NthOf(T, k)) = k
      /\ \A s \in T : Rank(T, s) \in 1 .. m /\ NthOf(T, Rank(T, s)) = s
  BY NthIs, RankIs
<1>3. OpenOK(open, cells, owner, frames, Shapes)
  BY DEF IInv, Sound, Shapes
<1>4. DOMAIN listed = DOMAIN open \cup T
      /\ \A s \in DOMAIN open \cup T :
           listed[s] = IF s \in T THEN n + Rank(T, s) ELSE open[s]
  BY DEF OpenWith, CellOf
<1>5. \A s \in DOMAIN open \cup T : CellOf(T, s) = listed[s]
  BY DEF OpenWith
<1> HIDE DEF m, n, ds, holders, listed
<1>6. Runs(frames, Shapes)
  BY FramesRun DEF IInv, Sound, Shapes
<1>7. ASSUME NEW s \in DOMAIN open \cup T
      PROVE  /\ listed[s] \in 1 .. Len(ds) /\ ds[listed[s]] = Open(s)
             /\ IsLocal(s, holders[listed[s]], gs)
  <2>1. CASE s \in T
    <3>1. listed[s] = n + Rank(T, s) /\ Rank(T, s) \in 1 .. m /\ NthOf(T, Rank(T, s)) = s
      BY <1>2, <1>4, <2>1
    <3> DEFINE k == Rank(T, s)
    <3> HIDE DEF k
    <3>2. k \in 1 .. m /\ listed[s] = n + k /\ NthOf(T, k) = s
      BY <3>1 DEF k
    <3>3. n + k \in 1 .. Len(ds)
      BY <1>1, <3>2
    <3>4. ds[n + k] = Open(s) /\ holders[n + k] = Current.vars[s - Current.base + 1]
      BY <1>1, <3>2
    <3>5. IsLocal(s, Current.vars[s - Current.base + 1], gs)
      <4>1. IsLocal(s, Current.vars[s - Current.base + 1], frames)
        BY <2>1
      <4> QED
        BY <1>6, <4>1, LocalKept
    <3> QED
      BY <3>2, <3>3, <3>4, <3>5
  <2>2. CASE s \notin T
    <3>1. listed[s] = open[s] /\ s \in DOMAIN open
      BY <1>4, <2>2
    <3>2. open[s] \in 1 .. n /\ cells[open[s]] = Open(s) /\ IsLocal(s, owner[open[s]], frames)
      BY <1>3, <3>1 DEF OpenOK, n
    <3>3. IsLocal(s, owner[open[s]], gs)
      BY <1>6, <3>2, LocalKept
    <3> QED
      BY <1>1, <3>1, <3>2, <3>3
  <2> QED
    BY <2>1, <2>2
<1>8. ASSUME NEW c \in 1 .. Len(ds), ds[c].kind = "Open"
      PROVE  ds[c].slot \in DOMAIN listed /\ listed[ds[c].slot] = c
  <2>1. CASE c \in 1 .. n
    <3>1. ds[c] = cells[c]
      BY <1>1, <2>1
    <3>2. cells[c].slot \in DOMAIN open /\ open[cells[c].slot] = c
      BY <1>3, <1>8, <2>1, <3>1 DEF OpenOK, n
    <3>3. cells[c].slot \notin T
      BY <3>2
    <3> QED
      BY <1>4, <3>1, <3>2, <3>3
  <2>2. CASE c \notin 1 .. n
    <3>1. PICK k \in 1 .. m : c = n + k
      <4>1. c - n \in 1 .. m /\ c = n + (c - n)
        BY <1>1, <2>2
      <4> QED
        BY <4>1
    <3>2. ds[c] = Open(NthOf(T, k)) /\ NthOf(T, k) \in T /\ Rank(T, NthOf(T, k)) = k
      BY <1>1, <1>2, <3>1
    <3>3. ds[c].slot = NthOf(T, k)
      BY <3>2 DEF Open
    <3>4. listed[NthOf(T, k)] = n + k
      BY <1>4, <3>2
    <3> QED
      BY <1>4, <3>1, <3>2, <3>3, <3>4
  <2> QED
    BY <2>1, <2>2
<1>9. DOMAIN listed \subseteq Nat
  BY <1>3, <1>4 DEF OpenOK
<1>10. OpenOK(listed, ds, holders, gs, more)
  BY <1>1, <1>4, <1>7, <1>8, <1>9 DEF OpenOK
<1> QED
  BY <1>5, <1>7, <1>10 DEF listed, ds, holders

(* A closure is made: its upvalues are cells there are.                    *)
LEMMA ClosureSound ==
  ASSUME IInv, Running, NEW p \in DOMAIN Proto,
         NEW sources \in [1 .. Proto[p].upvals -> Sources(Len(Current.vars), Len(Upvals))],
         Closure(p, sources), UNCHANGED program
  PROVE  IInv'
<1> DEFINE width == Proto[p].upvals
           captures == {j \in 1 .. Len(sources) : sources[j][1] = "ParentLocal"}
           slot(j) == LocalSlot(Current, sources[j][2])
           T == {slot(j) : j \in captures} \ DOMAIN open
           ups == [j \in 1 .. Len(sources) |->
                     IF j \in captures THEN CellOf(T, slot(j)) ELSE Upvals[sources[j][2]]]
           x == [proto |-> p, upvals |-> ups]
           n == Len(functions) + 1
           fns == functions'
           ds == CellsWith(T)
           holders == OwnersWith(T)
           listed == OpenWith(T)
           shapes == ShapesOf(fns, program)
           S == Stored(n, Len(packs))
<1>1. /\ Len(functions) < MaxFunctions
      /\ Evaluate(FunctionValue(n))
      /\ cells' = ds /\ owner' = holders /\ open' = listed
      /\ fns = Append(functions, x)
      /\ UNCHANGED <<packs, outcome>>
  BY DEF Closure, CellsWith, OwnersWith, OpenWith, CellOf, NthOf, Rank
<1>2. /\ IsList(functions) /\ IsList(cells) /\ IsList(packs) /\ IsList(owner)
      /\ Len(functions) \in Nat /\ Len(cells) \in Nat /\ Len(packs) \in Nat
      /\ Len(functions) <= program.functions /\ Len(packs) <= program.packs
      /\ ArenasOK(functions, cells, packs, program)
      /\ program \in Programs /\ {program.functions, program.packs} \subseteq Nat
  BY ArenaLists
<1>3. /\ values \in Seq(Holds) /\ Len(values) \in Nat /\ Upvals \in Seq(1 .. Len(cells))
      /\ ProtoOf(Current) = Shapes[Current.func] /\ Depth \in 1 .. Len(frames) /\ Current = frames[Depth]
  BY CurrentIs DEF Depth, Current
<1>4. width \in Nat /\ Len(sources) = width
  <2>1. IsProto(Proto[p])
    BY <1>2, ProgramAssumption DEF Proto
  <2>2. width \in Nat
    BY <2>1 DEF IsProto
  <2> DEFINE R == Sources(Len(Current.vars), Len(Upvals))
  <2> HIDE DEF R, width
  <2>3. sources \in [1 .. width -> R]
    BY DEF R, width
  <2> QED
    BY <2>2, <2>3
<1>5. \A j \in 1 .. Len(sources) :
        /\ sources[j] \in Sources(Len(Current.vars), Len(Upvals))
        /\ j \in captures => sources[j][2] \in 1 .. Len(Current.vars)
        /\ j \notin captures => sources[j][2] \in 1 .. Len(Upvals)
  <2> SUFFICES ASSUME NEW j \in 1 .. Len(sources)
      PROVE /\ sources[j] \in Sources(Len(Current.vars), Len(Upvals))
            /\ j \in captures => sources[j][2] \in 1 .. Len(Current.vars)
            /\ j \notin captures => sources[j][2] \in 1 .. Len(Upvals)
    OBVIOUS
  <2>1. sources[j] \in Sources(Len(Current.vars), Len(Upvals))
    BY <1>4
  <2>2. j \in captures <=> sources[j][1] = "ParentLocal"
    OBVIOUS
  <2> HIDE DEF captures
  <2> QED
    BY <2>1, <2>2 DEF Sources
<1>6. \A j \in captures :
        /\ slot(j) \in Nat /\ slot(j) < Len(values)
        /\ IsLocal(slot(j), Current.vars[slot(j) - Current.base + 1], frames)
  <2> SUFFICES ASSUME NEW j \in captures
      PROVE /\ slot(j) \in Nat /\ slot(j) < Len(values)
            /\ IsLocal(slot(j), Current.vars[slot(j) - Current.base + 1], frames)
    OBVIOUS
  <2> DEFINE i == sources[j][2]
  <2>1. i \in 1 .. Len(Current.vars)
    BY <1>5
  <2>2. slot(j) = LocalSlot(Current, i)
    OBVIOUS
  <2> HIDE DEF i, slot
  <2>3. slot(j) \in Nat /\ slot(j) < Len(values)
    BY <2>1, <2>2, RunningLocal
  <2>4. slot(j) = Current.base + i - 1 /\ Current.base \in Nat /\ i \in Nat
    BY <2>1, <2>2, CurrentBounds DEF LocalSlot
  <2>5. slot(j) - Current.base + 1 = i
    BY <2>4
  <2>6. IsLocal(slot(j), Current.vars[i], frames)
    BY <1>3, <2>1, <2>4 DEF IsLocal
  <2> QED
    BY <2>3, <2>5, <2>6
<1>7. /\ T \in SUBSET Nat /\ T \cap DOMAIN open = {} /\ \A s \in T : s < Len(values)
      /\ \A s \in T : IsLocal(s, Current.vars[s - Current.base + 1], frames)
      /\ \A j \in captures : slot(j) \in DOMAIN open \cup T
  <2> HIDE DEF captures, slot
  <2> QED
    BY <1>6
<1> HIDE DEF T, captures, slot
<1>8. IsFiniteSet(T)
  <2>1. \A s \in T : s <= Len(values)
    <3> SUFFICES ASSUME NEW s \in T PROVE s <= Len(values)
      OBVIOUS
    <3>1. s \in Nat /\ s < Len(values) /\ Len(values) \in Nat
      BY <1>3, <1>7
    <3> QED
      BY ONLY <3>1
  <2> QED
    BY <1>3, <1>7, <2>1, FS_BoundedSetOfNaturals
<1>9. /\ IsList(ds) /\ Len(cells) <= Len(ds) /\ Len(ds) \in Nat
      /\ \A c \in 1 .. Len(cells) : ds[c] = cells[c]
      /\ \A c \in 1 .. Len(ds) : c \in 1 .. Len(cells) \/ \E s \in T : ds[c] = Open(s)
  <2> DEFINE m == Cardinality(T)
  <2>1. /\ m \in Nat /\ Len(cells) \in Nat
        /\ IsList(ds) /\ Len(ds) = Len(cells) + m
        /\ \A c \in 1 .. Len(cells) : c \in 1 .. Len(ds) /\ ds[c] = cells[c]
        /\ \A k \in 1 .. m : ds[Len(cells) + k] = Open(NthOf(T, k))
    BY <1>7, <1>8, CellsWithIs
  <2>2. \A k \in 1 .. m : NthOf(T, k) \in T
    BY <1>7, <1>8, NthIs
  <2> HIDE DEF ds, m
  <2>3. \A c \in 1 .. Len(ds) : c \in 1 .. Len(cells) \/ \E k \in 1 .. m : c = Len(cells) + k
    <3> SUFFICES ASSUME NEW c \in 1 .. Len(ds), c \notin 1 .. Len(cells)
                 PROVE  \E k \in 1 .. m : c = Len(cells) + k
      OBVIOUS
    <3>1. c - Len(cells) \in 1 .. m /\ c = Len(cells) + (c - Len(cells))
      BY <2>1
    <3> QED
      BY <3>1
  <2>4. \A c \in 1 .. Len(ds) : c \in 1 .. Len(cells) \/ \E s \in T : ds[c] = Open(s)
    BY <2>1, <2>2, <2>3
  <2> QED
    BY <2>1, <2>4
<1>10. \A s \in DOMAIN open \cup T : CellOf(T, s) \in 1 .. Len(ds)
  <2>1. Stays(frames, frames) /\ Extends(Shapes, Shapes)
    BY DEF Stays, Extends
  <2> QED
    BY <1>7, <1>8, <2>1, CapturedSound
<1>11. ups \in Seq(1 .. Len(ds))
  <2>1. \A j \in 1 .. Len(sources) : ups[j] \in 1 .. Len(ds)
    <3> SUFFICES ASSUME NEW j \in 1 .. Len(sources) PROVE ups[j] \in 1 .. Len(ds)
      OBVIOUS
    <3>1. CASE j \in captures
      BY <1>7, <1>10, <3>1
    <3>2. CASE j \notin captures
      <4>1. sources[j][2] \in 1 .. Len(Upvals)
        BY <1>5, <3>2
      <4>2. Upvals[sources[j][2]] \in 1 .. Len(cells)
        BY <1>3, <4>1, SMTT(30)
      <4>3. Upvals[sources[j][2]] \in 1 .. Len(ds)
        <5> HIDE DEF ds
        <5> QED
          BY <1>2, <1>9, <4>2
      <4> QED
        BY <3>2, <4>3
    <3> QED
      BY <3>1, <3>2
  <2>2. ups = [j \in 1 .. Len(sources) |-> ups[j]] /\ Len(sources) \in Nat
    BY <1>4
  <2> HIDE DEF ups, ds
  <2> QED
    BY <2>1, <2>2, SequenceOf
<1> HIDE DEF ds, holders, listed, ups, fns
<1>12. /\ IsList(fns) /\ Len(fns) = n /\ fns[n] = x /\ \A f \in 1 .. Len(functions) : fns[f] = functions[f]
  <2> HIDE DEF x
  <2>1. Appended(functions, x, fns)
    BY <1>1, <1>2, AppendIs
  <2> QED
    BY <2>1 DEF Appended
<1>13. x \in [proto : DOMAIN program.protos, upvals : Seq(1 .. Len(ds))]
  BY <1>11 DEF Proto
<1> HIDE DEF x
<1>14. ArenasOK(fns, ds, packs, program) /\ Extends(Shapes, shapes)
       /\ Stored(Len(functions), Len(packs)) \subseteq Stored(Len(fns), Len(packs))
  <2>1. \A f \in 1 .. Len(fns) :
          \/ f \in 1 .. Len(functions)
          \/ fns[f] \in [proto : DOMAIN program.protos, upvals : Seq(1 .. Len(ds))]
    <3>1. \A f \in 1 .. Len(fns) : f \in 1 .. Len(functions) \/ f = n
      BY <1>2, <1>12
    <3> QED
      BY <1>12, <1>13, <3>1
  <2>2. \A c \in 1 .. Len(ds) :
          \/ c \in 1 .. Len(cells) /\ ds[c] = cells[c]
          \/ IsCell(ds[c], Stored(Len(fns), Len(packs)))
    <3> SUFFICES ASSUME NEW c \in 1 .. Len(ds), c \notin 1 .. Len(cells)
                 PROVE  IsCell(ds[c], Stored(Len(fns), Len(packs)))
      BY <1>9
    <3>1. PICK s \in T : ds[c] = Open(s)
      BY <1>9
    <3>2. s \in Nat
      BY <1>7
    <3> QED
      BY <3>1, <3>2 DEF IsCell, Open
  <2>3. /\ Len(functions) <= Len(fns) /\ Len(fns) <= program.functions
        /\ Len(packs) <= Len(packs)
    <3>1. Len(functions) < program.functions /\ program.functions \in Nat
      BY <1>1, <1>2 DEF MaxFunctions
    <3> QED
      BY <1>2, <1>12, <3>1
  <2>4. \A t \in 1 .. Len(packs) :
           \/ t \in 1 .. Len(packs) /\ packs[t] = packs[t]
           \/ packs[t] \in [items : Seq(Stored(Len(fns), Len(packs))), n : Nat \cup {BadCount}]
    OBVIOUS
  <2>5. IsList(ds) /\ Len(cells) <= Len(ds)
    BY <1>9
  <2>6. IsList(fns) /\ \A f \in 1 .. Len(functions) : fns[f] = functions[f]
    BY <1>12
  <2>7. IsList(packs) /\ ArenasOK(functions, cells, packs, program) /\ program \in Programs
        /\ Len(packs) <= program.packs
    BY <1>2
  <2> HIDE DEF S
  <2>8. ArenasOK(fns, ds, packs, program)
    BY ONLY <2>1, <2>2, <2>3, <2>4, <2>5, <2>6, <2>7, ArenasGrown
  <2>9. Extends(ShapesOf(functions, program), ShapesOf(fns, program))
    BY ONLY <2>1, <2>2, <2>3, <2>4, <2>5, <2>6, <2>7, ArenasGrown
  <2>10. Stored(Len(functions), Len(packs)) \subseteq Stored(Len(fns), Len(packs))
    <3>1. /\ Len(functions) \in Nat /\ Len(fns) \in Nat /\ Len(packs) \in Nat
          /\ Len(functions) <= Len(fns)
      BY <1>2, <1>12
    <3>2. values \in Seq(Stored(Len(functions), Len(packs)))
      BY <1>3 DEF Holds
    <3> QED
      BY <3>1, <3>2, StoredMore
  <2> QED
    BY <2>8, <2>9, <2>10 DEF Shapes
<1>15. values \in Seq(S) /\ FunctionValue(n) \in S
  <2>1. Len(functions) <= n /\ n \in Nat /\ Len(packs) <= Len(packs) /\ n \in 1 .. n
    BY <1>2
  <2>2. FunctionValue(n) \in S
    BY <2>1 DEF FunctionValue, Stored
  <2> HIDE DEF n
  <2> QED
    BY <1>2, <1>3, <2>1, <2>2, StoredMore DEF Holds
<1> HIDE DEF S, shapes
<1>16. /\ values' \in Seq(S) /\ Len(values') = Len(values)
       /\ FramesOK(frames', Shapes, Wants, Len(values))
       /\ Stays(frames, frames') /\ PacksNamed(frames', Shapes, values', Len(packs))
  <2> HIDE DEF n
  <2> QED
    BY <1>1, <1>15, EvaluateSound
<1>17. OpenOK(listed, ds, holders, frames', shapes)
  BY <1>7, <1>8, <1>14, <1>16, CapturedSound DEF listed, ds, holders
<1>18. FramesOK(frames', shapes, Wants, Len(values'))
  <2>1. Bounded(Shapes) /\ Len(values) <= Len(values)
    BY <1>3, CurrentIs
  <2> QED
    BY <1>3, <1>14, <1>16, <2>1, FramesGrown
<1>19. PacksNamed(frames', shapes, values', Len(packs))
  <2>1. Runs(frames', Shapes)
    BY <1>16, FramesRun
  <2>2. PacksNamed(frames', Shapes, values', Len(packs)) /\ Len(packs) <= Len(packs)
    BY <1>2, <1>16
  <2>3. \A k \in 1 .. Len(frames') :
          /\ k \in 1 .. Len(frames') /\ frames'[k].base = frames'[k].base
          /\ frames'[k].func = frames'[k].func
          /\ Shapes[frames'[k].func].vararg = "Table" =>
               At(values', frames'[k].base + Shapes[frames'[k].func].params)
                 = At(values', frames'[k].base + Shapes[frames'[k].func].params)
    OBVIOUS
  <2> QED
    BY <1>2, <1>14, <2>1, <2>2, <2>3, PacksKept
<1>20. Sound(values', frames', listed, ds, holders, fns, packs, program)
  BY <1>12, <1>14, <1>16, <1>17, <1>18, <1>19 DEF Sound, S, shapes, Wants
<1> QED
  BY <1>1, <1>20 DEF IInv, fns

-----------------------------------------------------------------------------
(* Every instruction leaves the machine sound.                             *)
LEMMA StepSound ==
  ASSUME IInv, Running, Step, UNCHANGED program
  PROVE  IInv'
<1>1. ASSUME NEW v \in Loads, Load(v) PROVE IInv'
  BY <1>1, LoadSound
<1>2. ASSUME NEW k \in 1 .. Len(Current.vars), MoveFromLocal(k) PROVE IInv'
  BY <1>2, MoveFromLocalSound
<1>3. ASSUME NEW k \in 1 .. Len(Current.vars), MoveToLocal(k) PROVE IInv'
  BY <1>3, MoveToLocalSound
<1>4. ASSUME Declare PROVE IInv'
  BY <1>4, DeclareSound
<1>5. ASSUME NEW kept \in 0 .. Len(Current.vars) - 1, LeaveScope(kept) PROVE IInv'
  BY <1>5, LeaveScopeSound
<1>6. ASSUME NEW j \in 1 .. Len(Upvals), GetUpval(j) PROVE IInv'
  BY <1>6, GetUpvalSound
<1>7. ASSUME NEW j \in 1 .. Len(Upvals), SetUpval(j) PROVE IInv'
  BY <1>7, SetUpvalSound
<1>8. ASSUME NEW p \in DOMAIN Proto \ {Main},
             NEW sources \in [1 .. Proto[p].upvals -> Sources(Len(Current.vars), Len(Upvals))],
             Closure(p, sources)
      PROVE  IInv'
  BY <1>8, ClosureSound
<1>9. ASSUME NEW i \in 1 .. Current.temps, NEW want \in Wants, CallLua(i, want) PROVE IInv'
  BY <1>9, CallLuaSound
<1>10. ASSUME NEW i \in 1 .. Current.temps, NEW want \in Wants, NEW results \in HostResults,
              CallNative(i, want, results)
       PROVE  IInv'
  BY <1>10, CallNativeSound
<1>11. ASSUME NEW i \in 1 .. Current.temps, CallOther(i) PROVE IInv'
  BY <1>11, CallOtherSound
<1>12. ASSUME TailCallLua PROVE IInv'
  BY <1>12, TailCallLuaSound
<1>13. ASSUME NEW results \in HostResults, TailCallNative(results) PROVE IInv'
  BY <1>13, TailCallNativeSound
<1>14. ASSUME Return PROVE IInv'
  BY <1>14, ReturnSound
<1>15. ASSUME NEW want \in Wants, Vararg(want) PROVE IInv'
  BY <1>15, VarargSound
<1>16. ASSUME NewTable PROVE IInv'
  BY <1>16, NewTableSound
<1>17. ASSUME NEW i \in 1 .. Current.temps, SetList(i) PROVE IInv'
  BY <1>17, SetListSound
<1>18. ASSUME NEW n \in Counts, StoreCount(n) PROVE IInv'
  BY <1>18, StoreCountSound
<1> QED
  BY <1>1, <1>2, <1>3, <1>4, <1>5, <1>6, <1>7, <1>8, <1>9, <1>10, <1>11, <1>12, <1>13,
     <1>14, <1>15, <1>16, <1>17, <1>18 DEF Step

(* Nothing has run: no frame, no cell, nothing made.                       *)
LEMMA InitSound ==
  ASSUME Init
  PROVE  IInv
<1>1. /\ program \in Programs /\ values = <<>> /\ frames = <<>> /\ open = [s \in {} |-> 0]
      /\ cells = <<>> /\ owner = <<>> /\ functions = <<>> /\ packs = <<>> /\ outcome = "running"
  BY DEF Init
<1>2. program.functions \in Nat /\ program.packs \in Nat
  BY <1>1, ProgramAssumption
<1>3. Len(<<>>) = 0 /\ IsList(<<>>) /\ (\A n \in 1 .. Len(<<>>) : FALSE)
      /\ \A S : <<>> \in Seq(S)
  BY DEF IsList
<1>4. ArenasOK(<<>>, <<>>, <<>>, program)
  BY <1>2, <1>3 DEF ArenasOK
<1>5. FramesOK(<<>>, ShapesOf(<<>>, program), program.wants, Len(<<>>))
      /\ PacksNamed(<<>>, ShapesOf(<<>>, program), <<>>, Len(<<>>))
  BY NoFrames
<1>6. OpenOK(open, <<>>, <<>>, <<>>, ShapesOf(<<>>, program))
  BY <1>1, <1>3 DEF OpenOK
<1>7. Sound(<<>>, <<>>, open, <<>>, <<>>, <<>>, <<>>, program)
  BY <1>3, <1>4, <1>5, <1>6 DEF Sound
<1> QED
  BY <1>1, <1>7 DEF IInv

(* The machine's words always agree with each other, whatever the program. *)
THEOREM IInvTheorem == Spec => []IInv
<1>1. Init => IInv
  BY InitSound
<1>2. IInv /\ [Next]_vars => IInv'
  <2>1. ASSUME IInv, Run, UNCHANGED program PROVE IInv'
    BY <2>1, RunSound
  <2>2. ASSUME IInv, Running, Step, UNCHANGED program PROVE IInv'
    BY <2>2, StepSound
  <2>3. ASSUME IInv, UNCHANGED vars PROVE IInv'
    BY <2>3 DEF IInv, vars
  <2> QED
    BY <2>1, <2>2, <2>3 DEF Next
<1> QED
  BY <1>1, <1>2, PTL DEF Spec

(* The stack, the frames and the arenas always hold what they should.      *)
THEOREM TypeOKTheorem == Spec => []TypeOK
<1>1. IInv => TypeOK
  <2> SUFFICES ASSUME IInv PROVE TypeOK
    OBVIOUS
  <2>1. /\ Len(functions) \in Nat /\ Len(packs) \in Nat
        /\ Len(functions) <= MaxFunctions /\ Len(packs) <= MaxPacks
        /\ MaxFunctions \in Nat /\ MaxPacks \in Nat /\ Len(owner) = Len(cells)
        /\ ArenasOK(functions, cells, packs, program) /\ program \in Programs
    BY ArenaLists DEF MaxFunctions, MaxPacks
  <2>2. Holds \subseteq Value
    <3>1. 1 .. Len(functions) \subseteq 1 .. MaxFunctions /\ 1 .. Len(packs) \subseteq 1 .. MaxPacks
      BY <2>1
    <3> QED
      BY <3>1 DEF Holds, Stored, Value
  <2>3. values \in Seq(Value)
    <3>1. values \in Seq(Holds)
      BY DEF IInv, Sound, Holds
    <3> QED
      BY <2>2, <3>1
  <2>4. ASSUME NEW k \in 1 .. Depth
        PROVE  LET f == frames[k]
               IN  /\ f.func \in 1 .. Len(functions)
                   /\ {f.base, f.top, f.ret_to, f.varargs, f.temps} \subseteq Nat
                   /\ f.want \in Wants \cup {0} /\ f.spread \in BOOLEAN
                   /\ Len(f.vars) \in Fixed(ProtoOf(f)) .. ProtoOf(f).slots
                   /\ f.temps \in 0 .. ProtoOf(f).registers - ProtoOf(f).slots
    <3> DEFINE f == frames[k]
               p == ProtoOf(f)
    <3>1. /\ f.func \in 1 .. Len(functions)
          /\ f.base \in Nat /\ f.top \in Nat /\ f.ret_to \in Nat /\ f.varargs \in Nat
          /\ f.temps \in Nat /\ f.spread \in BOOLEAN /\ f.want \in Wants \cup {0}
          /\ Len(f.vars) \in Nat /\ Fixed(p) \in Nat /\ p.slots \in Nat /\ p.registers \in Nat
          /\ Fixed(p) <= Len(f.vars) /\ Len(f.vars) <= p.slots
          /\ p.slots + f.temps <= p.registers
      BY FrameIs
    <3> HIDE DEF f, p
    <3>2. Len(f.vars) \in Fixed(p) .. p.slots /\ f.temps \in 0 .. p.registers - p.slots
      BY <3>1
    <3> QED
      BY <3>1, <3>2 DEF f, p
  <2>5. ASSUME NEW s \in DOMAIN open
        PROVE  s \in 0 .. Len(values) - 1 /\ open[s] \in 1 .. Len(cells)
    <3>1. s \in Nat /\ s < Len(values) /\ open[s] \in 1 .. Len(cells)
      BY OpenIsOnStack
    <3>2. Len(values) \in Nat
      BY <2>3
    <3> QED
      BY <3>1, <3>2
  <2>6. ASSUME NEW c \in 1 .. Len(cells), cells[c].kind = "Closed"
        PROVE  cells[c].value \in Value
    <3>1. IsCell(cells[c], Holds)
      BY <2>1 DEF ArenasOK, Holds
    <3> QED
      BY <2>2, <2>6, <3>1 DEF IsCell
  <2>7. ASSUME NEW f \in 1 .. Len(functions)
        PROVE  Listed(functions[f].upvals) \subseteq 1 .. Len(cells)
    <3>1. functions[f].upvals \in Seq(1 .. Len(cells))
      BY <2>1, ArenaBounds
    <3> QED
      BY <3>1 DEF Listed
  <2>8. outcome \in {"running", "error"}
    BY DEF IInv
  <2> QED
    BY <2>1, <2>3, <2>4, <2>5, <2>6, <2>7, <2>8 DEF TypeOK
<1> QED
  BY <1>1, IInvTheorem, PTL

(* An open upvalue is always a local in scope of a live frame, the one its *)
(* cell was made for: every way out of a scope closed what it captured.    *)
THEOREM OpenSlotsAreLocalsTheorem == Spec => []OpenSlotsAreLocals
<1>1. IInv => OpenSlotsAreLocals
  <2> SUFFICES ASSUME IInv, NEW s \in DOMAIN open
               PROVE  /\ cells[open[s]] = Open(s)
                      /\ \E k \in 1 .. Depth : \E i \in 1 .. Len(frames[k].vars) :
                           s = LocalSlot(frames[k], i) /\ owner[open[s]] = frames[k].vars[i]
    BY DEF OpenSlotsAreLocals
  <2>1. cells[open[s]] = Open(s) /\ IsLocal(s, owner[open[s]], frames)
    BY OpenIsOnStack
  <2> QED
    BY <2>1 DEF IsLocal, LocalSlot, Depth
<1> QED
  BY <1>1, IInvTheorem, PTL

(* A callee and its results always lie above its caller's temporaries.     *)
THEOREM FramesNestTheorem == Spec => []FramesNest
<1>1. IInv => FramesNest
  <2> SUFFICES ASSUME IInv, NEW k \in 1 .. Depth - 1
               PROVE  LET caller == frames[k]  callee == frames[k + 1]
                      IN  /\ callee.ret_to = TempSlot(caller, caller.temps + 1)
                          /\ callee.ret_to < callee.base - callee.varargs
                          /\ ~caller.spread
    BY DEF FramesNest
  <2> DEFINE f == frames[k]
             g == frames[k + 1]
  <2>1. FramesOK(frames, Shapes, Wants, Len(values))
    BY DEF IInv, Sound, Shapes, Wants
  <2>2. k \in 1 .. Depth /\ k + 1 \in 1 .. Depth
    <3>1. Depth \in Nat
      BY <2>1 DEF FramesOK, IsList, Depth
    <3> QED
      BY <3>1
  <2>3. Nests(f, g, Shapes)
    BY <2>1 DEF FramesOK, Depth
  <2>4. g.ret_to < g.base - g.varargs
    BY <2>2, FrameIs
  <2>5. ProtoOf(f) = Shapes[f.func] /\ f.base \in Nat /\ ProtoOf(f).slots \in Nat /\ f.temps \in Nat
    BY <2>2, FrameIs
  <2> HIDE DEF f, g
  <2>6. TempSlot(f, f.temps + 1) = Reach(f, Shapes)
    BY <2>5 DEF TempSlot, Reach
  <2> QED
    BY <2>3, <2>4, <2>6 DEF Nests, f, g
<1> QED
  BY <1>1, IInvTheorem, PTL

(* What a live frame may still read always lies between its extra          *)
(* arguments and its top, on the stack; the top is above the registers     *)
(* only while an open row waits.                                           *)
THEOREM RootsCoverTheorem == Spec => []RootsCover
<1>1. IInv => RootsCover
  <2> SUFFICES ASSUME IInv, NEW k \in 1 .. Depth
               PROVE  LET f == frames[k]
                      IN  /\ f.varargs <= f.base /\ f.top <= Len(values)
                          /\ f.base + Len(f.vars) <= f.top
                          /\ TempSlot(f, f.temps + 1) <= f.top
                          /\ ~f.spread => f.top = f.base + ProtoOf(f).registers
    BY DEF RootsCover
  <2> DEFINE f == frames[k]
             p == ProtoOf(f)
  <2>1. /\ f.base \in Nat /\ f.temps \in Nat /\ f.top \in Nat /\ p.slots \in Nat
        /\ Len(f.vars) \in Nat /\ Len(f.vars) <= p.slots
        /\ f.varargs <= f.base /\ f.top <= Len(values)
        /\ f.base + p.slots + f.temps <= f.top
        /\ (~f.spread => f.top = f.base + p.registers)
    BY FrameIs, Zenon
  <2>2. TempSlot(f, f.temps + 1) = f.base + p.slots + (f.temps + 1) - 1
    BY DEF TempSlot
  <2> HIDE DEF f, p
  <2>3. f.base + Len(f.vars) <= f.top /\ TempSlot(f, f.temps + 1) <= f.top
    BY ONLY <2>1, <2>2, SMTT(30)
  <2> QED
    BY <2>1, <2>3 DEF f, p
<1> QED
  BY <1>1, IInvTheorem, PTL

==============================================================================
