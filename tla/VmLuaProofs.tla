----------------------------- MODULE VmLuaProofs -----------------------------
(***************************************************************************)
(* The machine is Lua's calls, for every program: what a register holds is *)
(* what its variable has, through every capture, move and close of its     *)
(* cell, and every instruction does to the calls what Lua says, or nothing.*)
(* One lemma for an instruction says so, named for it and ending in Maps.  *)
(***************************************************************************)
EXTENDS VmLua, VmProofs, WellFoundedInduction

(* Variables have identities, as many as are asked for: the refinement     *)
(* needs that Names never runs out, and that it is ordered.                *)
Endless == Names \in SUBSET Nat /\ ~IsFiniteSet(Names)

(* The natural numbers are well ordered.                                   *)
LEMMA LeastNumber ==
  ASSUME NEW S, S \subseteq Nat, S # {}
  PROVE  \E n \in S : \A m \in S : n <= m
<1> DEFINE R == OpToRel(<, Nat)
<1>1. IsWellFoundedOn(R, Nat)
  BY NatLessThanWellFounded
<1>2. ASSUME NEW x \in Nat, NEW y \in Nat, x < y
      PROVE  <<x, y>> \in R
  BY <1>2 DEF OpToRel
<1> HIDE DEF R
<1>3. PICK n \in S : \A m \in S : <<m, n>> \notin R
  BY <1>1, WFMin
<1>4. ASSUME NEW m \in S
      PROVE  n <= m
  <2>1. m \in Nat /\ n \in Nat
    OBVIOUS
  <2>2. ~(m < n)
    BY <1>2, <1>3, <2>1
  <2> QED
    BY <2>1, <2>2
<1> QED
  BY <1>4

Lower(T, x) == {y \in T : y < x}

(* In an endless set of numbers there is one of every rank.                *)
LEMMA EveryRank ==
  ASSUME NEW T \in SUBSET Nat, ~IsFiniteSet(T), NEW m \in Nat
  PROVE  \E x \in T : Cardinality(Lower(T, x)) = m
<1> DEFINE Bad == {n \in Nat : ~\E x \in T : Cardinality(Lower(T, x)) = n}
<1>1. \A x \in T : IsFiniteSet(Lower(T, x))
  BY FS_BoundedSetOfNaturals DEF Lower
<1>2. SUFFICES ASSUME Bad # {}
               PROVE  FALSE
  OBVIOUS
<1>3. PICK n \in Bad : \A k \in Bad : n <= k
  BY <1>2, LeastNumber
<1>4. CASE n = 0
  <2>1. T # {}
    BY FS_EmptySet
  <2>2. PICK x \in T : \A y \in T : x <= y
    BY <2>1, LeastNumber
  <2>3. Lower(T, x) = {}
    <3>1. \A y \in T : ~(y < x)
      BY <2>2
    <3> QED
      BY <3>1 DEF Lower
  <2> QED
    BY <2>3, <1>3, <1>4, FS_EmptySet
<1>5. CASE n # 0
  <2>1. n - 1 \in Nat /\ n - 1 \notin Bad
    BY <1>3, <1>5
  <2>2. PICK x \in T : Cardinality(Lower(T, x)) = n - 1
    BY <2>1
  <2>3. {y \in T : x < y} # {}
    <3>1. SUFFICES ASSUME {y \in T : x < y} = {}
                   PROVE  \A y \in T : y <= x
      BY FS_BoundedSetOfNaturals
    <3> QED
      BY <3>1
  <2>4. PICK z \in T : x < z /\ \A y \in T : x < y => z <= y
    <3>1. {y \in T : x < y} \in SUBSET Nat
      OBVIOUS
    <3> QED
      BY <2>3, <3>1, LeastNumber
  <2>5. Lower(T, z) = Lower(T, x) \cup {x} /\ x \notin Lower(T, x)
    <3>1. \A y \in T : y < z <=> y < x \/ y = x
      BY <2>4
    <3>2. x \in T /\ ~(x < x)
      OBVIOUS
    <3>3. Lower(T, z) = {y \in T : y < x \/ y = x}
      BY <3>1 DEF Lower
    <3> QED
      BY <3>2, <3>3 DEF Lower
  <2>6. Cardinality(Lower(T, z)) = n
    BY <2>1, <2>2, <2>5, <1>1, FS_AddElement
  <2> QED
    BY <2>6, <1>3
<1> QED
  BY <1>3, <1>4, <1>5

(* New variables are in no one's use, and no two of them are one.          *)
LEMMA FreshApart ==
  ASSUME Endless, NEW used, IsFiniteSet(used), NEW n \in Nat
  PROVE  /\ \A k \in 1 .. n : Fresh(used, n)[k] \notin used
         /\ \A j, k \in 1 .. n : Fresh(used, n)[j] = Fresh(used, n)[k] => j = k
<1> DEFINE free == Names \ used
           Picked(k) == CHOOSE x \in free : Cardinality(Lower(free, x)) = k - 1
<1>1. free \in SUBSET Nat /\ ~IsFiniteSet(free)
  <2>1. SUFFICES ASSUME IsFiniteSet(free)
                 PROVE  IsFiniteSet(Names)
    BY DEF Endless
  <2>2. IsFiniteSet(free \cup used) /\ Names \in SUBSET (free \cup used)
    BY <2>1, FS_Union
  <2> QED
    BY <2>2, FS_Subset
<1>2. Fresh(used, n) = [k \in 1 .. n |-> Picked(k)]
  BY DEF Fresh, Lower
<1>3. \A k \in 1 .. n : Picked(k) \in free /\ Cardinality(Lower(free, Picked(k))) = k - 1
  <2> SUFFICES ASSUME NEW k \in 1 .. n
               PROVE  Picked(k) \in free /\ Cardinality(Lower(free, Picked(k))) = k - 1
    OBVIOUS
  <2> HIDE DEF free
  <2>1. k - 1 \in Nat
    OBVIOUS
  <2>2. \E x \in free : Cardinality(Lower(free, x)) = k - 1
    BY <2>1, <1>1, EveryRank
  <2> QED
    BY <2>2
<1> HIDE DEF Picked
<1>4. \A k \in 1 .. n : Fresh(used, n)[k] = Picked(k)
  BY <1>2
<1>5. \A j, k \in 1 .. n : Picked(j) = Picked(k) => j = k
  <2> SUFFICES ASSUME NEW j \in 1 .. n, NEW k \in 1 .. n, Picked(j) = Picked(k)
               PROVE  j = k
    OBVIOUS
  <2>1. j - 1 = k - 1
    BY <1>3
  <2> QED
    BY <2>1
<1> QED
  BY <1>3, <1>4, <1>5

(* A list has finitely many members.                                       *)
LEMMA ListedFinite ==
  ASSUME NEW n \in Nat, NEW s
  PROVE  IsFiniteSet({s[k] : k \in 1 .. n})
<1> DEFINE T == {s[k] : k \in 1 .. n}
           f == [k \in 1 .. n |-> s[k]]
<1>1. f \in Surjection(1 .. n, T)
  BY DEF Surjection
<1>2. IsFiniteSet(1 .. n)
  BY FS_Interval
<1> QED
  BY <1>1, <1>2, FS_Surjection

(* The variables in use: those of the frames and those the cells are for.  *)
Used(fs, owners) == Listed(owners) \cup UNION {Listed(fs[k].vars) : k \in 1 .. Len(fs)}

(* Only so many are in use.                                                *)
LEMMA UsedFinite ==
  ASSUME NEW fs, IsList(fs), \A k \in 1 .. Len(fs) : IsList(fs[k].vars), NEW owners, IsList(owners)
  PROVE  IsFiniteSet(Used(fs, owners))
<1> DEFINE g == [k \in 1 .. Len(fs) |-> Listed(fs[k].vars)]
           T == {g[k] : k \in 1 .. Len(fs)}
<1>1. Len(fs) \in Nat /\ Len(owners) \in Nat /\ \A k \in 1 .. Len(fs) : Len(fs[k].vars) \in Nat
  BY DEF IsList
<1>2. IsFiniteSet(T)
  <2> HIDE DEF g
  <2> QED
    BY <1>1, ListedFinite
<1>3. \A k \in 1 .. Len(fs) : IsFiniteSet(Listed(fs[k].vars))
  BY <1>1, ListedFinite DEF Listed
<1>4. IsFiniteSet(UNION T)
  BY <1>2, <1>3, FS_UNION
<1>5. IsFiniteSet(Listed(owners))
  BY <1>1, ListedFinite DEF Listed
<1>6. UNION T = UNION {Listed(fs[k].vars) : k \in 1 .. Len(fs)}
  OBVIOUS
<1> QED
  BY <1>4, <1>5, <1>6, FS_Union DEF Used

-----------------------------------------------------------------------------
(* What Lua's side of a call is read from: its rows of slots.              *)
Between(v, from, n) == [k \in 1 .. n |-> At(v, from + k - 1)]

(* Where a frame's temporaries begin, and how many there are.              *)
RowStart(f, shapes) == f.base + shapes[f.func].slots
Width(f, shapes) == IF f.spread THEN f.top - RowStart(f, shapes) ELSE f.temps

CallOf(v, f, shapes) ==
  [func |-> f.func, vars |-> f.vars, extra |-> Between(v, f.base - f.varargs, f.varargs),
   temps |-> Between(v, RowStart(f, shapes), Width(f, shapes)), want |-> f.want]

CallsIn(v, fs, shapes) == [k \in 1 .. Len(fs) |-> CallOf(v, fs[k], shapes)]

(* The calls of a machine that has not ended are its frames.               *)
LEMMA CallsInIs ==
  ASSUME NEW prog \in Programs, NEW v, NEW fs, NEW listed, NEW cs, NEW owners, NEW fns, NEW tables,
         Sound(v, fs, listed, cs, owners, fns, tables, prog)
  PROVE  CallsIn(v, fs, ShapesOf(fns, prog)) =
           [k \in 1 .. Len(fs) |->
              LET f == fs[k]
                  first == f.base + prog.protos[fns[f.func].proto].slots + 1 - 1
                  count == IF f.spread THEN f.top - first ELSE f.temps
              IN  [func |-> f.func, vars |-> f.vars,
                   extra |-> [j \in 1 .. f.varargs |-> At(v, f.base - f.varargs + j - 1)],
                   temps |-> [t \in 1 .. count |-> At(v, first + t - 1)], want |-> f.want]]
<1> DEFINE shapes == ShapesOf(fns, prog)
<1>1. /\ ArenasOK(fns, cs, tables, prog) /\ FramesOK(fs, shapes, prog.wants, Len(v))
  BY DEF Sound
<1>2. /\ Bounded(shapes) /\ DOMAIN shapes = 1 .. Len(fns)
      /\ \A f \in 1 .. Len(fns) : shapes[f] = prog.protos[fns[f].proto]
  BY <1>1, ArenaBounds
<1> HIDE DEF shapes
<1> SUFFICES ASSUME NEW k \in 1 .. Len(fs)
             PROVE  RowStart(fs[k], shapes)
                      = fs[k].base + prog.protos[fns[fs[k].func].proto].slots + 1 - 1
  BY DEF CallsIn, CallOf, Between, Width, shapes
<1>3. /\ fs[k].func \in 1 .. Len(fns) /\ fs[k].base \in Nat /\ shapes[fs[k].func].slots \in Nat
  BY <1>1, <1>2, FrameBounds DEF FramesOK
<1> QED
  BY <1>2, <1>3 DEF RowStart

(* The calls, now.                                                         *)
LEMMA CallsNowIs ==
  ASSUME IInv, ~Ended
  PROVE  CallsNow = CallsIn(values, frames, Shapes)
<1>1. program \in Programs /\ Sound(values, frames, open, cells, owner, functions, packs, program)
  BY DEF IInv
<1>2. CallsIn(values, frames, Shapes) = CallsOf
  BY <1>1, CallsInIs, SMTT(30) DEF Shapes, CallsOf, TempsOf, ExtraOf, TempSlot, ProtoOf, Proto, Depth
<1> QED
  BY <1>2 DEF CallsNow

(* And after a step.                                                       *)
LEMMA CallsAfter ==
  ASSUME IInv', ~Ended'
  PROVE  CallsNow' = CallsIn(values', frames', Shapes')
<1>1. /\ program' \in Programs
      /\ Sound(values', frames', open', cells', owner', functions', packs', program')
  BY DEF IInv
<1>2. CallsIn(values', frames', Shapes') = CallsOf'
  BY <1>1, CallsInIs, SMTT(30) DEF Shapes, CallsOf, TempsOf, ExtraOf, TempSlot, ProtoOf, Proto, Depth
<1> QED
  BY <1>2 DEF CallsNow

-----------------------------------------------------------------------------
(* A row of slots is a list of that many values.                           *)
LEMMA BetweenIs ==
  ASSUME NEW v, NEW from, NEW n \in Nat
  PROVE  /\ IsList(Between(v, from, n)) /\ Len(Between(v, from, n)) = n
         /\ \A k \in 1 .. n : Between(v, from, n)[k] = At(v, from + k - 1)
<1>1. Between(v, from, n) = [k \in 1 .. n |-> Between(v, from, n)[k]]
  BY DEF Between
<1> QED
  BY <1>1, ListOf DEF Between

(* Lists are equal that are equal element by element.                      *)
LEMMA ListsEqual ==
  ASSUME NEW s, NEW t, IsList(s), IsList(t), Len(s) = Len(t),
         \A k \in 1 .. Len(s) : s[k] = t[k]
  PROVE  s = t
<1>1. Len(s) \in Nat /\ s = [k \in 1 .. Len(s) |-> s[k]] /\ t = [k \in 1 .. Len(t) |-> t[k]]
  BY DEF IsList
<1> QED
  BY <1>1

(* The same slots, the same row.                                           *)
LEMMA BetweenKept ==
  ASSUME NEW v, NEW w, NEW from \in Int, NEW n \in Nat,
         \A s \in from .. from + n - 1 : At(w, s) = At(v, s)
  PROVE  Between(w, from, n) = Between(v, from, n)
<1>1. \A k \in 1 .. n : At(w, from + k - 1) = At(v, from + k - 1)
  <2> SUFFICES ASSUME NEW k \in 1 .. n
               PROVE  At(w, from + k - 1) = At(v, from + k - 1)
    OBVIOUS
  <2>1. from + k - 1 \in from .. from + n - 1
    OBVIOUS
  <2> QED
    BY <2>1
<1> QED
  BY <1>1 DEF Between

(* Nothing below a slot is another value.                                  *)
Untouched(v, w, from) == \A s \in Nat : s < from => At(w, s) = At(v, s)

(* A list lies from a slot on.                                             *)
Lies(w, to, list) == \A k \in 1 .. Len(list) : At(w, to + k - 1) = list[k]

(* A row that is kept, and what lies above it.                             *)
Adjoins(v, w, from, n, above, t, many) ==
  /\ from \in Nat /\ n \in Nat /\ above = from + n /\ many = n + Len(t)
  /\ Untouched(v, w, above) /\ IsList(t) /\ Lies(w, above, t)

(* A row and what follows it.                                              *)
LEMMA BetweenJoined ==
  ASSUME NEW v, NEW w, NEW from, NEW n, NEW above, NEW t, NEW many, Adjoins(v, w, from, n, above, t, many)
  PROVE  Between(w, from, many) = Between(v, from, n) \o t
<1> DEFINE r == Between(v, from, n)
           q == Between(w, from, many)
<1>1. /\ Len(t) \in Nat /\ from \in Nat /\ n \in Nat /\ IsList(t) /\ many = n + Len(t)
      /\ Untouched(v, w, from + n) /\ Lies(w, from + n, t)
  BY DEF IsList, Adjoins
<1>2. /\ IsList(r) /\ Len(r) = n /\ \A k \in 1 .. n : r[k] = At(v, from + k - 1)
      /\ IsList(q) /\ Len(q) = many /\ \A k \in 1 .. many : q[k] = At(w, from + k - 1)
  <2>1. many \in Nat
    BY <1>1
  <2> QED
    BY <1>1, <2>1, BetweenIs
<1> HIDE DEF r, q
<1>3. Joined(r, t, r \o t)
  BY <1>1, <1>2, JoinIs
<1>4. ASSUME NEW k \in 1 .. many
      PROVE  q[k] = (r \o t)[k]
  <2>1. CASE k <= n
    <3>1. k \in 1 .. n /\ from + k - 1 \in Nat /\ from + k - 1 < from + n
      BY <1>1, <2>1
    <3>2. At(w, from + k - 1) = At(v, from + k - 1)
      BY <1>1, <3>1 DEF Untouched
    <3> QED
      BY <3>1, <3>2, <1>1, <1>2, <1>3 DEF Joined
  <2>2. CASE ~(k <= n)
    <3>1. PICK j \in 1 .. Len(t) : k = n + j
      <4>1. k - n \in 1 .. Len(t) /\ k = n + (k - n)
        BY <2>2, <1>1
      <4> QED
        BY <4>1
    <3>2. q[k] = At(w, from + n + j - 1)
      <4>1. from + k - 1 = from + n + j - 1
        BY <3>1, <1>1
      <4> QED
        BY <4>1, <1>2
    <3> QED
      BY <3>1, <3>2, <1>1, <1>2, <1>3 DEF Joined, Lies
  <2> QED
    BY <2>1, <2>2
<1>5. q = r \o t
  BY <1>1, <1>2, <1>3, <1>4, ListsEqual DEF Joined
<1> QED
  BY <1>5 DEF q, r

(* A row with the slot above it written.                                   *)
LEMMA BetweenNext ==
  ASSUME NEW v, NEW w, NEW from \in Nat, NEW n \in Nat, Untouched(v, w, from + n)
  PROVE  Between(w, from, n + 1) = Append(Between(v, from, n), At(w, from + n))
<1> DEFINE r == Between(v, from, n)
           q == Between(w, from, n + 1)
           x == At(w, from + n)
<1>1. /\ IsList(r) /\ Len(r) = n /\ \A k \in 1 .. n : r[k] = At(v, from + k - 1)
      /\ IsList(q) /\ Len(q) = n + 1 /\ \A k \in 1 .. n + 1 : q[k] = At(w, from + k - 1)
  BY BetweenIs
<1>2. At(w, from + n) = x /\ \A s \in from .. from + n - 1 : At(w, s) = At(v, s)
  BY DEF Untouched
<1> HIDE DEF r, q, x
<1>3. Appended(r, x, Append(r, x))
  BY <1>1, AppendIs
<1>4. ASSUME NEW k \in 1 .. n + 1
      PROVE  q[k] = Append(r, x)[k]
  <2>1. CASE k <= n
    <3>1. k \in 1 .. n /\ from + k - 1 \in from .. from + n - 1
      BY <2>1
    <3> QED
      BY <3>1, <1>1, <1>2, <1>3 DEF Appended
  <2>2. CASE ~(k <= n)
    <3>1. k = n + 1 /\ from + k - 1 = from + n
      BY <2>2
    <3> QED
      BY <3>1, <1>1, <1>2, <1>3 DEF Appended
  <2> QED
    BY <2>1, <2>2
<1>5. q = Append(r, x)
  BY <1>1, <1>3, <1>4, ListsEqual DEF Appended
<1> QED
  BY <1>5 DEF q, r, x

(* The first of a row.                                                     *)
LEMMA BetweenFirst ==
  ASSUME NEW v, NEW from, NEW n \in Nat, NEW m \in 0 .. n
  PROVE  SubSeq(Between(v, from, n), 1, m) = Between(v, from, m)
<1> DEFINE r == Between(v, from, n)
           q == Between(v, from, m)
<1>1. /\ IsList(r) /\ Len(r) = n /\ \A k \in 1 .. n : r[k] = At(v, from + k - 1)
      /\ IsList(q) /\ Len(q) = m /\ \A k \in 1 .. m : q[k] = At(v, from + k - 1)
  BY BetweenIs
<1> HIDE DEF r, q
<1>2. /\ IsList(SubSeq(r, 1, m)) /\ Len(SubSeq(r, 1, m)) = m
      /\ \A k \in 1 .. m : SubSeq(r, 1, m)[k] = r[k]
  BY <1>1, PrefixIs
<1>3. SubSeq(r, 1, m) = q
  <2>1. \A k \in 1 .. m : k \in 1 .. n
    OBVIOUS
  <2>2. \A k \in 1 .. m : SubSeq(r, 1, m)[k] = q[k]
    BY <2>1, <1>1, <1>2
  <2> HIDE DEF r, q
  <2> DEFINE s == SubSeq(r, 1, m)
  <2>3. IsList(s) /\ Len(s) = m /\ \A k \in 1 .. m : s[k] = q[k]
    BY <2>2, <1>2
  <2> HIDE DEF s
  <2>4. s = q
    BY <2>3, <1>1, ListsEqual
  <2> QED
    BY <2>4 DEF s
<1> QED
  BY <1>3 DEF q, r

(* The rest of a row.                                                      *)
LEMMA BetweenRest ==
  ASSUME NEW v, NEW from \in Nat, NEW n \in Nat, NEW m \in 0 .. n
  PROVE  Lua!Rest(Between(v, from, n), m + 1) = Between(v, from + m, n - m)
<1> DEFINE r == Between(v, from, n)
           q == Between(v, from + m, n - m)
           s == SubSeq(r, m + 1, n)
<1>1. /\ IsList(r) /\ Len(r) = n /\ \A k \in 1 .. n : r[k] = At(v, from + k - 1)
      /\ IsList(q) /\ Len(q) = n - m /\ \A k \in 1 .. n - m : q[k] = At(v, from + m + k - 1)
  <2>1. n - m \in Nat
    OBVIOUS
  <2> QED
    BY <2>1, BetweenIs
<1> HIDE DEF r, q
<1>2. s = [k \in 1 .. n - m |-> r[m + k]]
  <2>1. r \in Seq(Listed(r))
    BY <1>1 DEF IsList
  <2> QED
    BY <2>1, <1>1
<1>3. \A k \in 1 .. n - m : s[k] = q[k]
  <2> SUFFICES ASSUME NEW k \in 1 .. n - m
               PROVE  r[m + k] = q[k]
    BY <1>2
  <2>1. m + k \in 1 .. n /\ from + (m + k) - 1 = from + m + k - 1
    OBVIOUS
  <2> QED
    BY <2>1, <1>1
<1>4. IsList(s) /\ Len(s) = n - m
  <2>1. s = [k \in 1 .. n - m |-> s[k]] /\ n - m \in Nat
    BY <1>2
  <2> HIDE DEF s
  <2> QED
    BY <2>1, ListOf
<1>5. s = q
  <2> HIDE DEF s
  <2> QED
    BY <1>1, <1>3, <1>4, ListsEqual
<1> QED
  BY <1>5, <1>1 DEF Lua!Rest, r, q

-----------------------------------------------------------------------------
(* No two variables in scope are one.                                      *)
VarsOnce(fs) ==
  \A k, l \in 1 .. Len(fs) : \A i \in 1 .. Len(fs[k].vars) : \A j \in 1 .. Len(fs[l].vars) :
    fs[k].vars[i] = fs[l].vars[j] => k = l /\ i = j

(* No variable has two cells.                                              *)
CellsOnce(owners) == \A c, d \in 1 .. Len(owners) : owners[c] = owners[d] => c = d

(* The cell of a variable in scope is open.                                *)
ScopeOpen(fs, cs, owners) ==
  \A c \in 1 .. Len(cs) : \A k \in 1 .. Len(fs) : \A i \in 1 .. Len(fs[k].vars) :
    owners[c] = fs[k].vars[i] => cs[c].kind = "Open"

(* Each cell is some function's.                                           *)
CellsHeld(cs, fns) == \A c \in 1 .. Len(cs) : \E f \in 1 .. Len(fns) : c \in Listed(fns[f].upvals)

(* What the machine's words say of variables, which it does not name: that *)
(* the ones in scope are apart, that a cell is one variable's, that none   *)
(* has both a register and a closed cell.                                  *)
Links(fs, cs, owners, fns) ==
  /\ VarsOnce(fs) /\ CellsOnce(owners) /\ ScopeOpen(fs, cs, owners)
  /\ CellsHeld(cs, fns) /\ Len(fs) <= DEPTH

Linked == Links(frames, cells, owner, functions)

(* A variable in scope is one register.                                    *)
LEMMA OneRegister ==
  ASSUME NEW fs, VarsOnce(fs), NEW k \in 1 .. Len(fs), NEW l \in 1 .. Len(fs),
         NEW i \in 1 .. Len(fs[k].vars), NEW j \in 1 .. Len(fs[l].vars),
         fs[k].vars[i] = fs[l].vars[j]
  PROVE  k = l /\ i = j
BY DEF VarsOnce

(* A store that holds what the slots and the closed cells do.              *)
StoreIs(st, v, fs, cs, owners) ==
  /\ st = [x \in Used(fs, owners) |-> st[x]]
  /\ \A k \in 1 .. Len(fs) : \A i \in 1 .. Len(fs[k].vars) :
       st[fs[k].vars[i]] = At(v, fs[k].base + i - 1)
  /\ \A c \in 1 .. Len(cs) : cs[c].kind = "Closed" => st[owners[c]] = cs[c].value

ValueIn(x, v, fs, cs, owners) ==
  IF \E k \in 1 .. Len(fs) : x \in Listed(fs[k].vars)
  THEN LET f == fs[CHOOSE k \in 1 .. Len(fs) : x \in Listed(fs[k].vars)]
       IN  At(v, f.base + (CHOOSE i \in 1 .. Len(f.vars) : f.vars[i] = x) - 1)
  ELSE cs[CHOOSE c \in 1 .. Len(cs) : owners[c] = x /\ cs[c].kind = "Closed"].value

StoreIn(v, fs, cs, owners) == [x \in Used(fs, owners) |-> ValueIn(x, v, fs, cs, owners)]

(* A variable in use: in scope, or of a cell.                              *)
LEMMA InUseIs ==
  ASSUME NEW fs, NEW owners
  PROVE  \A x : x \in Used(fs, owners) <=>
           \/ \E k \in 1 .. Len(fs) : \E i \in 1 .. Len(fs[k].vars) : x = fs[k].vars[i]
           \/ \E c \in 1 .. Len(owners) : x = owners[c]
BY DEF Used, Listed

(* The store the machine is mapped to holds what its slots and cells do.   *)
LEMMA StoreInIs ==
  ASSUME NEW v, NEW fs, NEW cs, NEW owners, VarsOnce(fs), CellsOnce(owners),
         ScopeOpen(fs, cs, owners), Len(owners) = Len(cs)
  PROVE  StoreIs(StoreIn(v, fs, cs, owners), v, fs, cs, owners)
<1> DEFINE st == StoreIn(v, fs, cs, owners)
<1>1. \A x \in Used(fs, owners) : st[x] = ValueIn(x, v, fs, cs, owners)
  BY DEF StoreIn
<1>2. st = [x \in Used(fs, owners) |-> st[x]]
  BY DEF StoreIn
<1> HIDE DEF st
<1>3. ASSUME NEW k \in 1 .. Len(fs), NEW i \in 1 .. Len(fs[k].vars)
      PROVE  st[fs[k].vars[i]] = At(v, fs[k].base + i - 1)
  <2> DEFINE x == fs[k].vars[i]
             l == CHOOSE l \in 1 .. Len(fs) : x \in Listed(fs[l].vars)
             j == CHOOSE j \in 1 .. Len(fs[k].vars) : fs[k].vars[j] = x
  <2>1. x \in Used(fs, owners)
    BY InUseIs
  <2>2. x \in Listed(fs[k].vars)
    BY DEF Listed
  <2>3. l = k
    <3>1. l \in 1 .. Len(fs) /\ x \in Listed(fs[l].vars)
      BY <2>2
    <3> HIDE DEF l
    <3>2. PICK m \in 1 .. Len(fs[l].vars) : fs[l].vars[m] = x
      BY <3>1 DEF Listed
    <3> QED
      BY <3>1, <3>2 DEF VarsOnce
  <2>4. j = i
    <3>1. j \in 1 .. Len(fs[k].vars) /\ fs[k].vars[j] = fs[k].vars[i]
      OBVIOUS
    <3> HIDE DEF j
    <3> QED
      BY <3>1 DEF VarsOnce
  <2>5. ValueIn(x, v, fs, cs, owners) = At(v, fs[k].base + i - 1)
    BY <2>2, <2>3, <2>4 DEF ValueIn
  <2> QED
    BY <2>1, <2>5, <1>1
<1>4. ASSUME NEW c \in 1 .. Len(cs), cs[c].kind = "Closed"
      PROVE  st[owners[c]] = cs[c].value
  <2> DEFINE x == owners[c]
             d == CHOOSE d \in 1 .. Len(cs) : owners[d] = x /\ cs[d].kind = "Closed"
  <2>1. x \in Used(fs, owners)
    BY InUseIs
  <2>2. ~\E k \in 1 .. Len(fs) : x \in Listed(fs[k].vars)
    BY <1>4 DEF ScopeOpen, Listed
  <2>3. d = c
    <3>1. d \in 1 .. Len(cs) /\ owners[d] = x /\ cs[d].kind = "Closed"
      BY <1>4
    <3> HIDE DEF d
    <3> QED
      BY <3>1 DEF CellsOnce
  <2>4. ValueIn(x, v, fs, cs, owners) = cs[c].value
    BY <2>2, <2>3 DEF ValueIn
  <2> QED
    BY <2>1, <2>4, <1>1
<1>5. StoreIs(st, v, fs, cs, owners)
  BY <1>2, <1>3, <1>4 DEF StoreIs
<1> QED
  BY <1>5 DEF st

AreCells(cs, S) == \A c \in 1 .. Len(cs) : IsCell(cs[c], S)

(* What is in use has a register or a closed cell.                         *)
LEMMA Covered ==
  ASSUME NEW fs, NEW cs, NEW owners, NEW listed, NEW shapes, OpenOK(listed, cs, owners, fs, shapes),
         NEW S, AreCells(cs, S), NEW x \in Used(fs, owners)
  PROVE  \/ \E k \in 1 .. Len(fs) : \E i \in 1 .. Len(fs[k].vars) : x = fs[k].vars[i]
         \/ \E c \in 1 .. Len(cs) : x = owners[c] /\ cs[c].kind = "Closed"
<1> SUFFICES ASSUME NEW c \in 1 .. Len(cs), x = owners[c], cs[c].kind = "Open"
             PROVE  \E k \in 1 .. Len(fs) : \E i \in 1 .. Len(fs[k].vars) : x = fs[k].vars[i]
  BY InUseIs DEF OpenOK, IsCell, AreCells
<1>1. IsLocal(cs[c].slot, owners[c], fs)
  BY DEF OpenOK
<1> QED
  BY <1>1 DEF IsLocal

(* Two stores that hold the same are one.                                  *)
LEMMA OneStore ==
  ASSUME NEW v, NEW fs, NEW cs, NEW owners, NEW listed, NEW shapes,
         OpenOK(listed, cs, owners, fs, shapes), NEW S, AreCells(cs, S),
         NEW st, NEW tt, StoreIs(st, v, fs, cs, owners), StoreIs(tt, v, fs, cs, owners)
  PROVE  st = tt
<1>1. /\ st = [x \in Used(fs, owners) |-> st[x]] /\ tt = [x \in Used(fs, owners) |-> tt[x]]
  BY DEF StoreIs
<1>2. ASSUME NEW x \in Used(fs, owners)
      PROVE  st[x] = tt[x]
  <2>1. CASE \E k \in 1 .. Len(fs) : \E i \in 1 .. Len(fs[k].vars) : x = fs[k].vars[i]
    BY <2>1 DEF StoreIs
  <2>2. CASE \E c \in 1 .. Len(cs) : x = owners[c] /\ cs[c].kind = "Closed"
    BY <2>2 DEF StoreIs
  <2>3. \/ \E k \in 1 .. Len(fs) : \E i \in 1 .. Len(fs[k].vars) : x = fs[k].vars[i]
        \/ \E c \in 1 .. Len(cs) : x = owners[c] /\ cs[c].kind = "Closed"
    BY Covered
  <2> QED
    BY <2>1, <2>2, <2>3
<1> QED
  BY <1>1, <1>2

(* The store, now.                                                         *)
LEMMA StoreNowIs ==
  ASSUME IInv, Linked, ~Ended
  PROVE  StoreIs(StoreNow, values, frames, cells, owner)
<1>1. Len(owner) = Len(cells)
  BY ArenaLists
<1>2. StoreNow = StoreIn(values, frames, cells, owner)
  BY DEF StoreNow, StoreIn, ValueOf, ValueIn, InUse, Used, LocalSlot, Depth
<1> QED
  BY <1>1, <1>2, StoreInIs DEF Linked, Links

(* And after a step: any store that holds what the slots and cells then do.*)
LEMMA StoreAfter ==
  ASSUME IInv', Linked', ~Ended', NEW st, StoreIs(st, values', frames', cells', owner')
  PROVE  StoreNow' = st
<1>1. /\ OpenOK(open', cells', owner', frames', Shapes')
      /\ AreCells(cells', Holds')
      /\ Len(owner') = Len(cells')
  BY DEF AreCells, IInv, Sound, ArenasOK, OpenOK, Shapes, Holds
<1>2. StoreNow' = StoreIn(values', frames', cells', owner')
  BY DEF StoreNow, StoreIn, ValueOf, ValueIn, InUse, Used, LocalSlot, Depth
<1>3. StoreIs(StoreIn(values', frames', cells', owner'), values', frames', cells', owner')
  BY <1>1, StoreInIs DEF Linked, Links
<1> QED
  BY <1>1, <1>2, <1>3, OneStore

-----------------------------------------------------------------------------
(* Frames with no more variables than before: the outer ones, and of each  *)
(* the first of its variables.                                             *)
Within(fs, gs) ==
  /\ Len(fs) \in Nat /\ Len(gs) \in Nat /\ Len(gs) <= Len(fs)
  /\ \A k \in 1 .. Len(gs) : \A i \in 1 .. Len(gs[k].vars) :
       i \in 1 .. Len(fs[k].vars) /\ gs[k].vars[i] = fs[k].vars[i]

(* No variable comes into scope: the links stay, if what is still in scope *)
(* is open still.                                                          *)
LEMMA LinksFewer ==
  ASSUME NEW fs, NEW cs, NEW owners, NEW fns, Links(fs, cs, owners, fns),
         NEW gs, Within(fs, gs), NEW ds, Len(ds) = Len(cs), ScopeOpen(gs, ds, owners), DEPTH \in Nat
  PROVE  Links(gs, ds, owners, fns)
<1>1. \A k \in 1 .. Len(gs) : k \in 1 .. Len(fs)
  BY DEF Within
<1>2. VarsOnce(gs)
  BY <1>1 DEF Links, VarsOnce, Within
<1>3. CellsHeld(ds, fns)
  BY DEF Links, CellsHeld
<1>4. Len(gs) <= DEPTH
  BY DEF Links, Within
<1> QED
  BY <1>2, <1>3, <1>4 DEF Links

(* What is still in scope is open still when cells only change what they   *)
(* hold.                                                                   *)
LEMMA ScopeKept ==
  ASSUME NEW fs, NEW cs, NEW owners, ScopeOpen(fs, cs, owners),
         NEW gs, Within(fs, gs), NEW ds, Len(ds) = Len(cs),
         \A c \in 1 .. Len(cs) : ds[c].kind = cs[c].kind
  PROVE  ScopeOpen(gs, ds, owners)
<1>1. \A k \in 1 .. Len(gs) : k \in 1 .. Len(fs)
  BY DEF Within
<1> QED
  BY <1>1 DEF Within, ScopeOpen

(* An open cell's slot is its variable's register.                         *)
LEMMA CellSlot ==
  ASSUME IInv, Linked, NEW c \in 1 .. Len(cells), NEW k \in 1 .. Len(frames),
         NEW i \in 1 .. Len(frames[k].vars), owner[c] = frames[k].vars[i]
  PROVE  /\ cells[c].kind = "Open" /\ cells[c].slot = frames[k].base + i - 1
         /\ frames[k].base + i - 1 \in DOMAIN open /\ open[frames[k].base + i - 1] = c
<1>1. cells[c].kind = "Open"
  BY DEF Linked, Links, ScopeOpen
<1>2. /\ cells[c].slot \in DOMAIN open /\ open[cells[c].slot] = c
      /\ IsLocal(cells[c].slot, owner[c], frames)
  BY <1>1 DEF IInv, Sound, OpenOK
<1>3. PICK l \in 1 .. Len(frames) : \E j \in 1 .. Len(frames[l].vars) :
              cells[c].slot = frames[l].base + j - 1 /\ owner[c] = frames[l].vars[j]
  BY <1>2 DEF IsLocal
<1>4. PICK j \in 1 .. Len(frames[l].vars) :
              cells[c].slot = frames[l].base + j - 1 /\ owner[c] = frames[l].vars[j]
  BY <1>3
<1>5. l = k /\ j = i
  <2>1. VarsOnce(frames) /\ frames[l].vars[j] = frames[k].vars[i]
    BY <1>4 DEF Linked, Links
  <2> QED
    BY <2>1, OneRegister
<1> QED
  BY <1>1, <1>2, <1>4, <1>5

(* Which cells Vm::close closes: the open ones at or above the slot.       *)
LEMMA ClosedAre ==
  ASSUME IInv, NEW v, NEW from \in Nat, NEW c \in 1 .. Len(cells)
  PROVE  /\ Len(ClosedCells(v, from)) = Len(cells)
         /\ cells[c].kind = "Closed" => ClosedCells(v, from)[c] = cells[c]
         /\ cells[c].kind = "Open" /\ cells[c].slot < from => ClosedCells(v, from)[c] = cells[c]
         /\ cells[c].kind = "Open" /\ ~(cells[c].slot < from) =>
              ClosedCells(v, from)[c] = Closed(At(v, cells[c].slot))
<1> DEFINE touched == \E s \in DOMAIN open : s >= from /\ open[s] = c
           at == CHOOSE s \in DOMAIN open : s >= from /\ open[s] = c
<1>1. /\ ClosedCells(v, from)[c] = IF touched THEN Closed(At(v, at)) ELSE cells[c]
      /\ Len(ClosedCells(v, from)) = Len(cells)
  BY ArenaLists DEF ClosedCells
<1>2. \A s \in DOMAIN open : s \in Nat /\ cells[open[s]] = Open(s)
  BY DEF IInv, Sound, OpenOK
<1>3. \A s \in DOMAIN open : open[s] = c => cells[c].kind = "Open" /\ cells[c].slot = s
  <2> SUFFICES ASSUME NEW s \in DOMAIN open, open[s] = c
               PROVE  cells[c].kind = "Open" /\ cells[c].slot = s
    OBVIOUS
  <2>1. cells[c] = Open(s)
    BY <1>2
  <2> QED
    BY <2>1 DEF Open
<1>4. cells[c].kind = "Open" => cells[c].slot \in DOMAIN open /\ open[cells[c].slot] = c
  BY DEF IInv, Sound, OpenOK
<1>5. touched <=> cells[c].kind = "Open" /\ ~(cells[c].slot < from)
  BY <1>2, <1>3, <1>4
<1>6. touched => at = cells[c].slot
  <2> HIDE DEF at
  <2>1. touched => at \in DOMAIN open /\ open[at] = c
    BY DEF at
  <2> QED
    BY <2>1, <1>3
<1> HIDE DEF touched, at
<1> QED
  BY <1>1, <1>5, <1>6

(* Closing from a slot leaves open what is below it.                       *)
LEMMA ScopeClosed ==
  ASSUME IInv, Linked, NEW v, NEW from \in Nat, NEW gs, Within(frames, gs),
         \A k \in 1 .. Len(gs) : \A i \in 1 .. Len(gs[k].vars) : frames[k].base + i - 1 < from
  PROVE  ScopeOpen(gs, ClosedCells(v, from), owner) /\ Len(ClosedCells(v, from)) = Len(cells)
<1>1. Len(ClosedCells(v, from)) = Len(cells)
  BY ArenaLists DEF ClosedCells
<1>2. ASSUME NEW c \in 1 .. Len(cells), NEW k \in 1 .. Len(gs), NEW i \in 1 .. Len(gs[k].vars),
             owner[c] = gs[k].vars[i]
      PROVE  ClosedCells(v, from)[c].kind = "Open"
  <2>1. k \in 1 .. Len(frames) /\ i \in 1 .. Len(frames[k].vars) /\ owner[c] = frames[k].vars[i]
    BY <1>2 DEF Within
  <2>2. cells[c].kind = "Open" /\ cells[c].slot = frames[k].base + i - 1
    BY <2>1, CellSlot
  <2> QED
    BY <2>2, ClosedAre
<1> QED
  BY <1>1, <1>2 DEF ScopeOpen

(* New variables come into scope, of one frame, after those it had.        *)
Anew(fs, owners, names, many, gs, n, after) ==
  /\ many \in Nat /\ after \in Nat
  /\ \A j \in 1 .. many : names[j] \notin Used(fs, owners)
  /\ \A j, m \in 1 .. many : names[j] = names[m] => j = m
  /\ \A k \in 1 .. Len(gs) : \A i \in 1 .. Len(gs[k].vars) :
       \/ k \in 1 .. Len(fs) /\ i \in 1 .. Len(fs[k].vars) /\ gs[k].vars[i] = fs[k].vars[i]
       \/ k = n /\ i - after \in 1 .. many /\ gs[k].vars[i] = names[i - after]

(* Nobody has them: the links stay.                                        *)
LEMMA LinksMore ==
  ASSUME NEW fs, NEW cs, NEW owners, NEW fns, Links(fs, cs, owners, fns), Len(owners) = Len(cs),
         NEW gs, Len(gs) <= DEPTH,
         NEW names, NEW many, NEW n, NEW after, Anew(fs, owners, names, many, gs, n, after)
  PROVE  Links(gs, cs, owners, fns)
<1> DEFINE Old(k, i) ==
             k \in 1 .. Len(fs) /\ i \in 1 .. Len(fs[k].vars) /\ gs[k].vars[i] = fs[k].vars[i]
           New(k, i) == k = n /\ i - after \in 1 .. many /\ gs[k].vars[i] = names[i - after]
<1>1. \A k \in 1 .. Len(gs) : \A i \in 1 .. Len(gs[k].vars) : Old(k, i) \/ New(k, i)
  BY DEF Anew
<1>2. \A k, i : Old(k, i) => gs[k].vars[i] \in Used(fs, owners)
  BY InUseIs
<1>3. \A k, i : New(k, i) => gs[k].vars[i] \notin Used(fs, owners)
  BY DEF Anew
<1>4. VarsOnce(gs)
  <2> SUFFICES ASSUME NEW k \in 1 .. Len(gs), NEW l \in 1 .. Len(gs),
                      NEW i \in 1 .. Len(gs[k].vars), NEW j \in 1 .. Len(gs[l].vars),
                      gs[k].vars[i] = gs[l].vars[j]
               PROVE  k = l /\ i = j
    BY DEF VarsOnce
  <2>1. CASE Old(k, i) /\ Old(l, j)
    <3>1. VarsOnce(fs) /\ fs[k].vars[i] = fs[l].vars[j]
      BY <2>1 DEF Links
    <3> QED
      BY <3>1, <2>1, OneRegister
  <2>2. CASE New(k, i) /\ New(l, j)
    BY <2>2 DEF Anew
  <2> HIDE DEF Old, New
  <2> QED
    BY <2>1, <2>2, <1>1, <1>2, <1>3
<1>5. ScopeOpen(gs, cs, owners)
  <2> SUFFICES ASSUME NEW c \in 1 .. Len(cs), NEW k \in 1 .. Len(gs), NEW i \in 1 .. Len(gs[k].vars),
                      owners[c] = gs[k].vars[i]
               PROVE  cs[c].kind = "Open"
    BY DEF ScopeOpen
  <2>1. owners[c] \in Used(fs, owners)
    BY InUseIs
  <2>2. Old(k, i)
    <3> HIDE DEF Old, New
    <3> QED
      BY <2>1, <1>1, <1>3
  <2> QED
    BY <2>2 DEF Links, ScopeOpen
<1> QED
  BY <1>4, <1>5 DEF Links

-----------------------------------------------------------------------------
(* A frame's row and locals replaced: the rest of it stays.                *)
LEMMA ChangedFields ==
  ASSUME NEW shapes, NEW wants, NEW f, IsFrame(f, shapes, wants),
         NEW top, NEW variables, NEW temps, NEW spread
  PROVE  ChangedTo(f, Changed(f, top, variables, temps, spread), top, variables, temps, spread)
<1>1. f \in [func : DOMAIN shapes, base : Nat, top : Nat, want : wants \cup {0}, ret_to : Nat,
             varargs : Nat, vars : {f.vars}, temps : Nat, spread : BOOLEAN]
  BY DEF IsFrame
<1> QED
  BY <1>1 DEF Changed, ChangedTo

(* The last frame's row changed: what the others are.                      *)
Rewritten(fs, gs, top, variables, temps, spread) ==
  /\ Len(fs) \in Nat \ {0} /\ Len(gs) = Len(fs) /\ IsList(gs)
  /\ \A k \in 1 .. Len(fs) - 1 : gs[k] = fs[k]
  /\ ChangedTo(fs[Len(fs)], gs[Len(fs)], top, variables, temps, spread)

(* The last frame's row replaced leaves the others as they were.           *)
LEMMA RowWith ==
  ASSUME NEW shapes, NEW wants, NEW fs, IsList(fs), fs # <<>>, IsFrame(fs[Len(fs)], shapes, wants),
         NEW top, NEW variables, NEW temps, NEW spread,
         NEW gs, gs = WithFrame(fs, Changed(fs[Len(fs)], top, variables, temps, spread))
  PROVE  Rewritten(fs, gs, top, variables, temps, spread)
<1> DEFINE g == Changed(fs[Len(fs)], top, variables, temps, spread)
<1>1. ChangedTo(fs[Len(fs)], g, top, variables, temps, spread)
  BY ChangedFields
<1> HIDE DEF g
<1>2. /\ Len(fs) \in Nat \ {0} /\ Len(gs) = Len(fs) /\ gs[Len(fs)] = g
      /\ \A k \in 1 .. Len(fs) - 1 : gs[k] = fs[k]
      /\ gs = [k \in 1 .. Len(fs) |-> gs[k]]
  <2>1. gs = WithFrame(fs, g)
    BY DEF g
  <2> QED
    BY <2>1, WithFrameIs
<1>3. IsList(gs)
  BY <1>2, ListOf
<1> QED
  BY <1>1, <1>2, <1>3 DEF Rewritten

(* Results settled: the caller has a row that is open up to its top, or    *)
(* that many more temporaries.                                             *)
LEMMA SettledRow ==
  ASSUME NEW shapes, NEW wants, NEW fs, IsList(fs), fs # <<>>, NEW f, f = fs[Len(fs)],
         IsFrame(f, shapes, wants), NEW to, NEW produced, NEW want
  PROVE  IF want = All
         THEN Rewritten(fs, SettleFrames(fs, to, produced, want), to + produced, f.vars, f.temps, TRUE)
         ELSE Rewritten(fs, SettleFrames(fs, to, produced, want), f.top, f.vars, f.temps + want, f.spread)
<1>1. IsRow(f)
  BY ChangedOnly
<1>2. CASE want = All
  <2>1. SettleFrames(fs, to, produced, want)
          = WithFrame(fs, Changed(f, to + produced, f.vars, f.temps, TRUE))
    BY <1>1, <1>2 DEF SettleFrames, IsRow
  <2> QED
    BY <1>2, <2>1, RowWith
<1>3. CASE want # All
  <2>1. SettleFrames(fs, to, produced, want)
          = WithFrame(fs, Changed(f, f.top, f.vars, f.temps + want, f.spread))
    BY <1>1, <1>3 DEF SettleFrames, IsRow
  <2> QED
    BY <1>3, <2>1, RowWith
<1> QED
  BY <1>2, <1>3

(* The slots a frame's extra arguments and temporaries are in.             *)
InRows(f, shapes, s) ==
  \/ f.base - f.varargs <= s /\ s < f.base
  \/ RowStart(f, shapes) <= s /\ s < RowStart(f, shapes) + Width(f, shapes)

Agree(v, w, f, shapes) == \A s \in Nat : InRows(f, shapes, s) => At(w, s) = At(v, s)

(* Where a frame's rows are.                                               *)
LEMMA RowBounds ==
  ASSUME NEW shapes, NEW wants, Bounded(shapes), NEW f, IsFrame(f, shapes, wants)
  PROVE  /\ f.base \in Nat /\ f.varargs \in Nat /\ f.varargs <= f.base
         /\ f.base - f.varargs \in Nat /\ f.ret_to \in Nat /\ f.ret_to < f.base - f.varargs
         /\ RowStart(f, shapes) \in Nat /\ f.base <= RowStart(f, shapes)
         /\ Width(f, shapes) \in Nat /\ f.temps \in Nat /\ f.temps <= Width(f, shapes)
         /\ f.top \in Nat /\ RowStart(f, shapes) + Width(f, shapes) <= f.top
         /\ Reach(f, shapes) = RowStart(f, shapes) + f.temps
<1>1. /\ f.base \in Nat /\ f.varargs \in Nat /\ f.temps \in Nat /\ f.top \in Nat /\ f.spread \in BOOLEAN
      /\ f.varargs <= f.base /\ f.ret_to \in Nat /\ f.ret_to < f.base - f.varargs
      /\ shapes[f.func].slots \in Nat /\ f.base + shapes[f.func].slots + f.temps <= f.top
  BY FrameBounds DEF IsFrame
<1> QED
  BY <1>1 DEF RowStart, Width, Reach

(* The same rows, the same call.                                           *)
LEMMA CallKept ==
  ASSUME NEW shapes, NEW wants, Bounded(shapes), NEW f, IsFrame(f, shapes, wants),
         NEW v, NEW w, Agree(v, w, f, shapes)
  PROVE  CallOf(w, f, shapes) = CallOf(v, f, shapes)
<1> DEFINE first == RowStart(f, shapes)
           n == Width(f, shapes)
           low == f.base - f.varargs
<1>1. /\ f.base \in Nat /\ f.varargs \in Nat /\ low \in Nat
      /\ first \in Nat /\ n \in Nat
  BY RowBounds
<1>2. Between(w, low, f.varargs) = Between(v, low, f.varargs)
  <2>1. \A s \in low .. low + f.varargs - 1 : At(w, s) = At(v, s)
    BY <1>1 DEF Agree, InRows
  <2> HIDE DEF low
  <2> QED
    BY <2>1, <1>1, BetweenKept
<1>3. Between(w, first, n) = Between(v, first, n)
  <2> HIDE DEF first, n
  <2>1. \A s \in first .. first + n - 1 : At(w, s) = At(v, s)
    BY <1>1 DEF Agree, InRows, first, n
  <2> QED
    BY <2>1, <1>1, BetweenKept
<1> QED
  BY <1>2, <1>3 DEF CallOf

(* The rows of a frame that waits are below where its callee's results go. *)
LEMMA RowsBelow ==
  ASSUME NEW shapes, NEW wants, NEW height, Bounded(shapes),
         NEW fs, FramesOK(fs, shapes, wants, height), NEW j \in 1 .. Len(fs), NEW k \in 1 .. Len(fs), j < k,
         NEW s \in Nat, InRows(fs[j], shapes, s)
  PROVE  s < fs[k].ret_to
<1>1. /\ IsFrame(fs[j], shapes, wants) /\ IsFrame(fs[k], shapes, wants)
      /\ Reach(fs[j], shapes) <= fs[k].ret_to
  BY DEF FramesOK
<1>2. ~fs[j].spread
  <2>1. Len(fs) \in Nat
    BY DEF FramesOK, IsList
  <2>2. j \in 1 .. Len(fs) - 1
    BY <2>1
  <2> QED
    BY <2>2 DEF FramesOK, Nests
<1>3. Width(fs[j], shapes) = fs[j].temps
  BY <1>2 DEF Width
<1>4. fs[k].ret_to \in Nat /\ Reach(fs[j], shapes) = RowStart(fs[j], shapes) + fs[j].temps
      /\ fs[j].base <= RowStart(fs[j], shapes) /\ RowStart(fs[j], shapes) \in Nat /\ fs[j].base \in Nat
      /\ fs[j].temps \in Nat /\ fs[j].varargs \in Nat
  BY <1>1, RowBounds
<1> DEFINE b == fs[j].base
           e == fs[j].varargs
           n == fs[j].temps
           row == RowStart(fs[j], shapes)
           to == fs[k].ret_to
<1>5. /\ b \in Nat /\ e \in Nat /\ n \in Nat /\ row \in Nat /\ to \in Nat
      /\ b <= row /\ row + n <= to
  BY <1>1, <1>4
<1>6. \/ b - e <= s /\ s < b
      \/ row <= s /\ s < row + n
  BY <1>3 DEF InRows
<1> HIDE DEF b, e, n, row, to
<1>7. s < to
  BY ONLY <1>5, <1>6, s \in Nat
<1> QED
  BY <1>7 DEF to

(* A local's slot is in no frame's rows.                                   *)
LEMMA LocalNotInRows ==
  ASSUME NEW shapes, NEW wants, NEW height \in Nat, Bounded(shapes),
         NEW fs, FramesOK(fs, shapes, wants, height), NEW k \in 1 .. Len(fs), NEW j \in 1 .. Len(fs),
         NEW s \in Nat, fs[j].base <= s, s < RowStart(fs[j], shapes)
  PROVE  ~InRows(fs[k], shapes, s)
<1>1. IsFrame(fs[j], shapes, wants) /\ IsFrame(fs[k], shapes, wants)
  BY DEF FramesOK
<1>2. /\ fs[j].base \in Nat /\ fs[j].ret_to \in Nat /\ fs[j].varargs \in Nat /\ fs[j].temps \in Nat
      /\ fs[j].ret_to < fs[j].base - fs[j].varargs
      /\ Reach(fs[j], shapes) = RowStart(fs[j], shapes) + fs[j].temps /\ RowStart(fs[j], shapes) \in Nat
      /\ fs[k].base \in Nat /\ fs[k].ret_to \in Nat /\ fs[k].varargs \in Nat /\ fs[k].temps \in Nat
      /\ fs[k].ret_to < fs[k].base - fs[k].varargs
      /\ fs[k].base <= RowStart(fs[k], shapes) /\ RowStart(fs[k], shapes) \in Nat
  BY <1>1, RowBounds
<1>3. CASE j = k
  BY <1>3, <1>2 DEF InRows
<1>4. CASE j < k
  <2>1. Reach(fs[j], shapes) <= fs[k].ret_to
    BY <1>4 DEF FramesOK
  <2>2. s < fs[k].ret_to
    <3> DEFINE n == fs[j].temps
               row == RowStart(fs[j], shapes)
               to == fs[k].ret_to
    <3>1. n \in Nat /\ row \in Nat /\ to \in Nat /\ s < row /\ row + n <= to
      BY <2>1, <1>2
    <3> HIDE DEF n, row, to
    <3>2. s < to
      BY ONLY <3>1, s \in Nat
    <3> QED
      BY <3>2 DEF to
  <2>3. /\ fs[k].base \in Nat /\ fs[k].varargs \in Nat /\ fs[k].ret_to \in Nat
        /\ RowStart(fs[k], shapes) \in Nat
        /\ fs[k].ret_to < fs[k].base - fs[k].varargs /\ fs[k].base <= RowStart(fs[k], shapes)
    BY <1>2
  <2>4. s < fs[k].base - fs[k].varargs /\ s < RowStart(fs[k], shapes)
    <3> DEFINE b == fs[k].base
               e == fs[k].varargs
               to == fs[k].ret_to
               row == RowStart(fs[k], shapes)
    <3>1. s < to /\ b \in Nat /\ e \in Nat /\ to \in Nat /\ row \in Nat /\ to < b - e /\ b <= row
      BY <2>2, <2>3
    <3> HIDE DEF b, e, to, row
    <3>2. s < b - e /\ s < row
      BY ONLY <3>1, s \in Nat
    <3> QED
      BY <3>2 DEF b, e, to, row
  <2> QED
    BY <2>3, <2>4 DEF InRows
<1>5. CASE k < j
  <2>1. InRows(fs[k], shapes, s) => s < fs[j].ret_to
    BY <1>5, RowsBelow
  <2>2. ~(s < fs[j].ret_to)
    <3> DEFINE b == fs[j].base
               e == fs[j].varargs
               to == fs[j].ret_to
    <3>1. b \in Nat /\ e \in Nat /\ to \in Nat /\ to < b - e /\ b <= s
      BY <1>2
    <3> HIDE DEF b, e, to
    <3>2. ~(s < to)
      BY ONLY <3>1, s \in Nat
    <3> QED
      BY <3>2 DEF to
  <2> QED
    BY <2>1, <2>2
<1> QED
  BY <1>3, <1>4, <1>5

-----------------------------------------------------------------------------
(* The innermost call with other variables and temporaries.                *)
Recalled(cs, variables, temps) ==
  [k \in 1 .. Len(cs) |->
     IF k = Len(cs)
     THEN [func |-> cs[k].func, vars |-> variables, extra |-> cs[k].extra, temps |-> temps,
           want |-> cs[k].want]
     ELSE cs[k]]

(* The calls, one by one.                                                  *)
CallsListed(v, fs, shapes) ==
  LET cs == CallsIn(v, fs, shapes)
  IN  /\ IsList(cs) /\ Len(cs) = Len(fs) /\ cs = [k \in 1 .. Len(fs) |-> cs[k]]
      /\ \A k \in 1 .. Len(fs) : cs[k] = CallOf(v, fs[k], shapes)
      /\ fs = <<>> => cs = <<>>
      /\ fs # <<>> => cs # <<>> /\ Len(fs) \in Nat \ {0} /\ Len(fs) \in 1 .. Len(fs)

(* The calls of a list of frames are a list, one for each.                 *)
LEMMA CallsAre ==
  ASSUME NEW v, NEW fs, IsList(fs), NEW shapes
  PROVE  CallsListed(v, fs, shapes)
<1> DEFINE cs == CallsIn(v, fs, shapes)
<1>1. Len(fs) \in Nat
  BY DEF IsList
<1>2. cs = [k \in 1 .. Len(fs) |-> cs[k]] /\ \A k \in 1 .. Len(fs) : cs[k] = CallOf(v, fs[k], shapes)
  BY DEF CallsIn
<1> HIDE DEF cs
<1>3. IsList(cs) /\ Len(cs) = Len(fs)
  BY <1>1, <1>2, ListOf
<1>4. fs = <<>> <=> Len(fs) = 0
  BY DEF IsList
<1>5. cs = <<>> <=> Len(cs) = 0
  BY <1>3 DEF IsList
<1> QED
  BY <1>1, <1>2, <1>3, <1>4, <1>5 DEF cs, CallsListed

(* The ways Lua's steps put it.                                            *)
AreCalls(cs, n) ==
  /\ n = Len(cs) /\ n \in 1 .. n /\ cs = [k \in 1 .. n |-> cs[k]]
  /\ cs[n] = [func |-> cs[n].func, vars |-> cs[n].vars, extra |-> cs[n].extra,
              temps |-> cs[n].temps, want |-> cs[n].want]

Recalls(cs, n) ==
  /\ \A t : [cs EXCEPT ![n].temps = t] = Recalled(cs, cs[n].vars, t)
  /\ \A x : [cs EXCEPT ![n].vars = x] = Recalled(cs, x, cs[n].temps)
  /\ \A x, t : [cs EXCEPT ![n] = [cs[n] EXCEPT !.vars = x, !.temps = t]] = Recalled(cs, x, t)

(* A change of the innermost call's temporaries, variables or both, as     *)
(* EXCEPT writes it, is that one change.                                   *)
LEMMA RecalledIs ==
  ASSUME NEW cs, NEW n, AreCalls(cs, n)
  PROVE  Recalls(cs, n)
<1>1. n = Len(cs) /\ n \in 1 .. n
  BY DEF AreCalls
<1>2. cs = [k \in 1 .. n |-> cs[k]]
  BY DEF AreCalls
<1>3. cs[n] = [func |-> cs[n].func, vars |-> cs[n].vars, extra |-> cs[n].extra,
               temps |-> cs[n].temps, want |-> cs[n].want]
  BY DEF AreCalls
<1>4. \A y : [cs EXCEPT ![n] = y] = [k \in 1 .. n |-> IF k = n THEN y ELSE cs[k]]
  BY <1>1, <1>2
<1>5. ASSUME NEW t
      PROVE  [cs EXCEPT ![n].temps = t] = Recalled(cs, cs[n].vars, t)
  <2>1. [cs[n] EXCEPT !.temps = t] =
          [func |-> cs[n].func, vars |-> cs[n].vars, extra |-> cs[n].extra, temps |-> t,
           want |-> cs[n].want]
    BY <1>3
  <2>2. [cs EXCEPT ![n].temps = t] = [cs EXCEPT ![n] = [cs[n] EXCEPT !.temps = t]]
    OBVIOUS
  <2> QED
    BY <2>1, <2>2, <1>1, <1>4 DEF Recalled
<1>6. ASSUME NEW x
      PROVE  [cs EXCEPT ![n].vars = x] = Recalled(cs, x, cs[n].temps)
  <2>1. [cs[n] EXCEPT !.vars = x] =
          [func |-> cs[n].func, vars |-> x, extra |-> cs[n].extra, temps |-> cs[n].temps,
           want |-> cs[n].want]
    BY <1>3
  <2>2. [cs EXCEPT ![n].vars = x] = [cs EXCEPT ![n] = [cs[n] EXCEPT !.vars = x]]
    OBVIOUS
  <2> QED
    BY <2>1, <2>2, <1>1, <1>4 DEF Recalled
<1>7. ASSUME NEW x, NEW t
      PROVE  [cs EXCEPT ![n] = [cs[n] EXCEPT !.vars = x, !.temps = t]] = Recalled(cs, x, t)
  <2>1. [cs[n] EXCEPT !.vars = x, !.temps = t] =
          [func |-> cs[n].func, vars |-> x, extra |-> cs[n].extra, temps |-> t,
           want |-> cs[n].want]
    <3> DEFINE r == [cs[n] EXCEPT !.vars = x]
    <3>1. r = [func |-> cs[n].func, vars |-> x, extra |-> cs[n].extra, temps |-> cs[n].temps,
               want |-> cs[n].want]
      BY <1>3
    <3>2. [cs[n] EXCEPT !.vars = x, !.temps = t] = [r EXCEPT !.temps = t]
      OBVIOUS
    <3> HIDE DEF r
    <3>3. [r EXCEPT !.temps = t] = [func |-> cs[n].func, vars |-> x, extra |-> cs[n].extra,
                                   temps |-> t, want |-> cs[n].want]
      BY <3>1
    <3> QED
      BY <3>2, <3>3
  <2> QED
    BY <2>1, <1>1, <1>4 DEF Recalled
<1> QED
  BY <1>5, <1>6, <1>7 DEF Recalls

(* The extra arguments' slots.                                             *)
ExtrasKept(v, w, f) ==
  \A s \in Nat : f.base - f.varargs <= s /\ s < f.base => At(w, s) = At(v, s)

(* The last frame's row changed, the slots of the others' rows kept: the   *)
(* calls are the same, but for what the innermost one's row now holds.     *)
LEMMA CallsRewritten ==
  ASSUME NEW shapes, NEW wants, NEW height, Bounded(shapes), NEW fs, FramesOK(fs, shapes, wants, height),
         NEW more, Extends(shapes, more),
         NEW gs, NEW top, NEW variables, NEW temps, NEW spread,
         Rewritten(fs, gs, top, variables, temps, spread),
         NEW v, NEW w, NEW f, f = fs[Len(fs)], ExtrasKept(v, w, f),
         \A k \in 1 .. Len(fs) - 1 : Agree(v, w, fs[k], shapes),
         NEW n, n = IF spread THEN top - RowStart(f, shapes) ELSE temps
  PROVE  CallsIn(w, gs, more)
           = Recalled(CallsIn(v, fs, shapes), variables, Between(w, RowStart(f, shapes), n))
<1> DEFINE cs == CallsIn(v, fs, shapes)
           ds == CallsIn(w, gs, more)
           last == Len(fs)
           g == gs[last]
<1>1. /\ last \in Nat \ {0} /\ last \in 1 .. last /\ Len(gs) = last /\ IsList(gs) /\ IsList(fs)
      /\ \A k \in 1 .. last - 1 : gs[k] = fs[k]
      /\ ChangedTo(f, g, top, variables, temps, spread)
  BY DEF Rewritten, FramesOK
<1>2. \A k \in 1 .. last : IsFrame(fs[k], shapes, wants) /\ fs[k].func \in DOMAIN shapes
  BY FrameBounds DEF FramesOK
<1>3. /\ Len(cs) = last /\ \A k \in 1 .. last : cs[k] = CallOf(v, fs[k], shapes)
      /\ IsList(ds) /\ Len(ds) = last /\ \A k \in 1 .. last : ds[k] = CallOf(w, gs[k], more)
  <2>1. Len(cs) = Len(fs) /\ \A k \in 1 .. Len(fs) : cs[k] = CallOf(v, fs[k], shapes)
    BY <1>1, CallsAre DEF CallsListed
  <2>2. IsList(ds) /\ Len(ds) = Len(gs) /\ \A k \in 1 .. Len(gs) : ds[k] = CallOf(w, gs[k], more)
    BY <1>1, CallsAre DEF CallsListed
  <2> HIDE DEF cs, ds
  <2> QED
    BY <2>1, <2>2, <1>1
<1>4. ASSUME NEW k \in 1 .. last, k # last
      PROVE  ds[k] = cs[k]
  <2>1. k \in 1 .. last - 1
    BY <1>4, <1>1
  <2>2. gs[k] = fs[k] /\ more[fs[k].func] = shapes[fs[k].func]
    BY <2>1, <1>1, <1>2 DEF Extends
  <2>3. CallOf(w, fs[k], shapes) = CallOf(v, fs[k], shapes)
    BY <2>1, <1>2, CallKept
  <2>4. CallOf(w, fs[k], more) = CallOf(w, fs[k], shapes)
    BY <2>2 DEF CallOf, RowStart, Width
  <2> QED
    BY <2>2, <2>3, <2>4, <1>3
<1>5. ds[last] = [func |-> cs[last].func, vars |-> variables, extra |-> cs[last].extra,
                  temps |-> Between(w, RowStart(f, shapes), n), want |-> cs[last].want]
  <2>1. more[f.func] = shapes[f.func]
    BY <1>1, <1>2 DEF Extends
  <2>2. /\ g.func = f.func /\ g.base = f.base /\ g.varargs = f.varargs /\ g.want = f.want
        /\ g.top = top /\ g.vars = variables /\ g.temps = temps /\ g.spread = spread
    BY <1>1 DEF ChangedTo
  <2>3. RowStart(g, more) = RowStart(f, shapes) /\ Width(g, more) = n
    BY <2>1, <2>2 DEF RowStart, Width
  <2>4. Between(w, f.base - f.varargs, f.varargs) = Between(v, f.base - f.varargs, f.varargs)
    <3> DEFINE low == f.base - f.varargs
    <3>1. f.base \in Nat /\ f.varargs \in Nat /\ low \in Nat /\ low + f.varargs = f.base
      BY <1>1, <1>2, RowBounds
    <3>2. \A s \in low .. low + f.varargs - 1 : At(w, s) = At(v, s)
      BY <3>1 DEF ExtrasKept
    <3> HIDE DEF low
    <3>3. Between(w, low, f.varargs) = Between(v, low, f.varargs)
      BY <3>1, <3>2, BetweenKept
    <3> QED
      BY <3>3 DEF low
  <2>5. cs[last] = CallOf(v, f, shapes) /\ ds[last] = CallOf(w, g, more)
    BY <1>1, <1>3
  <2> HIDE DEF cs, ds, g, last
  <2> QED
    BY <2>2, <2>3, <2>4, <2>5 DEF CallOf
<1>6. ds = [k \in 1 .. last |-> ds[k]]
  BY <1>3 DEF IsList
<1>7. ds = Recalled(cs, variables, Between(w, RowStart(f, shapes), n))
  <2> HIDE DEF cs, ds
  <2> QED
    BY <1>3, <1>4, <1>5, <1>6 DEF Recalled
<1> QED
  BY <1>7 DEF cs, ds

-----------------------------------------------------------------------------
(* The last frame's row changed, not its locals, or only to fewer.         *)
LEMMA RewrittenWithin ==
  ASSUME NEW fs, NEW gs, NEW top, NEW variables, NEW temps, NEW spread,
         Rewritten(fs, gs, top, variables, temps, spread),
         \A i \in 1 .. Len(variables) :
           i \in 1 .. Len(fs[Len(fs)].vars) /\ variables[i] = fs[Len(fs)].vars[i]
  PROVE  Within(fs, gs)
<1> DEFINE n == Len(fs)
<1>1. /\ n \in Nat \ {0} /\ Len(gs) = n /\ \A k \in 1 .. n - 1 : gs[k] = fs[k]
      /\ gs[n].vars = variables
  BY DEF Rewritten, ChangedTo
<1>2. ASSUME NEW k \in 1 .. n, NEW i \in 1 .. Len(gs[k].vars)
      PROVE  i \in 1 .. Len(fs[k].vars) /\ gs[k].vars[i] = fs[k].vars[i]
  <2>1. CASE k = n
    BY <2>1, <1>1, <1>2
  <2>2. CASE k # n
    <3>1. k \in 1 .. n - 1
      BY <2>2, <1>1
    <3> QED
      BY <3>1, <1>1, <1>2
  <2> QED
    BY <2>1, <2>2
<1> QED
  BY <1>1, <1>2 DEF Within

(* No variable comes into scope, and no cell is closed: the links stay.    *)
LEMMA LinkedKept ==
  ASSUME Linked, Within(frames, frames'), Len(cells') = Len(cells),
         \A c \in 1 .. Len(cells) : cells'[c].kind = cells[c].kind,
         owner' = owner, functions' = functions
  PROVE  Linked'
<1>1. DEPTH \in Nat
  BY CountAssumption
<1>2. ScopeOpen(frames', cells', owner)
  BY ScopeKept DEF Linked, Links
<1> QED
  BY <1>1, <1>2, LinksFewer DEF Linked

(* What the running frame is, on both sides.                               *)
LEMMA InnermostIs ==
  ASSUME IInv, Running
  PROVE  /\ CallsNow = CallsIn(values, frames, Shapes) /\ ~Ended
         /\ Depth \in Nat \ {0} /\ Depth \in 1 .. Depth /\ Len(CallsNow) = Depth /\ CallsNow # <<>>
         /\ Lua!Innermost = CallOf(values, Current, Shapes)
         /\ Lua!Innermost.func = Current.func /\ Lua!Innermost.vars = Current.vars
         /\ Lua!Innermost.want = Current.want
         /\ Lua!Innermost.extra = Between(values, Current.base - Current.varargs, Current.varargs)
         /\ Lua!Innermost.temps = Between(values, RowStart(Current, Shapes), Width(Current, Shapes))
         /\ IsList(frames) /\ frames # <<>>
<1>1. ~Ended
  BY DEF Running, Ended
<1>2. CallsNow = CallsIn(values, frames, Shapes)
  BY <1>1, CallsNowIs
<1>3. IsList(frames) /\ frames # <<>>
  BY CurrentIs DEF FramesOK
<1>4. /\ Len(CallsNow) = Depth /\ CallsNow # <<>> /\ Depth \in Nat \ {0} /\ Depth \in 1 .. Depth
      /\ CallsNow[Depth] = CallOf(values, Current, Shapes)
  <2>1. /\ Len(CallsIn(values, frames, Shapes)) = Len(frames)
        /\ CallsIn(values, frames, Shapes) # <<>> /\ Len(frames) \in Nat \ {0}
        /\ Len(frames) \in 1 .. Len(frames)
        /\ \A k \in 1 .. Len(frames) :
             CallsIn(values, frames, Shapes)[k] = CallOf(values, frames[k], Shapes)
    <3>1. CallsListed(values, frames, Shapes)
      BY <1>3, CallsAre
    <3> QED
      BY <3>1, <1>3 DEF CallsListed
  <2> QED
    BY <2>1, <1>2 DEF Depth, Current
<1>5. Lua!Innermost = CallOf(values, Current, Shapes)
  BY <1>4 DEF Lua!Innermost
<1> QED
  BY <1>1, <1>2, <1>3, <1>4, <1>5 DEF CallOf

(* The next state's calls, from the row the running frame then has.        *)
LEMMA ContinueIs ==
  ASSUME IInv, Running
  PROVE  /\ \A t : Lua!Continue(t) = Recalled(CallsNow, Current.vars, t)
         /\ \A x, t : [CallsNow EXCEPT ![Len(CallsNow)] = [Lua!Innermost EXCEPT !.vars = x, !.temps = t]]
                        = Recalled(CallsNow, x, t)
         /\ \A x : [CallsNow EXCEPT ![Len(CallsNow)].vars = x]
                        = Recalled(CallsNow, x, Lua!Innermost.temps)
<1>1. /\ CallsNow = CallsIn(values, frames, Shapes) /\ IsList(frames) /\ frames # <<>>
      /\ Lua!Innermost.vars = Current.vars
  BY InnermostIs
<1>2. CallsNow[Len(CallsNow)] = Lua!Innermost
  BY DEF Lua!Innermost
<1> DEFINE n == Len(CallsNow)
<1>3. AreCalls(CallsNow, n)
  <2>1. n = Depth /\ n \in 1 .. n /\ CallsNow[n] = CallOf(values, Current, Shapes)
    BY <1>2, InnermostIs
  <2>2. CallsNow = [k \in 1 .. n |-> CallsNow[k]]
    BY <1>1, <2>1 DEF CallsIn, Depth
  <2> QED
    BY <2>1, <2>2 DEF AreCalls, CallOf
<1>4. Recalls(CallsNow, n)
  <2> HIDE DEF n
  <2> QED
    BY <1>3, RecalledIs
<1>5. \A u : Lua!Continue(u) = Recalled(CallsNow, Current.vars, u)
  BY <1>1, <1>2, <1>4 DEF Lua!Continue, Recalls
<1>6. \A x, u : [CallsNow EXCEPT ![n] = [CallsNow[n] EXCEPT !.vars = x, !.temps = u]]
                  = Recalled(CallsNow, x, u)
  <2> HIDE DEF n
  <2> QED
    BY <1>4 DEF Recalls
<1>7. \A x : [CallsNow EXCEPT ![n].vars = x] = Recalled(CallsNow, x, CallsNow[n].temps)
  <2> HIDE DEF n
  <2> QED
    BY <1>4 DEF Recalls
<1> QED
  BY <1>2, <1>5, <1>6, <1>7

(* Which slots of the stack are locals, and what they hold.                *)
LocalsKept(v, w, fs) ==
  \A k \in 1 .. Len(fs) : \A i \in 1 .. Len(fs[k].vars) :
    At(w, fs[k].base + i - 1) = At(v, fs[k].base + i - 1)

(* The same locals, the same cells: the same store.                        *)
LEMMA SameStore ==
  ASSUME NEW st, NEW v, NEW fs, NEW cs, NEW owners, StoreIs(st, v, fs, cs, owners),
         NEW w, LocalsKept(v, w, fs), NEW gs, Len(gs) = Len(fs),
         \A k \in 1 .. Len(fs) : gs[k].vars = fs[k].vars /\ gs[k].base = fs[k].base
  PROVE  StoreIs(st, w, gs, cs, owners)
<1>1. \A x : x \in Used(gs, owners) <=> x \in Used(fs, owners)
  BY InUseIs
<1>2. Used(gs, owners) = Used(fs, owners)
  BY <1>1
<1> QED
  BY <1>2 DEF StoreIs, LocalsKept

(* A change of the last frame's row alone is of no frame's locals.         *)
LEMMA RewrittenLocals ==
  ASSUME NEW fs, NEW gs, NEW top, NEW variables, NEW temps, NEW spread,
         Rewritten(fs, gs, top, variables, temps, spread), variables = fs[Len(fs)].vars
  PROVE  Len(gs) = Len(fs) /\ \A k \in 1 .. Len(fs) : gs[k].vars = fs[k].vars /\ gs[k].base = fs[k].base
<1> DEFINE n == Len(fs)
<1>1. /\ n \in Nat \ {0} /\ Len(gs) = n /\ \A k \in 1 .. n - 1 : gs[k] = fs[k]
      /\ gs[n].vars = fs[n].vars /\ gs[n].base = fs[n].base
  BY DEF Rewritten, ChangedTo
<1>2. \A k \in 1 .. n : k = n \/ k \in 1 .. n - 1
  BY <1>1
<1> QED
  BY <1>1, <1>2

-----------------------------------------------------------------------------
(* Written above the running frame's locals: what Lua sees is as it was,   *)
(* but for the running frame's temporaries.                                *)
LEMMA AboveLocals ==
  ASSUME IInv, Running, NEW w, NEW from \in Nat, RowStart(Current, Shapes) <= from,
         Untouched(values, w, from)
  PROVE  /\ ExtrasKept(values, w, Current) /\ LocalsKept(values, w, frames)
         /\ \A k \in 1 .. Depth - 1 : Agree(values, w, frames[k], Shapes)
<1>1. /\ Bounded(Shapes) /\ FramesOK(frames, Shapes, Wants, Len(values)) /\ Len(values) \in Nat
      /\ Depth \in Nat \ {0} /\ Depth \in 1 .. Depth /\ IsFrame(Current, Shapes, Wants)
  BY CurrentIs
<1>2. /\ Current.base \in Nat /\ RowStart(Current, Shapes) \in Nat /\ Current.ret_to \in Nat
      /\ Current.base <= RowStart(Current, Shapes) /\ Current.ret_to < Current.base - Current.varargs
      /\ Current.varargs \in Nat
  BY <1>1, RowBounds
<1>3. ExtrasKept(values, w, Current)
  BY <1>2 DEF ExtrasKept, Untouched
<1>4. ASSUME NEW k \in 1 .. Depth - 1
      PROVE  Agree(values, w, frames[k], Shapes)
  <2>1. k \in 1 .. Len(frames) /\ Len(frames) \in 1 .. Len(frames) /\ k < Len(frames)
    BY <1>1, <1>4 DEF Depth
  <2>2. ASSUME NEW s \in Nat, InRows(frames[k], Shapes, s)
        PROVE  At(w, s) = At(values, s)
    <3>1. s < frames[Len(frames)].ret_to
      BY <1>1, <2>1, <2>2, RowsBelow
    <3>2. s < from
      BY <3>1, <1>2 DEF Current, Depth
    <3> QED
      BY <3>2 DEF Untouched
  <2> QED
    BY <2>2 DEF Agree
<1>5. ASSUME NEW k \in 1 .. Len(frames), NEW i \in 1 .. Len(frames[k].vars)
      PROVE  At(w, frames[k].base + i - 1) = At(values, frames[k].base + i - 1)
  <2> DEFINE s == frames[k].base + i - 1
  <2>1. s \in Nat /\ s < frames[k].base + Shapes[frames[k].func].slots
    BY <1>1, <1>5, LocalAt
  <2>2. CASE k = Depth
    <3>1. s < RowStart(Current, Shapes)
      BY <2>1, <2>2 DEF RowStart, Current
    <3> HIDE DEF s
    <3>2. s < from
      BY <3>1, <2>1, <1>2
    <3>3. At(w, s) = At(values, s)
      BY <3>2, <2>1 DEF Untouched
    <3> QED
      BY <3>3 DEF s
  <2>3. CASE k # Depth
    <3>1. k < Depth /\ Depth \in 1 .. Len(frames)
      BY <2>3, <1>1, <1>5 DEF Depth
    <3>2. frames[k].base + Shapes[frames[k].func].slots < Current.base
      BY <3>1, <1>1, <1>5, FramesApart DEF Current
    <3>3. frames[k].base + Shapes[frames[k].func].slots \in Nat
      <4>1. IsFrame(frames[k], Shapes, Wants)
        BY <1>1, <1>5 DEF FramesOK
      <4>2. RowStart(frames[k], Shapes) \in Nat
        BY <4>1, <1>1, RowBounds
      <4> QED
        BY <4>2 DEF RowStart
    <3> HIDE DEF s
    <3>4. s < from
      BY <3>2, <3>3, <2>1, <1>2
    <3>5. At(w, s) = At(values, s)
      BY <3>4, <2>1 DEF Untouched
    <3> QED
      BY <3>5 DEF s
  <2> QED
    BY <2>2, <2>3
<1>6. LocalsKept(values, w, frames)
  BY <1>5 DEF LocalsKept
<1> QED
  BY <1>3, <1>4, <1>6

(* The calls go on with other temporaries in the innermost one, what its   *)
(* row now holds.                                                          *)
RowHolds(n) ==
  CallsNow' = Lua!Continue(Between(values', RowStart(Current, Shapes), n)) /\ StoreNow' = StoreNow

(* An instruction that writes temporaries alone, and changes no cell.      *)
LEMMA RowStep ==
  ASSUME IInv, IInv', Linked, Linked', Running, UNCHANGED <<cells, owner, functions, outcome, program>>,
         NEW top, NEW temps, NEW spread, Rewritten(frames, frames', top, Current.vars, temps, spread),
         NEW from \in Nat, RowStart(Current, Shapes) <= from, Untouched(values, values', from),
         NEW n, n = IF spread THEN top - RowStart(Current, Shapes) ELSE temps
  PROVE  RowHolds(n)
<1>1. /\ Bounded(Shapes) /\ FramesOK(frames, Shapes, Wants, Len(values))
      /\ Depth \in Nat \ {0}
  BY CurrentIs
<1>2. /\ ExtrasKept(values, values', Current) /\ LocalsKept(values, values', frames)
      /\ \A k \in 1 .. Depth - 1 : Agree(values, values', frames[k], Shapes)
  BY AboveLocals
<1>3. ~Ended /\ ~Ended'
  BY DEF Running, Ended
<1>4. Shapes' = Shapes
  BY DEF Shapes
<1>5. CallsIn(values', frames', Shapes)
        = Recalled(CallsIn(values, frames, Shapes), Current.vars,
                   Between(values', RowStart(Current, Shapes), n))
  <2>1. Extends(Shapes, Shapes)
    BY DEF Extends
  <2>2. Current = frames[Len(frames)] /\ \A k \in 1 .. Len(frames) - 1 : Agree(values, values', frames[k], Shapes)
    BY <1>2 DEF Current, Depth
  <2> QED
    BY <1>1, <1>2, <2>1, <2>2, CallsRewritten
<1>6. CallsNow' = Lua!Continue(Between(values', RowStart(Current, Shapes), n))
  <2>1. CallsNow' = CallsIn(values', frames', Shapes)
    BY <1>3, <1>4, CallsAfter
  <2>2. CallsNow = CallsIn(values, frames, Shapes)
    BY <1>3, CallsNowIs
  <2> QED
    BY <1>5, <2>1, <2>2, ContinueIs
<1>7. StoreNow' = StoreNow
  <2>1. StoreIs(StoreNow, values, frames, cells, owner)
    BY <1>3, StoreNowIs
  <2>2. Current.vars = frames[Len(frames)].vars
    BY DEF Current, Depth
  <2>3. Len(frames') = Len(frames)
        /\ \A k \in 1 .. Len(frames) : frames'[k].vars = frames[k].vars /\ frames'[k].base = frames[k].base
    BY <2>2, RewrittenLocals
  <2>4. StoreIs(StoreNow, values', frames', cells, owner)
    BY <1>2, <2>1, <2>3, SameStore
  <2>5. StoreIs(StoreNow, values', frames', cells', owner')
    BY <2>4
  <2> QED
    BY <1>3, <2>5, StoreAfter
<1> QED
  BY <1>6, <1>7 DEF RowHolds

(* A change of the running frame's row links nothing anew.                 *)
LEMMA RowLinked ==
  ASSUME IInv, Linked, Running, UNCHANGED <<cells, owner, functions>>,
         NEW top, NEW temps, NEW spread, Rewritten(frames, frames', top, Current.vars, temps, spread)
  PROVE  Linked'
<1>1. Within(frames, frames')
  <2>1. Current.vars = frames[Len(frames)].vars
    BY DEF Current, Depth
  <2> QED
    BY <2>1, RewrittenWithin
<1> QED
  BY <1>1, LinkedKept

(* Where the running frame's temporaries are.                              *)
LEMMA RunningRow ==
  ASSUME IInv, Running
  PROVE  /\ RowStart(Current, Shapes) \in Nat /\ Current.temps \in Nat /\ Current.spread \in BOOLEAN
         /\ Current.base \in Nat /\ Current.base <= RowStart(Current, Shapes)
         /\ RowStart(Current, Shapes) = Current.base + ProtoOf(Current).slots
         /\ Width(Current, Shapes) \in Nat /\ Current.temps <= Width(Current, Shapes)
         /\ ~Current.spread => Width(Current, Shapes) = Current.temps
         /\ Current.spread => Width(Current, Shapes) = Current.top - RowStart(Current, Shapes)
         /\ RowStart(Current, Shapes) + Width(Current, Shapes) <= Len(values)
         /\ RowStart(Current, Shapes) + Current.temps <= Len(values) /\ Len(values) \in Nat
         /\ \A t \in Nat : TempSlot(Current, t) = RowStart(Current, Shapes) + t - 1
<1>1. /\ Bounded(Shapes) /\ IsFrame(Current, Shapes, Wants) /\ ProtoOf(Current) = Shapes[Current.func]
      /\ Current.top <= Len(values) /\ Len(values) \in Nat
  BY CurrentIs
<1>2. /\ RowStart(Current, Shapes) \in Nat /\ Current.temps \in Nat /\ Current.base \in Nat
      /\ Current.base <= RowStart(Current, Shapes) /\ Width(Current, Shapes) \in Nat
      /\ Current.temps <= Width(Current, Shapes) /\ Current.top \in Nat
      /\ RowStart(Current, Shapes) + Width(Current, Shapes) <= Current.top
  BY <1>1, RowBounds
<1>3. Current.spread \in BOOLEAN /\ ProtoOf(Current).slots \in Nat
  BY CurrentBounds
<1>4. RowStart(Current, Shapes) = Current.base + ProtoOf(Current).slots
  BY <1>1 DEF RowStart
<1> QED
  BY <1>1, <1>2, <1>3, <1>4 DEF Width, TempSlot

(* One slot of the stack written.                                          *)
LEMMA PutAt ==
  ASSUME NEW S, NEW v \in Seq(S), NEW slot \in Nat, slot < Len(v), NEW x
  PROVE  /\ At(Put(v, slot, x), slot) = x /\ Untouched(v, Put(v, slot, x), slot)
         /\ \A s \in Nat : s # slot => At(Put(v, slot, x), s) = At(v, s)
<1>1. v \in Seq(S \cup {x})
  OBVIOUS
<1> DEFINE w == Put(v, slot, x)
<1>2. At(w, slot) = x /\ \A s \in Nat : s # slot => At(w, s) = At(v, s)
  <2>1. x \in S \cup {x}
    OBVIOUS
  <2> QED
    BY <1>1, <2>1, PutKeeps
<1> HIDE DEF w
<1>3. Untouched(v, w, slot)
  BY <1>2 DEF Untouched
<1> QED
  BY <1>2, <1>3 DEF w

(* The next temporary is written.                                          *)
LEMMA EvaluateRow ==
  ASSUME IInv, Running, NEW v, Evaluate(v)
  PROVE  /\ Rewritten(frames, frames', Current.top, Current.vars, Current.temps + 1, FALSE)
         /\ Untouched(values, values', RowStart(Current, Shapes) + Current.temps)
         /\ At(values', RowStart(Current, Shapes) + Current.temps) = v
         /\ ~Current.spread
<1> DEFINE t == Current.temps + 1
           slot == TempSlot(Current, t)
<1>1. /\ RowStart(Current, Shapes) \in Nat /\ Current.temps \in Nat /\ Current.spread = FALSE
      /\ slot = RowStart(Current, Shapes) + Current.temps
      /\ RowStart(Current, Shapes) = Current.base + ProtoOf(Current).slots
  <2>1. ~Current.spread
    BY DEF Evaluate
  <2> QED
    BY <2>1, RunningRow DEF TempSlot
<1>2. slot < Len(values)
  <2>1. /\ ProtoOf(Current).slots \in Nat /\ ProtoOf(Current).registers \in Nat
        /\ Current.base \in Nat /\ Len(values) \in Nat
        /\ Current.base + ProtoOf(Current).registers <= Len(values)
    BY CurrentBounds
  <2>2. ProtoOf(Current).slots + t - 1 + 1 <= ProtoOf(Current).registers
    BY DEF Evaluate, Fits
  <2> QED
    BY <1>1, <2>1, <2>2
<1>3. /\ values' = Put(values, slot, v) /\ values \in Seq(Holds)
      /\ frames' = WithFrame(frames, [Current EXCEPT !.temps = t])
  BY CurrentIs DEF Evaluate
<1>4. /\ At(values', slot) = v /\ Untouched(values, values', slot)
  <2> HIDE DEF slot
  <2>1. slot \in Nat
    BY <1>1
  <2> QED
    BY <1>2, <1>3, <2>1, PutAt
<1>5. Rewritten(frames, frames', Current.top, Current.vars, t, FALSE)
  <2>1. /\ IsFrame(Current, Shapes, Wants) /\ IsList(frames) /\ frames # <<>>
        /\ Current = frames[Len(frames)]
    BY CurrentIs DEF FramesOK, Current, Depth
  <2>2. IsRow(Current)
    BY <2>1, ChangedOnly
  <2> HIDE DEF t
  <2>3. [Current EXCEPT !.temps = t] = Changed(Current, Current.top, Current.vars, t, FALSE)
    BY <1>1, <2>2 DEF IsRow
  <2> QED
    BY <1>3, <2>1, <2>3, RowWith
<1> QED
  BY <1>1, <1>4, <1>5

(* What an instruction that evaluates leaves, in Lua's terms.              *)
Evaluated(v) ==
  /\ Linked' /\ StoreNow' = StoreNow /\ ClosuresNow' = ClosuresNow
  /\ CallsNow' = Lua!Continue(Append(Lua!Innermost.temps, v))

(* An instruction that writes one register evaluates one value.            *)
LEMMA EvaluateMapped ==
  ASSUME IInv, IInv', Linked, Running, NEW v, Evaluate(v),
         UNCHANGED <<cells, owner, functions, outcome, program>>
  PROVE  Evaluated(v)
<1> DEFINE first == RowStart(Current, Shapes)
           t == Current.temps
<1>1. /\ Rewritten(frames, frames', Current.top, Current.vars, t + 1, FALSE)
      /\ Untouched(values, values', first + t) /\ At(values', first + t) = v /\ ~Current.spread
  BY EvaluateRow
<1>2. first \in Nat /\ t \in Nat /\ Width(Current, Shapes) = t
  BY <1>1, RunningRow
<1>3. Linked'
  BY <1>1, RowLinked
<1>4. RowHolds(t + 1)
  <2>1. first + t \in Nat /\ RowStart(Current, Shapes) <= first + t
    BY <1>2
  <2> HIDE DEF first, t
  <2> QED
    BY <1>1, <1>3, <2>1, RowStep
<1>5. Between(values', first, t + 1) = Append(Between(values, first, t), v)
  <2> HIDE DEF first, t
  <2>1. Untouched(values, values', first + t) /\ first \in Nat /\ t \in Nat
    BY <1>1, <1>2
  <2>2. Between(values', first, t + 1) = Append(Between(values, first, t), At(values', first + t))
    BY <2>1, BetweenNext
  <2> QED
    BY <2>2, <1>1
<1>6. Lua!Innermost.temps = Between(values, first, t)
  BY <1>2, InnermostIs
<1>7. ClosuresNow' = ClosuresNow
  BY DEF ClosuresNow, VariablesOf
<1> QED
  BY <1>3, <1>4, <1>5, <1>6, <1>7 DEF Evaluated, RowHolds

-----------------------------------------------------------------------------
(* What a step of the machine is to be: one of Lua's, the links kept.      *)
Implements == Linked' /\ Lua!LuaNext

(* The running call, on Lua's side.                                        *)
LEMMA RunningMaps ==
  ASSUME IInv, Running
  PROVE  Lua!Running
BY InnermostIs DEF Lua!Running, Running

(* The functions made, on Lua's side.                                      *)
ClosureIs(f) ==
  /\ ClosuresNow[f].proto = functions[f].proto
  /\ IsList(ClosuresNow[f].upvals) /\ Len(ClosuresNow[f].upvals) = Len(functions[f].upvals)
  /\ \A j \in 1 .. Len(functions[f].upvals) :
       /\ functions[f].upvals[j] \in 1 .. Len(cells)
       /\ ClosuresNow[f].upvals[j] = owner[functions[f].upvals[j]]
  /\ Lua!Shape(f) = Shapes[f]

(* Each function made has its prototype and the variables its cells are    *)
(* for.                                                                    *)
LEMMA ClosuresAre ==
  ASSUME IInv
  PROVE  /\ IsList(ClosuresNow) /\ Len(ClosuresNow) = Len(functions)
         /\ \A f \in 1 .. Len(functions) : ClosureIs(f)
<1>1. /\ Len(functions) \in Nat /\ ArenasOK(functions, cells, packs, program) /\ program \in Programs
  BY ArenaLists
<1>2. ClosuresNow = [f \in 1 .. Len(functions) |-> VariablesOf(functions[f])]
  BY DEF ClosuresNow
<1>3. \A f \in 1 .. Len(functions) : ClosuresNow[f] = VariablesOf(functions[f])
  BY <1>2
<1>4. IsList(ClosuresNow) /\ Len(ClosuresNow) = Len(functions)
  <2>1. ClosuresNow = [f \in 1 .. Len(functions) |-> ClosuresNow[f]]
    BY <1>2
  <2> QED
    BY <1>1, <2>1, ListOf
<1>5. ASSUME NEW f \in 1 .. Len(functions)
      PROVE  ClosureIs(f)
  <2> DEFINE up == functions[f].upvals
  <2>1. up \in Seq(1 .. Len(cells)) /\ Shapes[f] = program.protos[functions[f].proto]
    BY <1>1, ArenaBounds DEF Shapes
  <2>2. Len(up) \in Nat /\ \A j \in 1 .. Len(up) : up[j] \in 1 .. Len(cells)
    BY <2>1
  <2>3. /\ ClosuresNow[f].proto = functions[f].proto
        /\ ClosuresNow[f].upvals = [j \in 1 .. Len(up) |-> owner[up[j]]]
    <3> DEFINE r == [j \in 1 .. Len(up) |-> owner[up[j]]]
    <3>1. ClosuresNow[f] = [proto |-> functions[f].proto, upvals |-> r]
      BY <1>3 DEF VariablesOf
    <3> HIDE DEF r
    <3>2. ClosuresNow[f].proto = functions[f].proto /\ ClosuresNow[f].upvals = r
      BY <3>1
    <3> QED
      BY <3>2 DEF r
  <2>4. IsList(ClosuresNow[f].upvals) /\ Len(ClosuresNow[f].upvals) = Len(up)
    <3> DEFINE s == ClosuresNow[f].upvals
    <3>1. s = [j \in 1 .. Len(up) |-> s[j]]
      BY <2>3
    <3> HIDE DEF s
    <3>2. IsList(s) /\ Len(s) = Len(up)
      BY <2>2, <3>1, ListOf
    <3> QED
      BY <3>2 DEF s
  <2>5. \A j \in 1 .. Len(up) : ClosuresNow[f].upvals[j] = owner[up[j]]
    BY <2>3
  <2>6. Lua!Shape(f) = Shapes[f]
    BY <2>1, <2>3 DEF Lua!Shape, Lua!Proto
  <2> QED
    BY <2>2, <2>3, <2>4, <2>5, <2>6 DEF ClosureIs
<1> QED
  BY <1>4, <1>5

(* What an upvalue's cell stands for is its variable's value.              *)
LEMMA CellValue ==
  ASSUME IInv, Linked, ~Ended, NEW c \in 1 .. Len(cells)
  PROVE  StoreNow[owner[c]] = IF cells[c].kind = "Open" THEN At(values, cells[c].slot) ELSE cells[c].value
<1>1. StoreIs(StoreNow, values, frames, cells, owner)
  BY StoreNowIs
<1>2. OpenOK(open, cells, owner, frames, Shapes) /\ IsCell(cells[c], Holds)
  BY ArenaLists DEF IInv, Sound, ArenasOK, Shapes, Holds
<1>3. CASE cells[c].kind = "Open"
  <2> DEFINE s == cells[c].slot
  <2>1. s \in DOMAIN open /\ open[s] = c
    BY <1>2, <1>3 DEF OpenOK
  <2>2. IsLocal(s, owner[c], frames)
    BY <1>2, <2>1 DEF OpenOK
  <2>3. PICK k \in 1 .. Len(frames) : \E i \in 1 .. Len(frames[k].vars) :
          s = frames[k].base + i - 1 /\ owner[c] = frames[k].vars[i]
    BY <2>2 DEF IsLocal
  <2> QED
    BY <2>3, <1>1, <1>3 DEF StoreIs
<1>4. CASE cells[c].kind # "Open"
  <2>1. cells[c].kind = "Closed"
    BY <1>2, <1>4 DEF IsCell
  <2> QED
    BY <2>1, <1>1, <1>4 DEF StoreIs
<1> QED
  BY <1>3, <1>4

(* A local's register is its variable's value.                             *)
LEMMA LocalValue ==
  ASSUME IInv, Linked, Running, NEW k \in 1 .. Len(Current.vars)
  PROVE  StoreNow[Current.vars[k]] = At(values, LocalSlot(Current, k))
<1>1. ~Ended /\ Depth \in 1 .. Depth
  BY InnermostIs
<1>2. StoreIs(StoreNow, values, frames, cells, owner)
  BY <1>1, StoreNowIs
<1> QED
  BY <1>1, <1>2 DEF StoreIs, Current, Depth, LocalSlot

(* Constants are evaluated.                                                *)
LEMMA LoadMaps ==
  ASSUME IInv, IInv', Linked, Running, NEW v \in Loads, Load(v), UNCHANGED program
  PROVE  Implements
<1>1. Evaluated(v)
  BY EvaluateMapped DEF Load, heap
<1>2. Lua!Evaluate(v)
  BY <1>1 DEF Evaluated, Lua!Evaluate, Load, heap
<1>3. v \in Plain \cup {Native} /\ Lua!Running
  BY PlainAssumption, RunningMaps
<1> QED
  BY <1>1, <1>2, <1>3 DEF Implements, Lua!LuaNext, Lua!LuaSteps, Evaluated

(* Locals are read.                                                        *)
LEMMA MoveFromLocalMaps ==
  ASSUME IInv, IInv', Linked, Running, NEW k \in 1 .. Len(Current.vars), MoveFromLocal(k),
         UNCHANGED program
  PROVE  Implements
<1> DEFINE v == At(values, LocalSlot(Current, k))
<1>1. Evaluated(v)
  <2> HIDE DEF v
  <2>1. Evaluate(v)
    BY DEF MoveFromLocal, v
  <2> QED
    BY <2>1, EvaluateMapped DEF MoveFromLocal, heap
<1>2. Lua!Innermost.vars = Current.vars /\ Lua!Running
  BY InnermostIs, RunningMaps
<1>3. Lua!ReadLocal(k)
  <2>1. StoreNow[Lua!Innermost.vars[k]] = v
    BY <1>2, LocalValue
  <2> QED
    BY <1>1, <1>2, <2>1 DEF Evaluated, Lua!Evaluate, Lua!ReadLocal, MoveFromLocal, heap
<1> QED
  BY <1>1, <1>2, <1>3 DEF Implements, Lua!LuaNext, Lua!LuaSteps, Evaluated

(* Captured variables are read.                                            *)
LEMMA GetUpvalMaps ==
  ASSUME IInv, IInv', Linked, Running, NEW j \in 1 .. Len(Upvals), GetUpval(j), UNCHANGED program
  PROVE  Implements
<1> DEFINE cell == cells[Upvals[j]]
           v == IF cell.kind = "Open" THEN At(values, cell.slot) ELSE cell.value
           f == Current.func
<1>1. Evaluated(v)
  <2>1. Evaluate(v)
    BY DEF GetUpval
  <2> HIDE DEF v
  <2> QED
    BY <2>1, EvaluateMapped DEF GetUpval, heap
<1>2. /\ Lua!Innermost.func = f /\ Lua!Running /\ ~Ended /\ f \in 1 .. Len(functions)
      /\ Upvals = functions[f].upvals
  <2>1. Depth \in 1 .. Depth
    BY InnermostIs
  <2>2. f \in 1 .. Len(functions)
    BY <2>1, FrameIs DEF Current
  <2> QED
    BY <2>2, InnermostIs, RunningMaps DEF Upvals
<1>3. /\ j \in 1 .. Len(ClosuresNow[f].upvals) /\ Upvals[j] \in 1 .. Len(cells)
      /\ ClosuresNow[f].upvals[j] = owner[Upvals[j]]
  BY <1>2, ClosuresAre DEF ClosureIs
<1>4. StoreNow[ClosuresNow[f].upvals[j]] = v
  BY <1>2, <1>3, CellValue
<1>5. Lua!ReadCaptured(j)
  <2> HIDE DEF v
  <2> QED
    BY <1>1, <1>2, <1>3, <1>4 DEF Evaluated, Lua!Evaluate, Lua!ReadCaptured, GetUpval, heap
<1> QED
  BY <1>1, <1>2, <1>3, <1>5 DEF Implements, Lua!LuaNext, Lua!LuaSteps, Evaluated

(* A table is made and evaluated.                                          *)
LEMMA NewTableMaps ==
  ASSUME IInv, IInv', Linked, Running, NewTable, UNCHANGED program
  PROVE  Implements
<1> DEFINE v == TableValue(Len(packs) + 1)
<1>1. Evaluated(v)
  <2>1. Evaluate(v)
    BY DEF NewTable
  <2> HIDE DEF v
  <2> QED
    BY <2>1, EvaluateMapped DEF NewTable
<1>2. Lua!TableValue(Len(packs')) = v
  <2>1. Len(packs') = Len(packs) + 1
    BY ArenaLists, AppendIs DEF NewTable, Appended
  <2> QED
    BY <2>1 DEF Lua!TableValue, TableValue
<1>3. Lua!MakeTable
  <2> HIDE DEF v
  <2> QED
    BY <1>1, <1>2 DEF Evaluated, Lua!MakeTable, NewTable
<1>4. Lua!Running
  BY RunningMaps
<1> QED
  BY <1>1, <1>3, <1>4 DEF Implements, Lua!LuaNext, Lua!LuaSteps, Evaluated

-----------------------------------------------------------------------------
(* The running frame's row changed, the slots of the others' rows kept.    *)
LEMMA CallsStep ==
  ASSUME IInv, IInv', Running, UNCHANGED outcome, Extends(Shapes, Shapes'),
         NEW top, NEW variables, NEW temps, NEW spread,
         Rewritten(frames, frames', top, variables, temps, spread),
         ExtrasKept(values, values', Current),
         \A k \in 1 .. Depth - 1 : Agree(values, values', frames[k], Shapes),
         NEW n, n = IF spread THEN top - RowStart(Current, Shapes) ELSE temps
  PROVE  CallsNow' = Recalled(CallsNow, variables, Between(values', RowStart(Current, Shapes), n))
<1>1. Bounded(Shapes) /\ FramesOK(frames, Shapes, Wants, Len(values))
  BY CurrentIs
<1>2. ~Ended /\ ~Ended'
  BY DEF Running, Ended
<1>3. CallsIn(values', frames', Shapes')
        = Recalled(CallsIn(values, frames, Shapes), variables,
                   Between(values', RowStart(Current, Shapes), n))
  <2>1. Current = frames[Len(frames)] /\ \A k \in 1 .. Len(frames) - 1 : Agree(values, values', frames[k], Shapes)
    BY DEF Current, Depth
  <2> QED
    BY <1>1, <2>1, CallsRewritten
<1>4. CallsNow' = CallsIn(values', frames', Shapes')
  BY <1>2, CallsAfter
<1>5. CallsNow = CallsIn(values, frames, Shapes)
  BY <1>2, CallsNowIs
<1> QED
  BY <1>3, <1>4, <1>5

(* Two locals are two slots.                                               *)
LEMMA SlotsApart ==
  ASSUME IInv, NEW k \in 1 .. Len(frames), NEW l \in 1 .. Len(frames),
         NEW i \in 1 .. Len(frames[k].vars), NEW j \in 1 .. Len(frames[l].vars),
         frames[k].base + i - 1 = frames[l].base + j - 1
  PROVE  k = l /\ i = j
<1> DEFINE s == frames[k].base + i - 1
<1>1. /\ Bounded(Shapes) /\ FramesOK(frames, Shapes, program.wants, Len(values)) /\ Len(values) \in Nat
      /\ Len(frames) \in Nat
  <2>1. Bounded(Shapes)
    BY ArenaLists, ArenaBounds DEF Shapes
  <2> QED
    BY <2>1 DEF IInv, Sound, Shapes, FramesOK, IsList
<1>2. /\ s \in Nat /\ frames[k].base <= s /\ s < frames[k].base + Shapes[frames[k].func].slots
  BY <1>1, LocalAt
<1>3. /\ s = frames[l].base + j - 1 /\ frames[l].base <= s /\ s < frames[l].base + Shapes[frames[l].func].slots
  BY <1>1, LocalAt
<1>4. /\ frames[k].base \in Nat /\ frames[l].base \in Nat
      /\ Shapes[frames[k].func].slots \in Nat /\ Shapes[frames[l].func].slots \in Nat
  <2>1. IsFrame(frames[k], Shapes, program.wants) /\ IsFrame(frames[l], Shapes, program.wants)
    BY <1>1 DEF FramesOK
  <2> QED
    BY <1>1, <2>1, FrameBounds
<1>5. ~(k < l)
  <2>1. k < l => frames[k].base + Shapes[frames[k].func].slots < frames[l].base
    BY <1>1, FramesApart
  <2> HIDE DEF s
  <2>2. \A b \in Nat : s < b => ~(b < frames[l].base)
    BY <1>2, <1>3, <1>4
  <2>3. frames[k].base + Shapes[frames[k].func].slots \in Nat
    <3>1. IsFrame(frames[k], Shapes, program.wants)
      BY <1>1 DEF FramesOK
    <3>2. RowStart(frames[k], Shapes) \in Nat
      BY <3>1, <1>1, RowBounds
    <3> QED
      BY <3>2 DEF RowStart
  <2> QED
    BY <1>2, <2>1, <2>2, <2>3
<1>6. ~(l < k)
  <2>1. l < k => frames[l].base + Shapes[frames[l].func].slots < frames[k].base
    BY <1>1, FramesApart
  <2> DEFINE a == frames[k].base
             b == frames[l].base
             d == Shapes[frames[l].func].slots
  <2>2. /\ s \in Nat /\ a \in Nat /\ b \in Nat /\ d \in Nat /\ a <= s /\ s < b + d
        /\ l < k => b + d < a
    BY <1>2, <1>3, <1>4, <2>1
  <2> HIDE DEF s, a, b, d
  <2> QED
    BY ONLY <2>2
<1>7. k = l
  BY <1>5, <1>6, <1>1
<1>8. i \in Int /\ j \in Int
  OBVIOUS
<1> QED
  BY <1>4, <1>7, <1>8

(* A local of some frame is written: no frame's rows are.                  *)
LEMMA LocalWritten ==
  ASSUME IInv, Running, NEW w, NEW l \in 1 .. Depth, NEW slot \in Nat,
         frames[l].base <= slot, slot < RowStart(frames[l], Shapes),
         \A s \in Nat : s # slot => At(w, s) = At(values, s)
  PROVE  /\ \A k \in 1 .. Depth : Agree(values, w, frames[k], Shapes)
         /\ ExtrasKept(values, w, Current)
<1>1. /\ Bounded(Shapes) /\ FramesOK(frames, Shapes, Wants, Len(values)) /\ Len(values) \in Nat
      /\ Depth \in 1 .. Depth
  BY CurrentIs
<1>2. ASSUME NEW k \in 1 .. Depth
      PROVE  ~InRows(frames[k], Shapes, slot)
  BY <1>1, LocalNotInRows DEF Depth
<1>3. \A k \in 1 .. Depth : Agree(values, w, frames[k], Shapes)
  BY <1>2 DEF Agree
<1>4. ExtrasKept(values, w, Current)
  <2>1. \A s \in Nat : InRows(Current, Shapes, s) => At(w, s) = At(values, s)
    BY <1>1, <1>3 DEF Agree, Current
  <2> QED
    BY <2>1 DEF ExtrasKept, InRows
<1> QED
  BY <1>3, <1>4

(* The last temporary consumed.                                            *)
LEMMA ConsumedRow ==
  ASSUME IInv, Running, ~Current.spread, Current.temps > 0
  PROVE  /\ Rewritten(frames, Consumed, Current.top, Current.vars, Current.temps - 1, FALSE)
         /\ Lua!Innermost.temps # <<>>
         /\ Lua!Innermost.temps[Len(Lua!Innermost.temps)] = Last
         /\ SubSeq(Lua!Innermost.temps, 1, Len(Lua!Innermost.temps) - 1)
              = Between(values, RowStart(Current, Shapes), Current.temps - 1)
<1> DEFINE first == RowStart(Current, Shapes)
           n == Current.temps
<1>1. first \in Nat /\ n \in Nat \ {0} /\ Width(Current, Shapes) = n /\ Current.spread = FALSE
      /\ TempSlot(Current, n) = first + n - 1
  <2>1. /\ first \in Nat /\ n \in Nat /\ Width(Current, Shapes) = n /\ Current.spread = FALSE
        /\ \A t \in Nat : TempSlot(Current, t) = first + t - 1
    BY RunningRow
  <2> HIDE DEF first
  <2> QED
    BY <2>1
<1>2. Lua!Innermost.temps = Between(values, first, n)
  BY <1>1, InnermostIs
<1>3. IsList(Between(values, first, n)) /\ Len(Between(values, first, n)) = n
      /\ Between(values, first, n)[n] = At(values, first + n - 1)
  <2> HIDE DEF first, n
  <2> QED
    BY <1>1, BetweenIs
<1>4. Last = At(values, first + n - 1)
  BY <1>1 DEF Last
<1>5. SubSeq(Between(values, first, n), 1, n - 1) = Between(values, first, n - 1)
  <2> HIDE DEF first, n
  <2>1. n - 1 \in 0 .. n
    BY <1>1
  <2> QED
    BY <1>1, <2>1, BetweenFirst
<1>6. Between(values, first, n) # <<>>
  BY <1>1, <1>3
<1>7. Rewritten(frames, Consumed, Current.top, Current.vars, n - 1, FALSE)
  <2>1. /\ IsFrame(Current, Shapes, Wants) /\ IsList(frames) /\ frames # <<>>
        /\ Current = frames[Len(frames)]
    BY CurrentIs DEF FramesOK, Current, Depth
  <2>2. IsRow(Current)
    BY <2>1, ChangedOnly
  <2>3. [Current EXCEPT !.temps = Current.temps - 1]
          = Changed(Current, Current.top, Current.vars, n - 1, FALSE)
    BY <1>1, <2>2 DEF IsRow
  <2>4. Consumed = WithFrame(frames, Changed(Current, Current.top, Current.vars, n - 1, FALSE))
    BY <2>3 DEF Consumed
  <2> HIDE DEF n
  <2> QED
    BY <2>1, <2>4, RowWith
<1> QED
  BY <1>2, <1>3, <1>4, <1>5, <1>6, <1>7

(* A store that shows what the slots and the closed cells hold.            *)
Shows(st, v, fs, cs, owners) ==
  /\ \A k \in 1 .. Len(fs) : \A i \in 1 .. Len(fs[k].vars) :
       st[fs[k].vars[i]] = At(v, fs[k].base + i - 1)
  /\ \A c \in 1 .. Len(cs) : cs[c].kind = "Closed" => st[owners[c]] = cs[c].value

(* A variable in scope is written: no other one is, nor a closed cell.     *)
LEMMA LocalStored ==
  ASSUME IInv, Linked, Running, NEW l \in 1 .. Len(frames), NEW i \in 1 .. Len(frames[l].vars),
         NEW w, NEW x, At(w, frames[l].base + i - 1) = x,
         \A s \in Nat : s # frames[l].base + i - 1 => At(w, s) = At(values, s)
  PROVE  StoreIs([StoreNow EXCEPT ![frames[l].vars[i]] = x], w, frames, cells, owner)
<1> DEFINE name == frames[l].vars[i]
           st == [StoreNow EXCEPT ![name] = x]
<1>1. StoreIs(StoreNow, values, frames, cells, owner)
  BY StoreNowIs DEF Running, Ended
<1>2. name \in Used(frames, owner)
  BY InUseIs
<1>3. StoreNow = [y \in Used(frames, owner) |-> StoreNow[y]]
  BY <1>1 DEF StoreIs
<1>4. /\ st = [y \in Used(frames, owner) |-> st[y]]
      /\ st[name] = x /\ \A y \in Used(frames, owner) : y # name => st[y] = StoreNow[y]
  BY <1>2, <1>3
<1> HIDE DEF st
<1>5. VarsOnce(frames) /\ ScopeOpen(frames, cells, owner)
  BY DEF Linked, Links
<1>6. ASSUME NEW k \in 1 .. Len(frames), NEW j \in 1 .. Len(frames[k].vars)
      PROVE  st[frames[k].vars[j]] = At(w, frames[k].base + j - 1)
  <2>1. frames[k].vars[j] \in Used(frames, owner)
    BY InUseIs
  <2>2. CASE frames[k].vars[j] = name
    <3>1. k = l /\ j = i
      BY <2>2, <1>5, OneRegister
    <3> QED
      BY <3>1, <1>4
  <2>3. CASE frames[k].vars[j] # name
    <3>1. frames[k].base + j - 1 # frames[l].base + i - 1
      BY <2>3, SlotsApart
    <3>2. frames[k].base + j - 1 \in Nat
      <4>1. Bounded(Shapes) /\ FramesOK(frames, Shapes, Wants, Len(values)) /\ Len(values) \in Nat
        BY CurrentIs
      <4> QED
        BY <4>1, LocalAt
    <3> QED
      BY <2>1, <2>3, <3>1, <3>2, <1>1, <1>4 DEF StoreIs
  <2> QED
    BY <2>2, <2>3
<1>7. ASSUME NEW c \in 1 .. Len(cells), cells[c].kind = "Closed"
      PROVE  st[owner[c]] = cells[c].value
  <2>1. owner[c] # name
    BY <1>5, <1>7 DEF ScopeOpen
  <2>2. owner[c] \in Used(frames, owner)
    BY ArenaLists, InUseIs
  <2> QED
    BY <2>1, <2>2, <1>1, <1>4, <1>7 DEF StoreIs
<1>8. StoreIs(st, w, frames, cells, owner)
  BY <1>4, <1>6, <1>7 DEF StoreIs
<1> QED
  BY <1>8 DEF st

(* A closed cell is written.                                               *)
LEMMA CellStored ==
  ASSUME IInv, Linked, Running, NEW d \in 1 .. Len(cells), cells[d].kind = "Closed", NEW x
  PROVE  StoreIs([StoreNow EXCEPT ![owner[d]] = x], values, frames,
                 [cells EXCEPT ![d] = Closed(x)], owner)
<1> DEFINE name == owner[d]
           st == [StoreNow EXCEPT ![name] = x]
           ds == [cells EXCEPT ![d] = Closed(x)]
<1>1. StoreIs(StoreNow, values, frames, cells, owner)
  BY StoreNowIs DEF Running, Ended
<1>2. name \in Used(frames, owner)
  BY ArenaLists, InUseIs
<1>3. StoreNow = [y \in Used(frames, owner) |-> StoreNow[y]]
  BY <1>1 DEF StoreIs
<1>4. /\ st = [y \in Used(frames, owner) |-> st[y]]
      /\ st[name] = x /\ \A y \in Used(frames, owner) : y # name => st[y] = StoreNow[y]
  BY <1>2, <1>3
<1>5. /\ Len(ds) = Len(cells) /\ ds[d] = Closed(x)
      /\ \A c \in 1 .. Len(cells) : c # d => ds[c] = cells[c]
  BY ArenaLists DEF IsList
<1> HIDE DEF st, ds
<1>6. CellsOnce(owner) /\ ScopeOpen(frames, cells, owner) /\ Len(owner) = Len(cells)
  BY ArenaLists DEF Linked, Links
<1>7. ASSUME NEW k \in 1 .. Len(frames), NEW j \in 1 .. Len(frames[k].vars)
      PROVE  st[frames[k].vars[j]] = At(values, frames[k].base + j - 1)
  <2>1. frames[k].vars[j] \in Used(frames, owner) /\ frames[k].vars[j] # name
    BY <1>6, InUseIs DEF ScopeOpen
  <2> QED
    BY <2>1, <1>1, <1>4 DEF StoreIs
<1>8. ASSUME NEW c \in 1 .. Len(cells), ds[c].kind = "Closed"
      PROVE  st[owner[c]] = ds[c].value
  <2>1. CASE c = d
    BY <2>1, <1>4, <1>5 DEF Closed
  <2>2. CASE c # d
    <3>1. owner[c] # name /\ owner[c] \in Used(frames, owner)
      BY <2>2, <1>6, InUseIs DEF CellsOnce
    <3> QED
      BY <2>2, <3>1, <1>1, <1>4, <1>5, <1>8 DEF StoreIs
  <2> QED
    BY <2>1, <2>2
<1>9. StoreIs(st, values, frames, ds, owner)
  BY <1>4, <1>5, <1>7, <1>8 DEF StoreIs
<1> QED
  BY <1>9 DEF st, ds

(* The last value evaluated goes to a variable.                            *)
Assigned(x) ==
  /\ StoreNow' = [StoreNow EXCEPT ![x] = Last] /\ ClosuresNow' = ClosuresNow
  /\ CallsNow' = Lua!Continue(Between(values, RowStart(Current, Shapes), Current.temps - 1))

(* Lua's assignment is that.                                               *)
LEMMA AssignIs ==
  ASSUME IInv, Running, ~Current.spread, Current.temps > 0, NEW x, Assigned(x), UNCHANGED <<packs, outcome>>
  PROVE  Lua!Assign(x)
BY ConsumedRow DEF Assigned, Lua!Assign

(* The row after an assignment: one temporary less, the others kept.       *)
LEMMA AssignedCalls ==
  ASSUME IInv, IInv', Running, ~Current.spread, Current.temps > 0, frames' = Consumed,
         UNCHANGED <<functions, outcome, program>>, ExtrasKept(values, values', Current),
         \A k \in 1 .. Depth : Agree(values, values', frames[k], Shapes)
  PROVE  CallsNow' = Lua!Continue(Between(values, RowStart(Current, Shapes), Current.temps - 1))
<1> DEFINE first == RowStart(Current, Shapes)
           n == Current.temps - 1
<1>1. Rewritten(frames, frames', Current.top, Current.vars, n, FALSE)
  BY ConsumedRow
<1>2. Extends(Shapes, Shapes')
  BY DEF Shapes, Extends
<1>3. Depth \in 1 .. Depth /\ Depth \in Nat \ {0}
  BY CurrentIs
<1>4. CallsNow' = Recalled(CallsNow, Current.vars, Between(values', first, n))
  <2>1. \A k \in 1 .. Depth - 1 : Agree(values, values', frames[k], Shapes)
    BY <1>3
  <2> HIDE DEF n
  <2> QED
    BY <1>1, <1>2, <2>1, CallsStep
<1>5. Between(values', first, n) = Between(values, first, n)
  <2>1. first \in Nat /\ n \in Nat /\ Width(Current, Shapes) = n + 1
    <3>1. first \in Nat /\ Current.temps \in Nat /\ Width(Current, Shapes) = Current.temps
      BY RunningRow
    <3> HIDE DEF first
    <3> QED
      BY <3>1
  <2>2. Agree(values, values', Current, Shapes)
    BY <1>3 DEF Current
  <2>3. \A s \in first .. first + n - 1 : s \in Nat /\ first <= s /\ s < first + (n + 1)
    BY <2>1
  <2>4. \A s \in first .. first + n - 1 : At(values', s) = At(values, s)
    BY <2>1, <2>2, <2>3 DEF Agree, InRows
  <2> HIDE DEF first, n
  <2> QED
    BY <2>1, <2>4, BetweenKept
<1> QED
  BY <1>4, <1>5, ContinueIs

(* Assignments to locals.                                                  *)
LEMMA MoveToLocalMaps ==
  ASSUME IInv, IInv', Linked, Running, NEW k \in 1 .. Len(Current.vars), MoveToLocal(k),
         UNCHANGED program
  PROVE  Implements
<1> DEFINE slot == LocalSlot(Current, k)
<1>1. /\ ~Current.spread /\ Current.temps > 0 /\ values' = Put(values, slot, Last) /\ frames' = Consumed
      /\ UNCHANGED <<open, cells, functions, packs, owner, outcome>>
  BY DEF MoveToLocal, heap
<1>2. /\ slot \in Nat /\ slot < Len(values) /\ Current.base <= slot
      /\ slot < RowStart(Current, Shapes) /\ values \in Seq(Holds)
  BY RunningLocal, RunningRow, CurrentIs
<1>3. At(values', slot) = Last /\ \A s \in Nat : s # slot => At(values', s) = At(values, s)
  <2> HIDE DEF slot
  <2> QED
    BY <1>1, <1>2, PutAt
<1>4. Depth \in 1 .. Depth /\ Depth \in 1 .. Len(frames) /\ Current = frames[Depth]
  BY CurrentIs DEF Current, Depth
<1>5. /\ \A l \in 1 .. Depth : Agree(values, values', frames[l], Shapes)
      /\ ExtrasKept(values, values', Current)
  <2> HIDE DEF slot
  <2> QED
    BY <1>2, <1>3, <1>4, LocalWritten
<1>6. Rewritten(frames, frames', Current.top, Current.vars, Current.temps - 1, FALSE)
  BY <1>1, ConsumedRow
<1>7. Linked'
  BY <1>1, <1>6, RowLinked
<1>8. CallsNow' = Lua!Continue(Between(values, RowStart(Current, Shapes), Current.temps - 1))
  BY <1>1, <1>5, AssignedCalls
<1>9. StoreNow' = [StoreNow EXCEPT ![Current.vars[k]] = Last]
  <2> DEFINE st == [StoreNow EXCEPT ![Current.vars[k]] = Last]
  <2>1. slot = frames[Depth].base + k - 1
    BY <1>4 DEF LocalSlot
  <2>2. StoreIs(st, values', frames, cells, owner)
    <3> HIDE DEF slot
    <3> QED
      BY <1>3, <1>4, <2>1, LocalStored
  <2> HIDE DEF st
  <2>3. StoreIs(st, values', frames', cells', owner')
    <3>1. Len(frames') = Len(frames)
          /\ \A l \in 1 .. Len(frames) : frames'[l].vars = frames[l].vars /\ frames'[l].base = frames[l].base
      BY <1>4, <1>6, RewrittenLocals DEF Depth
    <3>2. StoreIs(st, values', frames', cells, owner)
      BY <2>2, <3>1, SameStore DEF LocalsKept
    <3> QED
      BY <1>1, <3>2
  <2>4. ~Ended'
    BY <1>1 DEF Ended, Running
  <2> QED
    BY <1>7, <2>3, <2>4, StoreAfter DEF st
<1>10. ClosuresNow' = ClosuresNow
  BY <1>1 DEF ClosuresNow, VariablesOf
<1>11. Lua!WriteLocal(k)
  <2>1. Lua!Innermost.vars = Current.vars
    BY InnermostIs
  <2>2. Assigned(Current.vars[k])
    BY <1>8, <1>9, <1>10 DEF Assigned
  <2> QED
    BY <1>1, <2>1, <2>2, AssignIs DEF Lua!WriteLocal
<1>12. Lua!Innermost.vars = Current.vars /\ Lua!Running
  BY InnermostIs, RunningMaps
<1> QED
  BY <1>7, <1>11, <1>12 DEF Implements, Lua!LuaNext, Lua!LuaSteps

(* Assignments to captured variables.                                      *)
LEMMA SetUpvalMaps ==
  ASSUME IInv, IInv', Linked, Running, NEW j \in 1 .. Len(Upvals), SetUpval(j), UNCHANGED program
  PROVE  Implements
<1> DEFINE c == Upvals[j]
           f == Current.func
<1>1. /\ ~Current.spread /\ Current.temps > 0 /\ frames' = Consumed
      /\ UNCHANGED <<open, functions, packs, owner, outcome>>
  BY DEF SetUpval
<1>2. /\ Lua!Innermost.func = f /\ Lua!Running /\ ~Ended /\ f \in 1 .. Len(functions)
      /\ Upvals = functions[f].upvals /\ ~Ended'
  <2>1. Depth \in 1 .. Depth
    BY InnermostIs
  <2>2. f \in 1 .. Len(functions)
    BY <2>1, FrameIs DEF Current
  <2> QED
    BY <2>2, <1>1, InnermostIs, RunningMaps DEF Upvals, Ended
<1>3. /\ j \in 1 .. Len(ClosuresNow[f].upvals) /\ c \in 1 .. Len(cells)
      /\ ClosuresNow[f].upvals[j] = owner[c]
  BY <1>2, ClosuresAre DEF ClosureIs
<1>4. Rewritten(frames, frames', Current.top, Current.vars, Current.temps - 1, FALSE)
  BY <1>1, ConsumedRow
<1>5. /\ Len(frames') = Len(frames)
      /\ \A l \in 1 .. Len(frames) : frames'[l].vars = frames[l].vars /\ frames'[l].base = frames[l].base
  <2>1. Current.vars = frames[Len(frames)].vars
    BY DEF Current, Depth
  <2> QED
    BY <1>4, <2>1, RewrittenLocals
<1>6. Within(frames, frames')
  <2>1. Current.vars = frames[Len(frames)].vars
    BY DEF Current, Depth
  <2> QED
    BY <1>4, <2>1, RewrittenWithin
<1>7. ClosuresNow' = ClosuresNow
  BY <1>1 DEF ClosuresNow, VariablesOf
<1>8. CASE cells[c].kind = "Open"
  <2> DEFINE s == cells[c].slot
  <2>1. values' = Put(values, s, Last) /\ cells' = cells
    BY <1>8 DEF SetUpval
  <2>2. OpenOK(open, cells, owner, frames, Shapes)
    BY DEF IInv, Sound, Shapes
  <2>3. s \in DOMAIN open /\ open[s] = c
    BY <1>3, <1>8, <2>2 DEF OpenOK
  <2>4. s \in Nat /\ s < Len(values) /\ IsLocal(s, owner[c], frames)
    BY <2>3, OpenIsOnStack
  <2>5. PICK l \in 1 .. Len(frames) : \E i \in 1 .. Len(frames[l].vars) :
          s = frames[l].base + i - 1 /\ owner[c] = frames[l].vars[i]
    BY <2>4 DEF IsLocal
  <2>6. PICK i \in 1 .. Len(frames[l].vars) : s = frames[l].base + i - 1 /\ owner[c] = frames[l].vars[i]
    BY <2>5
  <2>7. At(values', s) = Last /\ \A t \in Nat : t # s => At(values', t) = At(values, t)
    <3>1. values \in Seq(Holds)
      BY CurrentIs
    <3> HIDE DEF s
    <3> QED
      BY <2>1, <2>4, <3>1, PutAt
  <2>8. l \in 1 .. Depth /\ frames[l].base <= s /\ s < RowStart(frames[l], Shapes)
    <3>1. Bounded(Shapes) /\ FramesOK(frames, Shapes, Wants, Len(values)) /\ Len(values) \in Nat
      BY CurrentIs
    <3> HIDE DEF s
    <3> QED
      BY <3>1, <2>6, LocalAt DEF Depth, RowStart
  <2>9. /\ \A k \in 1 .. Depth : Agree(values, values', frames[k], Shapes)
        /\ ExtrasKept(values, values', Current)
    <3> HIDE DEF s
    <3> QED
      BY <2>4, <2>7, <2>8, LocalWritten
  <2>10. CallsNow' = Lua!Continue(Between(values, RowStart(Current, Shapes), Current.temps - 1))
    BY <1>1, <2>9, AssignedCalls
  <2>11. Linked'
    BY <1>1, <1>6, <2>1, LinkedKept
  <2>12. StoreNow' = [StoreNow EXCEPT ![owner[c]] = Last]
    <3> DEFINE st == [StoreNow EXCEPT ![owner[c]] = Last]
    <3>1. StoreIs(st, values', frames, cells, owner)
      <4> HIDE DEF s
      <4> QED
        BY <2>6, <2>7, LocalStored
    <3> HIDE DEF st
    <3>2. StoreIs(st, values', frames', cells, owner)
      BY <1>5, <3>1, SameStore DEF LocalsKept
    <3>3. StoreIs(st, values', frames', cells', owner')
      BY <1>1, <2>1, <3>2
    <3> QED
      BY <1>2, <2>11, <3>3, StoreAfter DEF st
  <2>13. Assigned(owner[c])
    BY <1>7, <2>10, <2>12 DEF Assigned
  <2>14. Lua!Assign(owner[c])
    BY <1>1, <2>13, AssignIs
  <2>15. Lua!WriteCaptured(j)
    BY <1>2, <1>3, <2>14 DEF Lua!WriteCaptured
  <2> QED
    BY <1>2, <1>3, <2>11, <2>15 DEF Implements, Lua!LuaNext, Lua!LuaSteps
<1>9. CASE cells[c].kind # "Open"
  <2>1. values' = values /\ cells' = [cells EXCEPT ![c] = Closed(Last)]
    BY <1>9 DEF SetUpval
  <2>2. cells[c].kind = "Closed"
    <3>1. IsCell(cells[c], Holds)
      BY <1>3 DEF IInv, Sound, ArenasOK, Holds
    <3> QED
      BY <1>9, <3>1 DEF IsCell
  <2>3. ExtrasKept(values, values', Current) /\ \A k \in 1 .. Depth : Agree(values, values', frames[k], Shapes)
    BY <2>1 DEF ExtrasKept, Agree
  <2>4. CallsNow' = Lua!Continue(Between(values, RowStart(Current, Shapes), Current.temps - 1))
    BY <1>1, <2>3, AssignedCalls
  <2>5. Linked'
    <3>1. IsList(cells)
      BY ArenaLists
    <3>2. /\ Len(cells') = Len(cells) /\ cells'[c] = Closed(Last)
          /\ \A d \in 1 .. Len(cells) : d # c => cells'[d] = cells[d]
      BY <1>3, <2>1, <3>1 DEF IsList
    <3>3. \A d \in 1 .. Len(cells) : cells'[d].kind = cells[d].kind
      BY <2>2, <3>2 DEF Closed
    <3> QED
      BY <1>1, <1>6, <3>2, <3>3, LinkedKept
  <2>6. StoreNow' = [StoreNow EXCEPT ![owner[c]] = Last]
    <3> DEFINE st == [StoreNow EXCEPT ![owner[c]] = Last]
    <3>1. StoreIs(st, values, frames, [cells EXCEPT ![c] = Closed(Last)], owner)
      <4> HIDE DEF c
      <4> QED
        BY <1>3, <2>2, CellStored
    <3> HIDE DEF st
    <3>2. StoreIs(st, values', frames, cells', owner)
      BY <2>1, <3>1
    <3>3. StoreIs(st, values', frames', cells', owner)
      BY <1>5, <3>2, SameStore DEF LocalsKept
    <3>4. StoreIs(st, values', frames', cells', owner')
      BY <1>1, <3>3
    <3> QED
      BY <1>2, <2>5, <3>4, StoreAfter DEF st
  <2>7. Assigned(owner[c])
    BY <1>7, <2>4, <2>6 DEF Assigned
  <2>8. Lua!Assign(owner[c])
    BY <1>1, <2>7, AssignIs
  <2>9. Lua!WriteCaptured(j)
    BY <1>2, <1>3, <2>8 DEF Lua!WriteCaptured
  <2> QED
    BY <1>2, <1>3, <2>5, <2>9 DEF Implements, Lua!LuaNext, Lua!LuaSteps
<1> QED
  BY <1>8, <1>9

-----------------------------------------------------------------------------
(* The variables the calls and the functions reach are those in use: each  *)
(* cell is some function's.                                                *)
Wired(fns, cs) ==
  \A f \in 1 .. Len(fns) :
    IsList(fns[f].upvals) /\ \A j \in 1 .. Len(fns[f].upvals) : fns[f].upvals[j] \in 1 .. Len(cs)

ClosuresIn(fns, owners) ==
  [f \in 1 .. Len(fns) |->
     [proto |-> fns[f].proto,
      upvals |-> [j \in 1 .. Len(fns[f].upvals) |-> owners[fns[f].upvals[j]]]]]

(* What scope and captures reach is what the frames and the cells name: no *)
(* cell is forgotten, and none outlives its function.                      *)
LEMMA ReachedAre ==
  ASSUME NEW v, NEW fs, IsList(fs), NEW shapes, NEW owners, NEW fns, IsList(fns),
         CellsHeld(owners, fns), Wired(fns, owners)
  PROVE  Lua!InScope(CallsIn(v, fs, shapes)) \cup Lua!Captured(ClosuresIn(fns, owners)) = Used(fs, owners)
<1> DEFINE calls == CallsIn(v, fs, shapes)
           made == ClosuresIn(fns, owners)
<1>1. /\ Len(calls) = Len(fs) /\ \A k \in 1 .. Len(fs) : calls[k].vars = fs[k].vars
  <2>1. CallsListed(v, fs, shapes)
    BY CallsAre
  <2> QED
    BY <2>1 DEF CallsListed, CallOf
<1>2. Len(fns) \in Nat /\ IsList(made) /\ Len(made) = Len(fns)
  <2>1. Len(fns) \in Nat
    BY DEF IsList
  <2>2. made = [f \in 1 .. Len(fns) |-> made[f]]
    BY DEF ClosuresIn
  <2> HIDE DEF made
  <2> QED
    BY <2>1, <2>2, ListOf
<1>3. ASSUME NEW f \in 1 .. Len(fns)
      PROVE  /\ Len(made[f].upvals) = Len(fns[f].upvals)
             /\ \A j \in 1 .. Len(fns[f].upvals) : made[f].upvals[j] = owners[fns[f].upvals[j]]
  <2> DEFINE s == [j \in 1 .. Len(fns[f].upvals) |-> owners[fns[f].upvals[j]]]
  <2>1. made[f] = [proto |-> fns[f].proto, upvals |-> s]
    BY DEF ClosuresIn
  <2>2. Len(fns[f].upvals) \in Nat
    BY DEF Wired, IsList
  <2>3. s = [j \in 1 .. Len(fns[f].upvals) |-> s[j]]
    OBVIOUS
  <2>4. \A j \in 1 .. Len(fns[f].upvals) : s[j] = owners[fns[f].upvals[j]]
    OBVIOUS
  <2> HIDE DEF s, made
  <2>5. made[f].upvals = s
    BY <2>1
  <2>6. Len(s) = Len(fns[f].upvals)
    BY <2>2, <2>3, ListOf
  <2> QED
    BY <2>4, <2>5, <2>6
<1> HIDE DEF calls, made
<1>4. ASSUME NEW x
      PROVE  x \in Lua!InScope(calls) <=> \E k \in 1 .. Len(fs) : \E i \in 1 .. Len(fs[k].vars) : x = fs[k].vars[i]
  <2>1. x \in Lua!InScope(calls) <=> \E k \in 1 .. Len(calls) : x \in Lua!Listed(calls[k].vars)
    BY DEF Lua!InScope
  <2>2. \A k \in 1 .. Len(fs) : x \in Lua!Listed(fs[k].vars) <=> \E i \in 1 .. Len(fs[k].vars) : x = fs[k].vars[i]
    BY DEF Lua!Listed
  <2> QED
    BY <1>1, <2>1, <2>2
<1>5. ASSUME NEW x
      PROVE  x \in Lua!Captured(made) <=> \E c \in 1 .. Len(owners) : x = owners[c]
  <2>1. x \in Lua!Captured(made) <=>
          \E f \in 1 .. Len(fns) : \E j \in 1 .. Len(fns[f].upvals) : x = owners[fns[f].upvals[j]]
    <3>1. x \in Lua!Captured(made) <=> \E f \in 1 .. Len(made) : x \in Lua!Listed(made[f].upvals)
      BY DEF Lua!Captured
    <3>2. \A f \in 1 .. Len(fns) :
            x \in Lua!Listed(made[f].upvals) <=> \E j \in 1 .. Len(fns[f].upvals) : x = owners[fns[f].upvals[j]]
      <4> TAKE f \in 1 .. Len(fns)
      <4>1. x \in Lua!Listed(made[f].upvals)
              <=> \E j \in 1 .. Len(made[f].upvals) : x = made[f].upvals[j]
        BY DEF Lua!Listed
      <4> QED
        BY <4>1, <1>3
    <3> QED
      BY <1>2, <3>1, <3>2
  <2>2. ASSUME NEW c \in 1 .. Len(owners)
        PROVE  \E f \in 1 .. Len(fns) : \E j \in 1 .. Len(fns[f].upvals) : c = fns[f].upvals[j]
    BY DEF CellsHeld, Listed
  <2>3. (\E f \in 1 .. Len(fns) : \E j \in 1 .. Len(fns[f].upvals) : x = owners[fns[f].upvals[j]])
          => \E c \in 1 .. Len(owners) : x = owners[c]
    BY DEF Wired
  <2>4. (\E c \in 1 .. Len(owners) : x = owners[c])
          => \E f \in 1 .. Len(fns) : \E j \in 1 .. Len(fns[f].upvals) : x = owners[fns[f].upvals[j]]
    BY <2>2
  <2> QED
    BY <2>1, <2>3, <2>4
<1>6. \A x : x \in Lua!InScope(calls) \cup Lua!Captured(made) <=> x \in Used(fs, owners)
  BY <1>4, <1>5, InUseIs
<1>7. Lua!InScope(calls) \cup Lua!Captured(made) = Used(fs, owners)
  BY <1>6
<1> QED
  BY <1>7 DEF calls, made

(* Now.                                                                    *)
LEMMA ReachedNow ==
  ASSUME IInv, Linked, ~Ended
  PROVE  Lua!InScope(CallsNow) \cup Lua!Captured(ClosuresNow) = Used(frames, owner)
<1>1. CallsNow = CallsIn(values, frames, Shapes) /\ IsList(frames)
  BY CallsNowIs DEF IInv, Sound, FramesOK
<1>2. /\ IsList(owner) /\ Len(owner) = Len(cells) /\ IsList(functions) /\ CellsHeld(cells, functions)
  BY ArenaLists DEF Linked, Links
<1>3. Wired(functions, cells)
  <2>1. \A f \in 1 .. Len(functions) : functions[f].upvals \in Seq(1 .. Len(cells))
    BY ArenaLists, ArenaBounds
  <2> QED
    BY <2>1, SeqIsList DEF Wired
<1>4. ClosuresNow = ClosuresIn(functions, owner)
  BY DEF ClosuresNow, VariablesOf, ClosuresIn
<1>5. Lua!InScope(CallsIn(values, frames, Shapes)) \cup Lua!Captured(ClosuresIn(functions, owner))
        = Used(frames, owner)
  <2>1. CellsHeld(owner, functions) /\ Wired(functions, owner)
    BY <1>2, <1>3 DEF CellsHeld, Wired
  <2>2. IsList(frames) /\ IsList(functions)
    BY <1>1, <1>2
  <2> QED
    BY <2>1, <2>2, ReachedAre
<1> QED
  BY <1>1, <1>4, <1>5

(* After a step Lua's store is that of any that shows what the slots and   *)
(* the closed cells then do, without what nobody reaches.                  *)
LEMMA SettledAfter ==
  ASSUME IInv', Linked', ~Ended', NEW st, Shows(st, values', frames', cells', owner')
  PROVE  StoreNow' = Lua!Settled(st, CallsNow', ClosuresNow')
<1>1. CallsNow' = CallsIn(values', frames', Shapes') /\ IsList(frames')
  BY CallsAfter DEF IInv, Sound, FramesOK
<1>2. ArenasOK(functions', cells', packs', program') /\ program' \in Programs
      /\ IsList(owner') /\ Len(owner') = Len(cells')
  BY DEF IInv, Sound, OpenOK
<1>3. CellsHeld(cells', functions')
  BY DEF Linked, Links
<1>4. IsList(functions')
  BY <1>2, SeqIsList DEF ArenasOK
<1>5. Wired(functions', cells')
  <2>1. \A f \in 1 .. Len(functions') : functions'[f].upvals \in Seq(1 .. Len(cells'))
    BY <1>2, ArenaBounds
  <2> QED
    BY <2>1, SeqIsList DEF Wired
<1>6. ClosuresNow' = ClosuresIn(functions', owner')
  BY DEF ClosuresNow, VariablesOf, ClosuresIn
<1>7. Lua!InScope(CallsNow') \cup Lua!Captured(ClosuresNow') = Used(frames', owner')
  <2>1. Lua!InScope(CallsIn(values', frames', Shapes')) \cup Lua!Captured(ClosuresIn(functions', owner'))
          = Used(frames', owner')
    <3>1. CellsHeld(owner', functions') /\ Wired(functions', owner')
      BY <1>2, <1>3, <1>5 DEF CellsHeld, Wired
    <3> QED
      BY <1>1, <1>4, <3>1, ReachedAre
  <2> QED
    BY <1>1, <1>6, <2>1
<1> DEFINE settled == [x \in Used(frames', owner') |-> st[x]]
<1>8. Lua!Settled(st, CallsNow', ClosuresNow') = settled
  BY <1>7 DEF Lua!Settled
<1>9. StoreIs(settled, values', frames', cells', owner')
  <2>1. settled = [x \in Used(frames', owner') |-> settled[x]]
        /\ \A x \in Used(frames', owner') : settled[x] = st[x]
    OBVIOUS
  <2> HIDE DEF settled
  <2>2. ASSUME NEW k \in 1 .. Len(frames'), NEW i \in 1 .. Len(frames'[k].vars)
        PROVE  settled[frames'[k].vars[i]] = At(values', frames'[k].base + i - 1)
    <3>1. frames'[k].vars[i] \in Used(frames', owner')
      BY InUseIs
    <3> QED
      BY <2>1, <3>1 DEF Shows
  <2>3. ASSUME NEW c \in 1 .. Len(cells'), cells'[c].kind = "Closed"
        PROVE  settled[owner'[c]] = cells'[c].value
    <3>1. owner'[c] \in Used(frames', owner')
      BY <1>2, InUseIs
    <3> QED
      BY <2>1, <2>3, <3>1 DEF Shows
  <2> QED
    BY <2>1, <2>2, <2>3 DEF StoreIs
<1> HIDE DEF settled
<1> QED
  BY <1>8, <1>9, StoreAfter

-----------------------------------------------------------------------------
(* What was shown is shown of fewer variables, whose cells were closed.    *)
LEMMA ClosedShown ==
  ASSUME IInv, Linked, Running, NEW v, NEW from \in Nat, NEW gs, Within(frames, gs),
         \A k \in 1 .. Len(gs) : gs[k].base = frames[k].base,
         LocalsKept(values, v, frames),
         NEW w, \A k \in 1 .. Len(gs) : \A i \in 1 .. Len(gs[k].vars) :
                  At(w, gs[k].base + i - 1) = At(values, gs[k].base + i - 1)
  PROVE  Shows(StoreNow, w, gs, ClosedCells(v, from), owner)
<1>1. ~Ended
  BY DEF Running, Ended
<1>2. StoreIs(StoreNow, values, frames, cells, owner)
  BY <1>1, StoreNowIs
<1>3. ASSUME NEW k \in 1 .. Len(gs), NEW i \in 1 .. Len(gs[k].vars)
      PROVE  StoreNow[gs[k].vars[i]] = At(w, gs[k].base + i - 1)
  <2>1. k \in 1 .. Len(frames) /\ i \in 1 .. Len(frames[k].vars) /\ gs[k].vars[i] = frames[k].vars[i]
    BY DEF Within
  <2> QED
    BY <1>2, <2>1 DEF StoreIs
<1>4. ASSUME NEW c \in 1 .. Len(cells), ClosedCells(v, from)[c].kind = "Closed"
      PROVE  StoreNow[owner[c]] = ClosedCells(v, from)[c].value
  <2>1. StoreNow[owner[c]] = IF cells[c].kind = "Open" THEN At(values, cells[c].slot) ELSE cells[c].value
    BY <1>1, CellValue
  <2>2. IsCell(cells[c], Holds)
    BY DEF IInv, Sound, ArenasOK, Holds
  <2>3. CASE cells[c].kind = "Closed"
    <3>1. ClosedCells(v, from)[c] = cells[c]
      BY <2>3, ClosedAre
    <3> QED
      BY <2>1, <2>3, <3>1
  <2>4. CASE cells[c].kind = "Open"
    <3>1. ClosedCells(v, from)[c] = Closed(At(v, cells[c].slot))
      <4>1. ClosedCells(v, from)[c] # cells[c]
        BY <1>4, <2>4
      <4> QED
        BY <4>1, <2>4, ClosedAre
    <3>2. At(v, cells[c].slot) = At(values, cells[c].slot)
      <4> DEFINE s == cells[c].slot
      <4>1. OpenOK(open, cells, owner, frames, Shapes)
        BY DEF IInv, Sound, Shapes
      <4>2. s \in DOMAIN open /\ IsLocal(s, owner[open[s]], frames)
        BY <2>4, <4>1 DEF OpenOK
      <4> QED
        BY <4>2 DEF IsLocal, LocalsKept
    <3> QED
      BY <2>1, <2>4, <3>1, <3>2 DEF Closed
  <2> QED
    BY <2>2, <2>3, <2>4 DEF IsCell
<1>5. Len(ClosedCells(v, from)) = Len(cells)
  BY ArenaLists DEF ClosedCells
<1> QED
  BY <1>3, <1>4, <1>5 DEF Shows

(* Blocks end.                                                             *)
LEMMA LeaveScopeMaps ==
  ASSUME IInv, IInv', Linked, Running, NEW kept \in 0 .. Len(Current.vars) - 1, LeaveScope(kept),
         UNCHANGED program
  PROVE  Implements
<1> DEFINE from == LocalSlot(Current, kept + 1)
           vs == SubSeq(Current.vars, 1, kept)
<1>1. /\ ~Current.spread /\ Current.temps = 0
      /\ cells' = ClosedCells(values, from)
      /\ frames' = WithFrame(frames, [Current EXCEPT !.vars = vs])
      /\ UNCHANGED <<values, functions, packs, owner, outcome>>
  BY DEF LeaveScope, LeaveScopeFrom
<1>2. /\ IsList(Current.vars) /\ Len(Current.vars) \in Nat /\ kept \in Nat /\ kept <= Len(Current.vars)
      /\ Current.base \in Nat /\ from = Current.base + kept
      /\ kept <= Len(Current.vars) - 1
  <2>1. IsList(Current.vars) /\ Current.base \in Nat
    BY CurrentBounds
  <2> QED
    BY <2>1 DEF IsList, LocalSlot
<1>3. Len(vs) = kept /\ \A i \in 1 .. kept : vs[i] = Current.vars[i]
  BY <1>2, PrefixIs
<1>4. Rewritten(frames, frames', Current.top, vs, 0, FALSE)
  <2>1. /\ IsFrame(Current, Shapes, Wants) /\ IsList(frames) /\ frames # <<>>
        /\ Current = frames[Len(frames)]
    BY CurrentIs DEF FramesOK, Current, Depth
  <2>2. IsRow(Current) /\ Current.spread = FALSE
    BY <2>1, <1>1, ChangedOnly, CurrentBounds
  <2> HIDE DEF vs
  <2>3. [Current EXCEPT !.vars = vs] = Changed(Current, Current.top, vs, 0, FALSE)
    BY <1>1, <2>2 DEF IsRow
  <2> QED
    BY <1>1, <2>1, <2>3, RowWith
<1> HIDE DEF vs
<1>5. Depth = Len(frames) /\ Depth \in 1 .. Depth /\ Depth \in Nat /\ Current = frames[Depth]
  BY CurrentIs DEF Depth, Current
<1>6. Within(frames, frames')
  <2>1. \A i \in 1 .. Len(vs) : i \in 1 .. Len(frames[Len(frames)].vars) /\ vs[i] = frames[Len(frames)].vars[i]
    BY <1>2, <1>3, <1>5
  <2> QED
    BY <1>4, <2>1, RewrittenWithin
<1>7. /\ Len(frames') = Depth /\ \A k \in 1 .. Depth : frames'[k].base = frames[k].base
      /\ frames'[Depth].vars = vs /\ \A k \in 1 .. Depth - 1 : frames'[k] = frames[k]
  <2>1. /\ Len(frames') = Depth /\ \A k \in 1 .. Depth - 1 : frames'[k] = frames[k]
        /\ frames'[Depth].base = frames[Depth].base /\ frames'[Depth].vars = vs
    BY <1>4, <1>5 DEF Rewritten, ChangedTo
  <2>2. \A k \in 1 .. Depth : k = Depth \/ k \in 1 .. Depth - 1
    BY <1>5
  <2> QED
    BY <2>1, <2>2
<1>8. from \in Nat
  BY <1>2
<1> HIDE DEF from
<1>9. ASSUME NEW k \in 1 .. Len(frames'), NEW i \in 1 .. Len(frames'[k].vars)
      PROVE  frames[k].base + i - 1 < from
  <2>1. CASE k = Depth
    BY <2>1, <1>2, <1>3, <1>5, <1>7
  <2>2. CASE k # Depth
    <3>1. k \in 1 .. Len(frames) /\ k < Depth /\ i \in 1 .. Len(frames[k].vars)
      BY <2>2, <1>5, <1>7, <1>9
    <3>2. /\ Bounded(Shapes) /\ FramesOK(frames, Shapes, Wants, Len(values)) /\ Len(values) \in Nat
      BY CurrentIs
    <3>3. frames[k].base + Shapes[frames[k].func].slots < Current.base
      BY <3>1, <3>2, <1>5, FramesApart
    <3> DEFINE s == frames[k].base + i - 1
    <3>4. s \in Nat /\ s < frames[k].base + Shapes[frames[k].func].slots
      BY <3>1, <3>2, LocalAt
    <3>5. frames[k].base + Shapes[frames[k].func].slots \in Nat
      <4>1. IsFrame(frames[k], Shapes, Wants)
        BY <3>1, <3>2 DEF FramesOK
      <4>2. RowStart(frames[k], Shapes) \in Nat
        BY <4>1, <3>2, RowBounds
      <4> QED
        BY <4>2 DEF RowStart
    <3> HIDE DEF s
    <3>6. s < from
      BY <3>3, <3>4, <3>5, <1>2
    <3> QED
      BY <3>6 DEF s
  <2> QED
    BY <2>1, <2>2
<1>10. Linked'
  <2>1. /\ ScopeOpen(frames', ClosedCells(values, from), owner)
        /\ Len(ClosedCells(values, from)) = Len(cells)
    BY <1>6, <1>8, <1>9, ScopeClosed
  <2>2. Links(frames, cells, owner, functions) /\ DEPTH \in Nat
    BY CountAssumption DEF Linked
  <2>3. Links(frames', ClosedCells(values, from), owner, functions)
    BY <1>6, <2>1, <2>2, LinksFewer
  <2> QED
    BY <1>1, <2>3 DEF Linked
<1>11. ClosuresNow' = ClosuresNow /\ ~Ended'
  BY <1>1 DEF ClosuresNow, VariablesOf, Ended, Running
<1>12. StoreNow' = Lua!Settled(StoreNow, CallsNow', ClosuresNow')
  <2>1. LocalsKept(values, values, frames)
    BY DEF LocalsKept
  <2>2. \A k \in 1 .. Len(frames') : frames'[k].base = frames[k].base
    BY <1>7
  <2>3. Shows(StoreNow, values, frames', ClosedCells(values, from), owner)
    BY <1>6, <1>8, <2>1, <2>2, ClosedShown
  <2>4. Shows(StoreNow, values', frames', cells', owner')
    BY <1>1, <2>3
  <2> QED
    BY <1>10, <1>11, <2>4, SettledAfter
<1>13. CallsNow' = [CallsNow EXCEPT ![Len(CallsNow)].vars = SubSeq(@, 1, kept)]
  <2>1. Extends(Shapes, Shapes') /\ ExtrasKept(values, values', Current)
        /\ \A k \in 1 .. Depth - 1 : Agree(values, values', frames[k], Shapes)
    BY <1>1 DEF Shapes, Extends, ExtrasKept, Agree
  <2>2. CallsNow' = Recalled(CallsNow, vs, Between(values', RowStart(Current, Shapes), 0))
    BY <1>1, <1>4, <2>1, CallsStep
  <2>3. Lua!Innermost.temps = Between(values, RowStart(Current, Shapes), 0)
    BY <1>1, RunningRow, InnermostIs
  <2>4. CallsNow' = Recalled(CallsNow, vs, Lua!Innermost.temps)
    BY <1>1, <2>2, <2>3
  <2>5. CallsNow' = [CallsNow EXCEPT ![Len(CallsNow)].vars = vs]
    BY <2>4, ContinueIs
  <2>6. CallsNow[Len(CallsNow)].vars = Current.vars
    BY InnermostIs DEF Lua!Innermost
  <2> QED
    BY <2>5, <2>6 DEF vs
<1>14. Lua!LeaveBlock(kept)
  BY <1>1, <1>11, <1>12, <1>13 DEF Lua!LeaveBlock
<1>15. kept \in 0 .. Len(Lua!Innermost.vars) /\ Lua!Running
  BY <1>2, InnermostIs, RunningMaps
<1> QED
  BY <1>10, <1>14, <1>15 DEF Implements, Lua!LuaNext, Lua!LuaSteps

(* New variables have the values of a list, the k-th the k-th.             *)
Gives(st, old, names, m, list) ==
  /\ \A k \in 1 .. m : st[names[k]] = list[k]
  /\ \A x \in DOMAIN old : (\A k \in 1 .. m : names[k] # x) => st[x] = old[x]

Distinct(names, m) ==
  m \in Nat /\ Len(names) = m /\ \A j, k \in 1 .. m : names[j] = names[k] => j = k

(* Lua's side declares its variables so.                                   *)
LEMMA WithIs ==
  ASSUME NEW names, NEW m, Distinct(names, m), NEW list
  PROVE  Gives(Lua!With(names, list), StoreNow, names, m, list)
<1> DEFINE at(x) == CHOOSE k \in 1 .. Len(names) : names[k] = x
<1>1. \A x : x \in Lua!Listed(names) <=> \E k \in 1 .. m : names[k] = x
  BY DEF Lua!Listed, Distinct
<1>2. \A x \in DOMAIN StoreNow \cup Lua!Listed(names) :
        Lua!With(names, list)[x] = IF x \in Lua!Listed(names) THEN list[at(x)] ELSE StoreNow[x]
  BY DEF Lua!With
<1>3. ASSUME NEW k \in 1 .. m
      PROVE  Lua!With(names, list)[names[k]] = list[k]
  <2>1. at(names[k]) \in 1 .. Len(names) /\ names[at(names[k])] = names[k]
    BY DEF Distinct
  <2>2. at(names[k]) = k
    BY <2>1 DEF Distinct
  <2> HIDE DEF at
  <2>3. names[k] \in Lua!Listed(names)
    BY <1>1
  <2> QED
    BY <1>2, <2>2, <2>3
<1> HIDE DEF at
<1> QED
  BY <1>1, <1>2, <1>3 DEF Gives

(* What is in use, on both sides.                                          *)
LEMMA StoreDomain ==
  ASSUME IInv, Linked, ~Ended
  PROVE  DOMAIN StoreNow = Used(frames, owner) /\ InUse(frames) = Used(frames, owner)
BY StoreNowIs DEF StoreIs, InUse, Used

(* Only so many are.                                                       *)
LEMMA InUseFinite ==
  ASSUME IInv
  PROVE  IsFiniteSet(Used(frames, owner))
<1>1. IsList(frames) /\ IsList(owner)
  BY ArenaLists DEF IInv, Sound, FramesOK
<1>2. \A k \in 1 .. Len(frames) : IsList(frames[k].vars)
  BY DEF IInv, Sound, FramesOK, IsFrame
<1> QED
  BY <1>1, <1>2, UsedFinite

(* New variables are named on both sides alike.                            *)
LEMMA FreshSame ==
  ASSUME NEW used, NEW n
  PROVE  Lua!Fresh(used, n) = Fresh(used, n)
BY DEF Lua!Fresh, Fresh, Lua!Cardinality, Cardinality

(* The innermost call with other variables too, as Lua's side puts it.     *)
LEMMA RecalledAfter ==
  ASSUME IInv, Running, NEW x, NEW t, CallsNow' = Recalled(CallsNow, x, t)
  PROVE  CallsNow' = [CallsNow EXCEPT ![Len(CallsNow)] = [Lua!Innermost EXCEPT !.vars = x, !.temps = t]]
BY ContinueIs

(* A declaration makes a variable.                                         *)
LEMMA DeclareMaps ==
  ASSUME Endless, IInv, IInv', Linked, Running, Declare, UNCHANGED program
  PROVE  Implements
<1> DEFINE m == Len(Current.vars)
           slot == LocalSlot(Current, m + 1)
           name == Fresh(InUse(frames), 1)
           vs == Current.vars \o name
           n == Current.temps - 1
<1>1. /\ ~Current.spread /\ Current.temps > 0 /\ m < ProtoOf(Current).slots
      /\ values' = Put(values, slot, Last)
      /\ frames' = WithFrame(frames, [Current EXCEPT !.temps = n, !.vars = vs])
      /\ UNCHANGED <<open, cells, functions, packs, owner, outcome>>
  BY DEF Declare, heap
<1>2. /\ IsList(Current.vars) /\ m \in Nat /\ Current.base \in Nat /\ slot = Current.base + m
      /\ Current.temps \in Nat /\ n \in Nat
  <2>1. IsList(Current.vars) /\ Current.base \in Nat /\ Current.temps \in Nat
    BY CurrentBounds
  <2> QED
    BY <1>1, <2>1 DEF IsList, LocalSlot
<1>3. /\ Depth = Len(frames) /\ Depth \in 1 .. Depth /\ Depth \in Nat /\ Current = frames[Depth]
      /\ values \in Seq(Holds) /\ Len(values) \in Nat /\ Bounded(Shapes)
      /\ FramesOK(frames, Shapes, Wants, Len(values))
      /\ IsFrame(Current, Shapes, Wants) /\ IsList(frames) /\ frames # <<>>
  BY CurrentIs DEF Depth, Current, FramesOK
<1>4. ~Ended /\ ~Ended'
  BY <1>1 DEF Running, Ended
<1>5. /\ IsList(name) /\ Len(name) = 1 /\ name[1] \notin Used(frames, owner)
  <2>1. InUse(frames) = Used(frames, owner) /\ IsFiniteSet(Used(frames, owner))
    BY <1>4, StoreDomain, InUseFinite
  <2>2. \A k \in 1 .. 1 : name[k] \notin InUse(frames)
    BY <2>1, FreshApart
  <2> QED
    BY <2>1, <2>2, FreshIs
<1> HIDE DEF name
<1>6. /\ Len(vs) = m + 1 /\ vs[m + 1] = name[1] /\ \A i \in 1 .. m : vs[i] = Current.vars[i]
  <2>1. Joined(Current.vars, name, vs)
    BY <1>2, <1>5, JoinIs
  <2> QED
    BY <1>5, <2>1 DEF Joined
<1> HIDE DEF vs
<1>7. Rewritten(frames, frames', Current.top, vs, n, FALSE)
  <2>1. IsRow(Current) /\ Current.spread = FALSE
    BY <1>1, <1>3, ChangedOnly, CurrentBounds
  <2> HIDE DEF n
  <2>2. [Current EXCEPT !.temps = n, !.vars = vs] = Changed(Current, Current.top, vs, n, Current.spread)
    BY <2>1 DEF IsRow
  <2>3. frames' = WithFrame(frames, Changed(Current, Current.top, vs, n, FALSE))
    BY <1>1, <2>1, <2>2
  <2> QED
    BY <1>3, <2>3, RowWith
<1>8. /\ Len(frames') = Depth /\ \A k \in 1 .. Depth - 1 : frames'[k] = frames[k]
      /\ frames'[Depth].vars = vs /\ frames'[Depth].base = Current.base
  BY <1>3, <1>7 DEF Rewritten, ChangedTo
<1>9. slot \in Nat /\ slot < Len(values) /\ Current.base <= slot /\ slot < RowStart(Current, Shapes)
  <2>1. /\ RowStart(Current, Shapes) = Current.base + ProtoOf(Current).slots
        /\ RowStart(Current, Shapes) \in Nat /\ RowStart(Current, Shapes) + Current.temps <= Len(values)
    BY RunningRow
  <2>2. ProtoOf(Current).slots \in Nat
    BY CurrentBounds
  <2> DEFINE b == Current.base
             slots == ProtoOf(Current).slots
             row == RowStart(Current, Shapes)
             temps == Current.temps
             height == Len(values)
  <2>3. /\ b \in Nat /\ slots \in Nat /\ row \in Nat /\ temps \in Nat /\ height \in Nat /\ m \in Nat
        /\ slot = b + m /\ m < slots /\ row = b + slots /\ temps > 0 /\ row + temps <= height
    BY <1>1, <1>2, <1>3, <2>1, <2>2
  <2> HIDE DEF m, slot, b, slots, row, temps, height
  <2>4. slot \in Nat /\ slot < height /\ b <= slot /\ slot < row
    BY ONLY <2>3
  <2> QED
    BY <2>4 DEF b, row, height
<1>10. At(values', slot) = Last /\ \A s \in Nat : s # slot => At(values', s) = At(values, s)
  <2> HIDE DEF slot
  <2> QED
    BY <1>1, <1>3, <1>9, PutAt
<1>11. /\ \A l \in 1 .. Depth : Agree(values, values', frames[l], Shapes)
       /\ ExtrasKept(values, values', Current)
  <2> HIDE DEF slot
  <2> QED
    BY <1>3, <1>9, <1>10, LocalWritten
<1>12. CallsNow' = Recalled(CallsNow, vs, Between(values, RowStart(Current, Shapes), n))
  <2> DEFINE first == RowStart(Current, Shapes)
  <2>1. Extends(Shapes, Shapes')
    BY <1>1 DEF Shapes, Extends
  <2>2. \A k \in 1 .. Depth - 1 : Agree(values, values', frames[k], Shapes)
    BY <1>3, <1>11
  <2>3. CallsNow' = Recalled(CallsNow, vs, Between(values', first, n))
    <3> HIDE DEF n
    <3> QED
      BY <1>1, <1>7, <1>11, <2>1, <2>2, CallsStep
  <2>4. Between(values', first, n) = Between(values, first, n)
    <3>1. first \in Nat /\ Width(Current, Shapes) = Current.temps
      BY <1>1, RunningRow
    <3>2. Agree(values, values', Current, Shapes)
      BY <1>3, <1>11
    <3>3. \A s \in first .. first + n - 1 : s \in Nat /\ first <= s /\ s < first + Current.temps
      <4> HIDE DEF first
      <4> QED
        BY <1>2, <3>1
    <3>4. \A s \in first .. first + n - 1 : At(values', s) = At(values, s)
      BY <3>1, <3>2, <3>3 DEF Agree, InRows
    <3> HIDE DEF first, n
    <3> QED
      BY <1>2, <3>1, <3>4, BetweenKept
  <2> QED
    BY <2>3, <2>4
<1>13. Linked'
  <2>1. /\ Links(frames, cells, owner, functions) /\ Len(owner) = Len(cells) /\ Len(frames') <= DEPTH
    BY <1>3, <1>8, ArenaLists DEF Linked, Links
  <2>2. ASSUME NEW k \in 1 .. Len(frames'), NEW i \in 1 .. Len(frames'[k].vars)
        PROVE  \/ k \in 1 .. Len(frames) /\ i \in 1 .. Len(frames[k].vars) /\ frames'[k].vars[i] = frames[k].vars[i]
               \/ k = Depth /\ i - m \in 1 .. 1 /\ frames'[k].vars[i] = name[i - m]
    <3>1. CASE k = Depth
      <4>1. frames'[k].vars = vs /\ i \in 1 .. m + 1
        BY <3>1, <1>6, <1>8, <2>2
      <4>2. CASE i = m + 1
        <5>1. i - m = 1
          BY <1>2, <4>2
        <5> QED
          BY <3>1, <4>1, <4>2, <5>1, <1>6
      <4>3. CASE i # m + 1
        <5>1. i \in 1 .. m
          BY <1>2, <4>1, <4>3
        <5> QED
          BY <3>1, <4>1, <5>1, <1>3, <1>6
      <4> QED
        BY <4>2, <4>3
    <3>2. CASE k # Depth
      <4>1. k \in 1 .. Depth - 1
        BY <3>2, <1>3, <1>8, <2>2
      <4> QED
        BY <4>1, <1>3, <1>8, <2>2
    <3> QED
      BY <3>1, <3>2
  <2>3. \A j \in 1 .. 1 : name[j] \notin Used(frames, owner)
    BY <1>5
  <2>4. \A j, l \in 1 .. 1 : name[j] = name[l] => j = l
    OBVIOUS
  <2>5. Links(frames', cells, owner, functions)
    <3>1. Anew(frames, owner, name, 1, frames', Depth, m)
      BY <1>2, <2>2, <2>3, <2>4 DEF Anew
    <3> HIDE DEF m
    <3> QED
      BY <2>1, <3>1, LinksMore
  <2> QED
    BY <1>1, <2>5 DEF Linked
<1>14. StoreNow' = Lua!With(name, <<Last>>)
  <2> DEFINE st == Lua!With(name, <<Last>>)
  <2>1. st[name[1]] = Last /\ \A x \in Used(frames, owner) : st[x] = StoreNow[x]
    <3>1. DOMAIN StoreNow = Used(frames, owner)
      BY <1>4, StoreDomain
    <3>2. <<Last>>[1] = Last
      OBVIOUS
    <3>3. Gives(st, StoreNow, name, 1, <<Last>>)
      <4>1. Distinct(name, 1)
        BY <1>5 DEF Distinct
      <4> QED
        BY <4>1, WithIs
    <3>4. \A x \in DOMAIN StoreNow : \A k \in 1 .. 1 : name[k] # x
      BY <1>5, <3>1
    <3> HIDE DEF st
    <3> QED
      BY <3>1, <3>2, <3>3, <3>4 DEF Gives
  <2>2. DOMAIN st = Used(frames, owner) \cup {name[1]} /\ st = [x \in DOMAIN st |-> st[x]]
    <3>1. DOMAIN StoreNow = Used(frames, owner)
      BY <1>4, StoreDomain
    <3>2. Lua!Listed(name) = {name[1]}
      BY <1>5 DEF Lua!Listed
    <3> QED
      BY <3>1, <3>2 DEF Lua!With
  <2> HIDE DEF st
  <2>3. StoreIs(StoreNow, values, frames, cells, owner)
    BY <1>4, StoreNowIs
  <2>4. ASSUME NEW x
        PROVE  x \in Used(frames', owner) <=> x \in DOMAIN st
    <3>1. x \in Used(frames', owner) <=>
            \/ \E k \in 1 .. Len(frames') : \E i \in 1 .. Len(frames'[k].vars) : x = frames'[k].vars[i]
            \/ \E c \in 1 .. Len(owner) : x = owner[c]
      BY InUseIs
    <3>2. x \in Used(frames, owner) <=>
            \/ \E k \in 1 .. Len(frames) : \E i \in 1 .. Len(frames[k].vars) : x = frames[k].vars[i]
            \/ \E c \in 1 .. Len(owner) : x = owner[c]
      BY InUseIs
    <3>3. (\E k \in 1 .. Len(frames') : \E i \in 1 .. Len(frames'[k].vars) : x = frames'[k].vars[i])
            <=> \/ \E k \in 1 .. Len(frames) : \E i \in 1 .. Len(frames[k].vars) : x = frames[k].vars[i]
                \/ x = name[1]
      <4>1. ASSUME NEW k \in 1 .. Depth
            PROVE  (\E i \in 1 .. Len(frames'[k].vars) : x = frames'[k].vars[i])
                     <=> \/ \E i \in 1 .. Len(frames[k].vars) : x = frames[k].vars[i]
                         \/ k = Depth /\ x = name[1]
        <5>1. CASE k = Depth
          <6>1. (\E i \in 1 .. m + 1 : x = vs[i]) <=> (\E i \in 1 .. m : x = vs[i]) \/ x = vs[m + 1]
            <7> HIDE DEF m
            <7>1. \A i : i \in 1 .. m + 1 <=> i \in 1 .. m \/ i = m + 1
              BY <1>2
            <7> QED
              BY <7>1
          <6>2. (\E i \in 1 .. m : x = vs[i]) <=> \E i \in 1 .. m : x = Current.vars[i]
            BY <1>6
          <6>3. /\ frames'[k].vars = vs /\ Len(frames'[k].vars) = m + 1 /\ frames[k].vars = Current.vars
                /\ vs[m + 1] = name[1]
            BY <5>1, <1>3, <1>6, <1>8
          <6> QED
            BY <5>1, <6>1, <6>2, <6>3
        <5>2. CASE k # Depth
          <6>1. frames'[k] = frames[k]
            BY <5>2, <4>1, <1>3, <1>8
          <6> QED
            BY <6>1, <5>2
        <5> QED
          BY <5>1, <5>2
      <4>2. Len(frames') = Depth /\ Len(frames) = Depth /\ Depth \in 1 .. Depth
        BY <1>3, <1>8
      <4> QED
        BY <4>1, <4>2
    <3> QED
      BY <2>2, <3>1, <3>2, <3>3
  <2>5. Used(frames', owner) = DOMAIN st
    BY <2>4
  <2>6. ASSUME NEW k \in 1 .. Len(frames'), NEW i \in 1 .. Len(frames'[k].vars)
        PROVE  st[frames'[k].vars[i]] = At(values', frames'[k].base + i - 1)
    <3>1. CASE k = Depth /\ i = m + 1
      <4>1. frames'[k].vars[i] = name[1] /\ frames'[k].base + i - 1 = slot
        BY <3>1, <1>2, <1>6, <1>8
      <4> QED
        BY <4>1, <2>1, <1>10
    <3>2. CASE ~(k = Depth /\ i = m + 1)
      <4>1. /\ k \in 1 .. Len(frames) /\ i \in 1 .. Len(frames[k].vars)
            /\ frames'[k].vars[i] = frames[k].vars[i] /\ frames'[k].base = frames[k].base
            /\ k = Depth => i <= m
        <5>1. CASE k = Depth
          <6>1. i \in 1 .. m
            BY <5>1, <3>2, <2>6, <1>2, <1>6, <1>8
          <6> QED
            BY <5>1, <6>1, <1>3, <1>6, <1>8
        <5>2. CASE k # Depth
          <6>1. k \in 1 .. Depth - 1
            BY <5>2, <2>6, <1>3, <1>8
          <6> QED
            BY <5>2, <6>1, <2>6, <1>3, <1>8
        <5> QED
          BY <5>1, <5>2
      <4>2. frames[k].base + i - 1 \in Nat /\ frames[k].base + i - 1 # slot
        <5>1. CASE k = Depth
          BY <5>1, <4>1, <1>2, <1>3, SMTT(30)
        <5>2. CASE k # Depth
          <6> DEFINE s == frames[k].base + i - 1
          <6>1. k < Depth
            BY <5>2, <4>1, <1>3
          <6>2. frames[k].base + Shapes[frames[k].func].slots < Current.base
            BY <6>1, <4>1, <1>3, FramesApart
          <6>3. s \in Nat /\ s < frames[k].base + Shapes[frames[k].func].slots
            BY <4>1, <1>3, LocalAt
          <6>4. frames[k].base + Shapes[frames[k].func].slots \in Nat
            <7>1. IsFrame(frames[k], Shapes, Wants)
              BY <4>1, <1>3 DEF FramesOK
            <7>2. RowStart(frames[k], Shapes) \in Nat
              BY <7>1, <1>3, RowBounds
            <7> QED
              BY <7>2 DEF RowStart
          <6> HIDE DEF s, slot
          <6>5. s \in Nat /\ s # slot
            BY <6>2, <6>3, <6>4, <1>2, <1>9
          <6> QED
            BY <6>5 DEF s
        <5> QED
          BY <5>1, <5>2
      <4>3. frames[k].vars[i] \in Used(frames, owner)
        BY <4>1, InUseIs
      <4> HIDE DEF slot
      <4> QED
        BY <4>1, <4>2, <4>3, <2>1, <2>3, <1>10 DEF StoreIs
    <3> QED
      BY <3>1, <3>2
  <2>7. ASSUME NEW c \in 1 .. Len(cells), cells[c].kind = "Closed"
        PROVE  st[owner[c]] = cells[c].value
    <3>1. owner[c] \in Used(frames, owner)
      BY ArenaLists, InUseIs
    <3> QED
      BY <2>1, <2>3, <2>7, <3>1 DEF StoreIs
  <2>8. StoreIs(st, values', frames', cells, owner)
    BY <2>2, <2>5, <2>6, <2>7 DEF StoreIs
  <2>9. StoreIs(st, values', frames', cells', owner')
    BY <1>1, <2>8
  <2> QED
    BY <1>4, <1>13, <2>9, StoreAfter DEF st
<1>15. Lua!DeclareLocal
  <2>1. Lua!Fresh(DOMAIN StoreNow, 1) = name
    BY <1>4, StoreDomain, FreshSame DEF name
  <2>2. /\ Lua!Innermost.temps # <<>> /\ Lua!Innermost.temps[Len(Lua!Innermost.temps)] = Last
        /\ SubSeq(Lua!Innermost.temps, 1, Len(Lua!Innermost.temps) - 1)
             = Between(values, RowStart(Current, Shapes), n)
    BY <1>1, ConsumedRow
  <2>3. Lua!Innermost.vars = Current.vars
    BY InnermostIs
  <2>4. CallsNow' = [CallsNow EXCEPT ![Len(CallsNow)] =
          [Lua!Innermost EXCEPT !.vars = vs, !.temps = Between(values, RowStart(Current, Shapes), n)]]
    BY <1>12, RecalledAfter
  <2>5. CallsNow' = [CallsNow EXCEPT ![Len(CallsNow)] =
          [Lua!Innermost EXCEPT !.vars = @ \o name, !.temps = Between(values, RowStart(Current, Shapes), n)]]
    BY <2>3, <2>4 DEF vs
  <2>6. ClosuresNow' = ClosuresNow
    BY <1>1 DEF ClosuresNow, VariablesOf
  <2> QED
    BY <1>1, <1>14, <2>1, <2>2, <2>5, <2>6 DEF Lua!DeclareLocal
<1>16. Lua!Running
  BY RunningMaps
<1> QED
  BY <1>13, <1>15, <1>16 DEF Implements, Lua!LuaNext, Lua!LuaSteps

-----------------------------------------------------------------------------
(* What a closure captures of the running frame: the slots that have no    *)
(* cell yet, and the cells its upvalues are.                               *)
Captures(sources) == {j \in 1 .. Len(sources) : sources[j][1] = "ParentLocal"}
NewSlots(sources) == {LocalSlot(Current, sources[j][2]) : j \in Captures(sources)} \ DOMAIN open
UpsOf(sources) ==
  [j \in 1 .. Len(sources) |->
     IF j \in Captures(sources) THEN CellOf(NewSlots(sources), LocalSlot(Current, sources[j][2]))
     ELSE Upvals[sources[j][2]]]

(* The instruction, with its cells, owners and upvalues named.             *)
LEMMA ClosureMade ==
  ASSUME NEW p, NEW sources, Closure(p, sources)
  PROVE  /\ Evaluate(FunctionValue(Len(functions) + 1))
         /\ cells' = CellsWith(NewSlots(sources)) /\ owner' = OwnersWith(NewSlots(sources))
         /\ functions' = Append(functions, [proto |-> p, upvals |-> UpsOf(sources)])
         /\ UNCHANGED <<packs, outcome>>
BY DEF Closure, CellsWith, OwnersWith, UpsOf, NewSlots, Captures, CellOf, NthOf, Rank

(* Where a closure's upvalues come from.                                   *)
SourcesIn(sources) ==
  /\ Len(sources) \in Nat
  /\ \A j \in Captures(sources) : sources[j][2] \in 1 .. Len(Current.vars)
  /\ \A j \in (1 .. Len(sources)) \ Captures(sources) : sources[j][2] \in 1 .. Len(Upvals)

(* The sources Step lets a closure have come from there.                   *)
LEMMA SourcesAre ==
  ASSUME IInv, NEW p \in DOMAIN Proto,
         NEW sources \in [1 .. Proto[p].upvals -> Sources(Len(Current.vars), Len(Upvals))]
  PROVE  SourcesIn(sources) /\ Len(sources) = Proto[p].upvals
<1> DEFINE width == Proto[p].upvals
           R == Sources(Len(Current.vars), Len(Upvals))
<1>1. width \in Nat
  <2>1. IsProto(Proto[p])
    BY ArenaLists, ProgramAssumption DEF Proto
  <2> QED
    BY <2>1 DEF IsProto
<1>2. sources \in [1 .. width -> R]
  OBVIOUS
<1>3. \A r \in R : IF r[1] = "ParentLocal" THEN r[2] \in 1 .. Len(Current.vars) ELSE r[2] \in 1 .. Len(Upvals)
  BY DEF Sources
<1> HIDE DEF width, R
<1>4. Len(sources) = width
  BY <1>1, <1>2
<1>5. \A j \in 1 .. width : sources[j] \in R
  BY <1>2
<1> QED
  BY <1>1, <1>3, <1>4, <1>5 DEF SourcesIn, Captures, width

(* A slot of T is one of the running frame's locals, without a cell.       *)
Capturable(T) ==
  /\ T \in SUBSET Nat /\ IsFiniteSet(T)
  /\ \A s \in T : /\ s \notin DOMAIN open
                  /\ s - Current.base + 1 \in 1 .. Len(Current.vars)
                  /\ s = Current.base + (s - Current.base + 1) - 1

(* The slots a closure opens are such ones.                                *)
LEMMA SlotsCaptured ==
  ASSUME IInv, Running, NEW sources, SourcesIn(sources)
  PROVE  Capturable(NewSlots(sources))
<1> DEFINE T == NewSlots(sources)
<1>1. Len(Current.vars) \in Nat /\ Current.base \in Nat /\ Len(values) \in Nat
  <2>1. IsList(Current.vars) /\ Current.base \in Nat /\ Len(values) \in Nat
    BY CurrentBounds
  <2> QED
    BY <2>1 DEF IsList
<1>2. ASSUME NEW s \in T
      PROVE  /\ s \in Nat /\ s <= Len(values) /\ s \notin DOMAIN open
             /\ s - Current.base + 1 \in 1 .. Len(Current.vars)
             /\ s = Current.base + (s - Current.base + 1) - 1
  <2>1. PICK j \in Captures(sources) : s = LocalSlot(Current, sources[j][2])
    BY DEF NewSlots
  <2> DEFINE i == sources[j][2]
  <2>2. i \in 1 .. Len(Current.vars)
    BY DEF SourcesIn
  <2>3. s = LocalSlot(Current, i) /\ s \notin DOMAIN open
    BY <2>1 DEF NewSlots
  <2> HIDE DEF i
  <2>4. s \in Nat /\ s < Len(values)
    BY <2>2, <2>3, RunningLocal
  <2>5. s = Current.base + i - 1
    BY <2>3 DEF LocalSlot
  <2>6. s - Current.base + 1 = i /\ s = Current.base + (s - Current.base + 1) - 1 /\ s <= Len(values)
    BY <1>1, <2>2, <2>4, <2>5
  <2> QED
    BY <2>2, <2>3, <2>4, <2>6
<1> HIDE DEF T
<1>3. T \in SUBSET Nat
  BY <1>2
<1>4. IsFiniteSet(T)
  BY <1>1, <1>2, <1>3, FS_BoundedSetOfNaturals
<1>5. Capturable(T)
  BY <1>2, <1>3, <1>4 DEF Capturable
<1> QED
  BY <1>5 DEF T

(* The cells after it, and whose they are: those there were, and one for   *)
(* each new slot.                                                          *)
NewCell(T, c, s) ==
  /\ c = Len(cells) + Rank(T, s) /\ c = CellOf(T, s)
  /\ CellsWith(T)[c] = Open(s) /\ OwnersWith(T)[c] = Current.vars[s - Current.base + 1]

CellsGrown(T) ==
  LET all == Len(CellsWith(T))
  IN  /\ Len(cells) \in Nat /\ all \in Nat /\ Len(cells) <= all /\ Len(OwnersWith(T)) = all
      /\ IsList(OwnersWith(T)) /\ IsList(CellsWith(T))
      /\ \A c \in 1 .. Len(cells) :
           c \in 1 .. all /\ CellsWith(T)[c] = cells[c] /\ OwnersWith(T)[c] = owner[c]
      /\ \A c \in 1 .. all : c \in 1 .. Len(cells) \/ \E s \in T : NewCell(T, c, s)
      /\ \A s \in T : CellOf(T, s) \in 1 .. all /\ NewCell(T, CellOf(T, s), s)

(* The instruction adds its cells so.                                      *)
LEMMA CellsGrownIs ==
  ASSUME IInv, NEW T, Capturable(T)
  PROVE  CellsGrown(T)
<1> DEFINE m == Cardinality(T)
           ds == CellsWith(T)
           holders == OwnersWith(T)
<1>1. T \in SUBSET Nat /\ IsFiniteSet(T)
  BY DEF Capturable
<1>2. /\ m \in Nat /\ Len(cells) \in Nat
      /\ IsList(ds) /\ Len(ds) = Len(cells) + m
      /\ \A c \in 1 .. Len(cells) : c \in 1 .. Len(ds) /\ ds[c] = cells[c]
      /\ \A n \in 1 .. m : ds[Len(cells) + n] = Open(NthOf(T, n))
      /\ IsList(holders) /\ Len(holders) = Len(ds)
      /\ \A c \in 1 .. Len(cells) : holders[c] = owner[c]
      /\ \A n \in 1 .. m : holders[Len(cells) + n] = Current.vars[NthOf(T, n) - Current.base + 1]
  BY <1>1, CellsWithIs
<1>3. /\ \A n \in 1 .. m : NthOf(T, n) \in T /\ Rank(T, NthOf(T, n)) = n
      /\ \A s \in T : NthOf(T, Rank(T, s)) = s
  BY <1>1, NthIs
<1>4. \A s \in T : Rank(T, s) \in 1 .. m
  BY <1>1, RankIs
<1> HIDE DEF m, ds, holders
<1>5. ASSUME NEW s \in T
      PROVE  CellOf(T, s) \in 1 .. Len(ds) /\ NewCell(T, CellOf(T, s), s)
  <2>1. CellOf(T, s) = Len(cells) + Rank(T, s)
    BY DEF CellOf
  <2>2. ds[Len(cells) + Rank(T, s)] = Open(s)
        /\ holders[Len(cells) + Rank(T, s)] = Current.vars[s - Current.base + 1]
    BY <1>2, <1>3, <1>4
  <2>3. Len(cells) + Rank(T, s) \in 1 .. Len(ds)
    BY <1>2, <1>4
  <2> QED
    BY <2>1, <2>2, <2>3 DEF NewCell, ds, holders
<1>6. ASSUME NEW c \in 1 .. Len(ds), c \notin 1 .. Len(cells)
      PROVE  \E s \in T : NewCell(T, c, s)
  <2> DEFINE n == c - Len(cells)
  <2>1. n \in 1 .. m /\ c = Len(cells) + n
    BY <1>2, <1>6
  <2> HIDE DEF n
  <2>2. NthOf(T, n) \in T /\ Rank(T, NthOf(T, n)) = n
    BY <1>3, <2>1
  <2>3. CellOf(T, NthOf(T, n)) = c
    BY <2>1, <2>2 DEF CellOf
  <2> QED
    BY <1>5, <2>2, <2>3
<1>7. Len(ds) \in Nat /\ Len(cells) <= Len(ds)
  BY <1>2
<1> QED
  BY <1>2, <1>5, <1>6, <1>7 DEF CellsGrown, ds, holders

(* The links stay: each new cell is a variable's that had none.            *)
LEMMA LinksCaptured ==
  ASSUME IInv, Linked, Running, NEW T, Capturable(T)
  PROVE  /\ CellsOnce(OwnersWith(T)) /\ ScopeOpen(frames, CellsWith(T), OwnersWith(T))
         /\ Used(frames, OwnersWith(T)) = Used(frames, owner)
<1>1. CellsGrown(T)
  BY CellsGrownIs
<1>2. Depth \in 1 .. Len(frames) /\ Current = frames[Depth]
  BY CurrentIs DEF Depth, Current
<1>3. CellsOnce(owner) /\ VarsOnce(frames) /\ ScopeOpen(frames, cells, owner)
  BY DEF Linked, Links
<1> DEFINE all == Len(CellsWith(T))
           at(s) == s - Current.base + 1
<1>4. \A s \in T : s \notin DOMAIN open /\ at(s) \in 1 .. Len(Current.vars) /\ s = Current.base + at(s) - 1
  BY DEF Capturable
<1> HIDE DEF at
<1>5. ASSUME NEW s \in T, NEW c \in 1 .. Len(cells)
      PROVE  owner[c] # Current.vars[at(s)]
  <2>1. SUFFICES ASSUME owner[c] = Current.vars[at(s)]
                 PROVE  FALSE
    OBVIOUS
  <2>2. at(s) \in 1 .. Len(frames[Depth].vars) /\ owner[c] = frames[Depth].vars[at(s)]
    BY <1>2, <1>4, <2>1
  <2>3. frames[Depth].base + at(s) - 1 \in DOMAIN open
    BY <1>2, <2>2, CellSlot
  <2> QED
    BY <1>2, <1>4, <2>3
<1>6. ASSUME NEW s \in T, NEW t \in T, Current.vars[at(s)] = Current.vars[at(t)]
      PROVE  s = t
  <2>1. at(s) = at(t)
    BY <1>2, <1>3, <1>4, <1>6 DEF VarsOnce
  <2> QED
    BY <1>4, <2>1
<1>7. ASSUME NEW c \in 1 .. all
      PROVE  \/ c \in 1 .. Len(cells) /\ OwnersWith(T)[c] = owner[c] /\ CellsWith(T)[c] = cells[c]
             \/ \E s \in T : OwnersWith(T)[c] = Current.vars[at(s)] /\ c = CellOf(T, s)
                             /\ CellsWith(T)[c] = Open(s)
  BY <1>1, <1>7 DEF CellsGrown, NewCell, at
<1>8. Len(OwnersWith(T)) = all
  BY <1>1 DEF CellsGrown
<1> HIDE DEF all
<1>9. CellsOnce(OwnersWith(T))
  <2> SUFFICES ASSUME NEW c \in 1 .. all, NEW d \in 1 .. all, OwnersWith(T)[c] = OwnersWith(T)[d]
               PROVE  c = d
    BY <1>8 DEF CellsOnce
  <2> QED
    BY <1>3, <1>5, <1>6, <1>7, ArenaLists DEF CellsOnce
<1>10. ScopeOpen(frames, CellsWith(T), OwnersWith(T))
  <2> SUFFICES ASSUME NEW c \in 1 .. all, NEW k \in 1 .. Len(frames), NEW i \in 1 .. Len(frames[k].vars),
                      OwnersWith(T)[c] = frames[k].vars[i]
               PROVE  CellsWith(T)[c].kind = "Open"
    BY DEF ScopeOpen, all
  <2>1. CASE c \in 1 .. Len(cells) /\ OwnersWith(T)[c] = owner[c] /\ CellsWith(T)[c] = cells[c]
    BY <2>1, <1>3 DEF ScopeOpen
  <2>2. CASE \E s \in T : CellsWith(T)[c] = Open(s)
    BY <2>2 DEF Open
  <2> QED
    BY <2>1, <2>2, <1>7
<1>11. ASSUME NEW x
       PROVE  x \in Used(frames, OwnersWith(T)) <=> x \in Used(frames, owner)
  <2>1. x \in Used(frames, OwnersWith(T)) <=>
          \/ \E k \in 1 .. Len(frames) : \E i \in 1 .. Len(frames[k].vars) : x = frames[k].vars[i]
          \/ \E c \in 1 .. all : x = OwnersWith(T)[c]
    BY <1>8, InUseIs
  <2>2. x \in Used(frames, owner) <=>
          \/ \E k \in 1 .. Len(frames) : \E i \in 1 .. Len(frames[k].vars) : x = frames[k].vars[i]
          \/ \E c \in 1 .. Len(cells) : x = owner[c]
    BY ArenaLists, InUseIs
  <2>3. (\E c \in 1 .. Len(cells) : x = owner[c]) => \E c \in 1 .. all : x = OwnersWith(T)[c]
    BY <1>1 DEF CellsGrown, all
  <2>4. (\E c \in 1 .. all : x = OwnersWith(T)[c]) =>
          \/ \E k \in 1 .. Len(frames) : \E i \in 1 .. Len(frames[k].vars) : x = frames[k].vars[i]
          \/ \E c \in 1 .. Len(cells) : x = owner[c]
    BY <1>2, <1>4, <1>7
  <2> QED
    BY <2>1, <2>2, <2>3, <2>4
<1> QED
  BY <1>9, <1>10, <1>11

(* What the upvalues of a closure stand for: the captured variables.       *)
UpsStand(sources) ==
  /\ IsList(UpsOf(sources)) /\ Len(UpsOf(sources)) = Len(sources)
  /\ \A j \in 1 .. Len(sources) :
       /\ UpsOf(sources)[j] \in 1 .. Len(CellsWith(NewSlots(sources)))
       /\ OwnersWith(NewSlots(sources))[UpsOf(sources)[j]] =
            IF sources[j][1] = "ParentLocal" THEN Current.vars[sources[j][2]]
            ELSE ClosuresNow[Current.func].upvals[sources[j][2]]

(* The new closure's upvalues stand for them.                              *)
LEMMA UpsAre ==
  ASSUME IInv, Linked, Running, NEW sources, SourcesIn(sources)
  PROVE  UpsStand(sources)
<1> DEFINE T == NewSlots(sources)
           ups == UpsOf(sources)
           all == Len(CellsWith(T))
<1>1. Capturable(T) /\ CellsGrown(T)
  BY SlotsCaptured, CellsGrownIs
<1>2. Depth \in 1 .. Len(frames) /\ Current = frames[Depth] /\ Depth \in 1 .. Depth
  BY CurrentIs DEF Depth, Current
<1>3. Len(sources) \in Nat
  BY DEF SourcesIn
<1>4. ups = [j \in 1 .. Len(sources) |-> ups[j]]
  BY DEF UpsOf
<1>5. IsList(ups) /\ Len(ups) = Len(sources)
  <2> HIDE DEF ups
  <2> QED
    BY <1>3, <1>4, ListOf
<1>6. ASSUME NEW j \in 1 .. Len(sources), j \in Captures(sources)
      PROVE  ups[j] \in 1 .. all /\ OwnersWith(T)[ups[j]] = Current.vars[sources[j][2]]
  <2> DEFINE i == sources[j][2]
             s == LocalSlot(Current, i)
  <2>1. i \in 1 .. Len(Current.vars) /\ ups[j] = CellOf(T, s)
    BY <1>6 DEF SourcesIn, UpsOf
  <2>2. s = Current.base + i - 1 /\ Current.base \in Nat /\ i \in Int
    <3>1. Current.base \in Nat
      BY CurrentBounds
    <3>2. i \in Int
      <4> HIDE DEF i
      <4> QED
        BY <2>1
    <3> QED
      BY <3>1, <3>2 DEF LocalSlot
  <2>3. CASE s \in T
    <3>1. NewCell(T, CellOf(T, s), s) /\ CellOf(T, s) \in 1 .. all
      BY <1>1, <2>3 DEF CellsGrown
    <3>2. s - Current.base + 1 = i
      <4> HIDE DEF s, i
      <4> QED
        BY <2>2
    <3> QED
      BY <2>1, <3>1, <3>2 DEF NewCell
  <2>4. CASE s \notin T
    <3>1. s \in DOMAIN open
      BY <1>6, <2>4 DEF NewSlots
    <3>2. CellOf(T, s) = open[s]
      BY <2>4 DEF CellOf
    <3>3. IsLocal(s, owner[open[s]], frames) /\ open[s] \in 1 .. Len(cells)
      BY <3>1, OpenIsOnStack
    <3> HIDE DEF s
    <3>4. PICK l \in 1 .. Len(frames) : \E m \in 1 .. Len(frames[l].vars) :
            s = frames[l].base + m - 1 /\ owner[open[s]] = frames[l].vars[m]
      BY <3>3 DEF IsLocal
    <3>5. PICK m \in 1 .. Len(frames[l].vars) :
            s = frames[l].base + m - 1 /\ owner[open[s]] = frames[l].vars[m]
      BY <3>4
    <3>6. i \in 1 .. Len(frames[Depth].vars) /\ frames[Depth].base + i - 1 = frames[l].base + m - 1
      BY <1>2, <2>1, <2>2, <3>5
    <3>7. Depth = l /\ i = m
      <4> HIDE DEF i
      <4> QED
        BY <1>2, <3>6, SlotsApart
    <3>8. owner[open[s]] = Current.vars[i]
      BY <1>2, <3>5, <3>7
    <3>9. open[s] \in 1 .. all /\ OwnersWith(T)[open[s]] = owner[open[s]]
      BY <1>1, <3>3 DEF CellsGrown
    <3> QED
      BY <2>1, <3>2, <3>8, <3>9
  <2> QED
    BY <2>3, <2>4
<1>7. ASSUME NEW j \in 1 .. Len(sources), j \notin Captures(sources)
      PROVE  ups[j] \in 1 .. all
             /\ OwnersWith(T)[ups[j]] = ClosuresNow[Current.func].upvals[sources[j][2]]
  <2> DEFINE i == sources[j][2]
             f == Current.func
  <2>1. i \in 1 .. Len(Upvals) /\ ups[j] = Upvals[i]
    BY <1>7 DEF SourcesIn, UpsOf
  <2>2. f \in 1 .. Len(functions) /\ Upvals = functions[f].upvals
    BY <1>2, FrameIs DEF Current, Upvals
  <2>3. Upvals[i] \in 1 .. Len(cells) /\ ClosuresNow[f].upvals[i] = owner[Upvals[i]]
    BY <2>1, <2>2, ClosuresAre DEF ClosureIs
  <2>4. Upvals[i] \in 1 .. all /\ OwnersWith(T)[Upvals[i]] = owner[Upvals[i]]
    BY <1>1, <2>3 DEF CellsGrown
  <2> QED
    BY <2>1, <2>3, <2>4
<1> HIDE DEF ups, T, all
<1>8. \A j \in 1 .. Len(sources) : j \in Captures(sources) <=> sources[j][1] = "ParentLocal"
  BY DEF Captures
<1> QED
  BY <1>5, <1>6, <1>7, <1>8 DEF UpsStand, ups, T, all

(* An instruction evaluates while functions are made.                      *)
LEMMA EvaluateCalls ==
  ASSUME IInv, IInv', Running, NEW v, Evaluate(v), UNCHANGED outcome, Extends(Shapes, Shapes')
  PROVE  /\ CallsNow' = Lua!Continue(Append(Lua!Innermost.temps, v))
         /\ LocalsKept(values, values', frames)
         /\ Len(frames') = Len(frames)
         /\ \A k \in 1 .. Len(frames) : frames'[k].vars = frames[k].vars /\ frames'[k].base = frames[k].base
<1> DEFINE first == RowStart(Current, Shapes)
           t == Current.temps
<1>1. /\ Rewritten(frames, frames', Current.top, Current.vars, t + 1, FALSE)
      /\ Untouched(values, values', first + t) /\ At(values', first + t) = v /\ ~Current.spread
  BY EvaluateRow
<1>2. first \in Nat /\ t \in Nat /\ Width(Current, Shapes) = t
  BY <1>1, RunningRow
<1>3. /\ ExtrasKept(values, values', Current) /\ LocalsKept(values, values', frames)
      /\ \A k \in 1 .. Depth - 1 : Agree(values, values', frames[k], Shapes)
  <2>1. first + t \in Nat /\ RowStart(Current, Shapes) <= first + t
    BY <1>2
  <2> HIDE DEF first, t
  <2> QED
    BY <1>1, <2>1, AboveLocals
<1>4. CallsNow' = Recalled(CallsNow, Current.vars, Between(values', first, t + 1))
  BY <1>1, <1>3, CallsStep
<1>5. Between(values', first, t + 1) = Append(Between(values, first, t), v)
  <2> HIDE DEF first, t
  <2>1. Untouched(values, values', first + t) /\ first \in Nat /\ t \in Nat
    BY <1>1, <1>2
  <2>2. Between(values', first, t + 1) = Append(Between(values, first, t), At(values', first + t))
    BY <2>1, BetweenNext
  <2> QED
    BY <2>2, <1>1
<1>6. Lua!Innermost.temps = Between(values, first, t)
  BY <1>2, InnermostIs
<1>7. CallsNow' = Lua!Continue(Append(Lua!Innermost.temps, v))
  <2> HIDE DEF first, t
  <2> QED
    BY <1>4, <1>5, <1>6, ContinueIs
<1>8. Current.vars = frames[Len(frames)].vars
  BY DEF Current, Depth
<1> QED
  BY <1>1, <1>3, <1>7, <1>8, RewrittenLocals

(* More functions made: what their prototypes are.                         *)
LEMMA ShapesMore ==
  ASSUME IInv, UNCHANGED program, NEW x, functions' = Append(functions, x)
  PROVE  Extends(Shapes, Shapes') /\ Appended(functions, x, functions')
<1>1. Appended(functions, x, functions')
  BY ArenaLists, AppendIs
<1>2. \A f \in 1 .. Len(functions) : f \in 1 .. Len(functions') /\ functions'[f] = functions[f]
  BY <1>1 DEF Appended
<1> QED
  BY <1>1, <1>2 DEF Extends, Shapes, ShapesOf

(* Upvalues name cells there are.                                          *)
LEMMA NowWired ==
  ASSUME IInv
  PROVE  Wired(functions, cells)
<1>1. \A f \in 1 .. Len(functions) : functions[f].upvals \in Seq(1 .. Len(cells))
  BY ArenaLists, ArenaBounds
<1> QED
  BY <1>1, SeqIsList DEF Wired

(* The same variables, and more; the variables of a function's cells.      *)
HeldAlso(owners, holders) == \A c \in 1 .. Len(owners) : holders[c] = owners[c]
UpsHeld(up, ups, holders) ==
  IsList(up) /\ Len(up) = Len(ups) /\ \A j \in 1 .. Len(up) : up[j] = holders[ups[j]]

(* One function more, and cells for what it captures: the functions there  *)
(* were captured what they did.                                            *)
LEMMA ClosuresMore ==
  ASSUME NEW fns, IsList(fns), NEW owners, Wired(fns, owners), NEW gns, NEW x,
         Appended(fns, x, gns), NEW holders, HeldAlso(owners, holders), NEW up, UpsHeld(up, x.upvals, holders)
  PROVE  ClosuresIn(gns, holders) = Append(ClosuresIn(fns, owners), [proto |-> x.proto, upvals |-> up])
<1> DEFINE n == Len(fns)
           old == ClosuresIn(fns, owners)
           new == ClosuresIn(gns, holders)
           y == [proto |-> x.proto, upvals |-> up]
<1>1. n \in Nat /\ Len(gns) = n + 1 /\ gns[n + 1] = x /\ \A f \in 1 .. n : gns[f] = fns[f]
  BY DEF Appended
<1>2. /\ old = [f \in 1 .. n |-> old[f]] /\ new = [f \in 1 .. n + 1 |-> new[f]]
  BY <1>1 DEF ClosuresIn
<1>3. \A f \in 1 .. n : old[f] = new[f]
  <2> SUFFICES ASSUME NEW f \in 1 .. n
               PROVE  old[f] = new[f]
    OBVIOUS
  <2>1. f \in 1 .. n + 1 /\ f \in 1 .. Len(gns) /\ gns[f] = fns[f]
    BY <1>1
  <2>2. \A j \in 1 .. Len(fns[f].upvals) : holders[fns[f].upvals[j]] = owners[fns[f].upvals[j]]
    BY DEF Wired, HeldAlso
  <2>3. old[f] = [proto |-> fns[f].proto,
                  upvals |-> [j \in 1 .. Len(fns[f].upvals) |-> owners[fns[f].upvals[j]]]]
    BY DEF ClosuresIn
  <2>4. new[f] = [proto |-> fns[f].proto,
                  upvals |-> [j \in 1 .. Len(fns[f].upvals) |-> holders[fns[f].upvals[j]]]]
    BY <2>1 DEF ClosuresIn
  <2> QED
    BY <2>2, <2>3, <2>4
<1>4. new[n + 1] = y
  <2>1. n + 1 \in 1 .. Len(gns)
    BY <1>1
  <2>2. new[n + 1] = [proto |-> x.proto, upvals |-> [j \in 1 .. Len(x.upvals) |-> holders[x.upvals[j]]]]
    BY <1>1, <2>1 DEF ClosuresIn
  <2>3. up = [j \in 1 .. Len(up) |-> up[j]]
    BY DEF IsList, UpsHeld
  <2>4. up = [j \in 1 .. Len(x.upvals) |-> holders[x.upvals[j]]]
    BY <2>3 DEF UpsHeld
  <2> QED
    BY <2>2, <2>4
<1> HIDE DEF old, new, y
<1>5. IsList(old) /\ Len(old) = n /\ IsList(new) /\ Len(new) = n + 1
  <2>1. n + 1 \in Nat
    BY <1>1
  <2> QED
    BY <1>1, <1>2, <2>1, ListOf
<1>6. Appended(old, y, Append(old, y))
  BY <1>5, AppendIs
<1>7. new = Append(old, y)
  <2>1. \A f \in 1 .. n + 1 : f \in 1 .. n \/ f = n + 1
    BY <1>1
  <2>2. \A f \in 1 .. n + 1 : new[f] = Append(old, y)[f]
    BY <1>3, <1>4, <1>5, <1>6, <2>1 DEF Appended
  <2>3. IsList(Append(old, y)) /\ Len(Append(old, y)) = n + 1
    BY <1>5, <1>6 DEF Appended
  <2> QED
    BY <1>5, <2>2, <2>3, ListsEqual
<1> QED
  BY <1>7 DEF old, new, y

(* As many on both sides.                                                  *)
LEMMA ClosuresLength ==
  ASSUME IInv'
  PROVE  Len(ClosuresNow') = Len(functions')
<1>1. functions' \in Seq([proto : DOMAIN program'.protos, upvals : Seq(1 .. Len(cells'))])
  BY DEF IInv, Sound, ArenasOK
<1>2. Len(functions') \in Nat
  BY <1>1
<1> DEFINE s == ClosuresNow'
<1>3. s = [f \in 1 .. Len(functions') |-> s[f]]
  BY DEF ClosuresNow
<1> HIDE DEF s
<1>4. Len(s) = Len(functions')
  BY <1>2, <1>3, ListOf
<1> QED
  BY <1>4 DEF s

(* The same variables, frame by frame.                                     *)
SameVars(fs, gs) == Len(gs) = Len(fs) /\ \A k \in 1 .. Len(fs) : gs[k].vars = fs[k].vars

(* They are apart still.                                                   *)
LEMMA VarsOnceKept ==
  ASSUME NEW fs, VarsOnce(fs), NEW gs, SameVars(fs, gs)
  PROVE  VarsOnce(gs)
<1>1. Len(gs) = Len(fs) /\ \A k \in 1 .. Len(fs) : gs[k].vars = fs[k].vars
  BY DEF SameVars
<1> SUFFICES ASSUME NEW k \in 1 .. Len(gs), NEW l \in 1 .. Len(gs),
                    NEW i \in 1 .. Len(gs[k].vars), NEW j \in 1 .. Len(gs[l].vars),
                    gs[k].vars[i] = gs[l].vars[j]
             PROVE  k = l /\ i = j
  BY DEF VarsOnce
<1>2. k \in 1 .. Len(fs) /\ l \in 1 .. Len(fs) /\ gs[k].vars = fs[k].vars /\ gs[l].vars = fs[l].vars
  BY <1>1
<1>3. i \in 1 .. Len(fs[k].vars) /\ j \in 1 .. Len(fs[l].vars) /\ fs[k].vars[i] = fs[l].vars[j]
  BY <1>2
<1> QED
  BY <1>2, <1>3 DEF VarsOnce

(* A function is made: it captures variables, not what they hold.          *)
LEMMA ClosureMaps ==
  ASSUME IInv, IInv', Linked, Running, NEW p \in DOMAIN Proto,
         NEW sources \in [1 .. Proto[p].upvals -> Sources(Len(Current.vars), Len(Upvals))],
         Closure(p, sources), UNCHANGED program
  PROVE  Implements
<1> DEFINE T == NewSlots(sources)
           n == Len(functions) + 1
           x == [proto |-> p, upvals |-> UpsOf(sources)]
           v == FunctionValue(n)
           up == [j \in 1 .. Len(sources) |->
                    IF sources[j][1] = "ParentLocal" THEN Current.vars[sources[j][2]]
                    ELSE ClosuresNow[Current.func].upvals[sources[j][2]]]
<1>1. /\ Evaluate(v) /\ cells' = CellsWith(T) /\ owner' = OwnersWith(T)
      /\ functions' = Append(functions, x) /\ UNCHANGED <<packs, outcome>>
  BY ClosureMade
<1>2. SourcesIn(sources) /\ Len(sources) = Proto[p].upvals
  BY SourcesAre
<1>3. Capturable(T) /\ CellsGrown(T) /\ UpsStand(sources)
  BY <1>2, SlotsCaptured, CellsGrownIs, UpsAre
<1>4. /\ CellsOnce(OwnersWith(T)) /\ ScopeOpen(frames, CellsWith(T), OwnersWith(T))
      /\ Used(frames, OwnersWith(T)) = Used(frames, owner)
  BY <1>3, LinksCaptured
<1>5. Extends(Shapes, Shapes') /\ Appended(functions, x, functions') /\ Len(functions') = n
  <2> HIDE DEF x
  <2>1. Extends(Shapes, Shapes') /\ Appended(functions, x, functions')
    BY <1>1, ShapesMore
  <2> QED
    BY <2>1 DEF Appended
<1>6. /\ CallsNow' = Lua!Continue(Append(Lua!Innermost.temps, v))
      /\ LocalsKept(values, values', frames) /\ Len(frames') = Len(frames)
      /\ \A k \in 1 .. Len(frames) : frames'[k].vars = frames[k].vars /\ frames'[k].base = frames[k].base
  <2> HIDE DEF v
  <2> QED
    BY <1>1, <1>5, EvaluateCalls
<1>7. ~Ended /\ ~Ended' /\ Lua!Running /\ Lua!Innermost.func = Current.func /\ Lua!Innermost.vars = Current.vars
  BY <1>1, InnermostIs, RunningMaps DEF Ended, Running
<1>8. Linked'
  <2>1. VarsOnce(frames')
    <3>1. VarsOnce(frames)
      BY DEF Linked, Links
    <3> QED
      BY <3>1, <1>6, VarsOnceKept DEF SameVars
  <2>2. ScopeOpen(frames', cells', owner')
    BY <1>1, <1>4, <1>6 DEF ScopeOpen
  <2>3. CellsHeld(cells', functions')
    <3> SUFFICES ASSUME NEW c \in 1 .. Len(cells')
                 PROVE  \E f \in 1 .. Len(functions') : c \in Listed(functions'[f].upvals)
      BY DEF CellsHeld
    <3>1. CASE c \in 1 .. Len(cells)
      <4>1. PICK f \in 1 .. Len(functions) : c \in Listed(functions[f].upvals)
        BY <3>1 DEF Linked, Links, CellsHeld
      <4>2. f \in 1 .. Len(functions') /\ functions'[f] = functions[f]
        BY <1>5 DEF Appended
      <4> QED
        BY <4>1, <4>2
    <3>2. CASE c \notin 1 .. Len(cells)
      <4>1. PICK s \in T : NewCell(T, c, s)
        BY <1>1, <1>3, <3>2 DEF CellsGrown
      <4>2. PICK j \in Captures(sources) : s = LocalSlot(Current, sources[j][2])
        BY DEF NewSlots
      <4>3. UpsOf(sources)[j] = c /\ j \in 1 .. Len(UpsOf(sources))
        BY <4>1, <4>2, <1>3 DEF UpsOf, NewCell, Captures, UpsStand
      <4>4. c \in Listed(UpsOf(sources))
        BY <4>3 DEF Listed
      <4>5. n \in 1 .. Len(functions') /\ functions'[n].upvals = UpsOf(sources)
        BY <1>5 DEF Appended
      <4> QED
        BY <4>4, <4>5
    <3> QED
      BY <3>1, <3>2
  <2>4. Len(frames') <= DEPTH
    BY <1>6 DEF Linked, Links
  <2> QED
    BY <1>1, <1>4, <2>1, <2>2, <2>3, <2>4 DEF Linked, Links
<1>9. StoreNow' = StoreNow
  <2>1. StoreIs(StoreNow, values, frames, cells, owner)
    BY <1>7, StoreNowIs
  <2>2. StoreIs(StoreNow, values, frames, CellsWith(T), OwnersWith(T))
    <3>1. ASSUME NEW c \in 1 .. Len(CellsWith(T)), CellsWith(T)[c].kind = "Closed"
          PROVE  StoreNow[OwnersWith(T)[c]] = CellsWith(T)[c].value
      <4>1. CASE c \in 1 .. Len(cells)
        <5>1. CellsWith(T)[c] = cells[c] /\ OwnersWith(T)[c] = owner[c]
          BY <1>3, <4>1 DEF CellsGrown
        <5> QED
          BY <5>1, <3>1, <4>1, <2>1 DEF StoreIs
      <4>2. CASE \E s \in T : NewCell(T, c, s)
        BY <3>1, <4>2 DEF NewCell, Open
      <4> QED
        BY <1>3, <4>1, <4>2 DEF CellsGrown
    <3> QED
      BY <3>1, <1>4, <2>1 DEF StoreIs
  <2>3. StoreIs(StoreNow, values', frames', CellsWith(T), OwnersWith(T))
    BY <1>6, <2>2, SameStore
  <2>4. StoreIs(StoreNow, values', frames', cells', owner')
    BY <1>1, <2>3
  <2> QED
    BY <1>7, <1>8, <2>4, StoreAfter
<1>10. up = [j \in 1 .. Len(sources) |-> up[j]] /\ IsList(up) /\ Len(up) = Len(sources)
       /\ \A j \in 1 .. Len(up) : up[j] = OwnersWith(T)[UpsOf(sources)[j]]
  <2>1. up = [j \in 1 .. Len(sources) |-> up[j]] /\ Len(sources) \in Nat
        /\ \A j \in 1 .. Len(sources) : up[j] = OwnersWith(T)[UpsOf(sources)[j]]
    BY <1>2, <1>3 DEF UpsStand, SourcesIn
  <2> HIDE DEF up, T
  <2>2. IsList(up) /\ Len(up) = Len(sources)
    BY <2>1, ListOf
  <2> QED
    BY <2>1, <2>2
<1>11. ClosuresNow' = Append(ClosuresNow, [proto |-> p, upvals |-> up])
  <2>1. ClosuresNow = ClosuresIn(functions, owner) /\ ClosuresNow' = ClosuresIn(functions', owner')
    BY DEF ClosuresNow, VariablesOf, ClosuresIn
  <2>2. IsList(functions) /\ Wired(functions, owner)
    BY ArenaLists, NowWired DEF Wired
  <2>3. HeldAlso(owner, owner')
    BY <1>1, <1>3, ArenaLists DEF CellsGrown, HeldAlso
  <2>4. UpsHeld(up, x.upvals, owner')
    <3>1. Len(up) = Len(x.upvals)
      BY <1>3, <1>10 DEF UpsStand
    <3>2. \A j \in 1 .. Len(up) : up[j] = owner'[x.upvals[j]]
      BY <1>1, <1>10
    <3> HIDE DEF up, x
    <3> QED
      BY <3>1, <3>2, <1>10 DEF UpsHeld
  <2>5. x.proto = p
    OBVIOUS
  <2> HIDE DEF x, up
  <2>6. ClosuresIn(functions', owner') = Append(ClosuresIn(functions, owner), [proto |-> x.proto, upvals |-> up])
    BY <1>5, <2>2, <2>3, <2>4, ClosuresMore
  <2> QED
    BY <2>1, <2>5, <2>6
<1>12. Lua!MakeFunction(p, sources)
  <2>1. Lua!FunctionValue(Len(ClosuresNow')) = v
    <3>1. Len(ClosuresNow') = n
      BY <1>5, ClosuresLength
    <3> QED
      BY <3>1 DEF Lua!FunctionValue, FunctionValue
  <2> HIDE DEF v
  <2> QED
    BY <1>1, <1>6, <1>7, <1>9, <1>11, <2>1 DEF Lua!MakeFunction
<1>13. sources \in [1 .. Lua!Proto[p].upvals ->
                   Lua!Sources(Len(Lua!Innermost.vars), Len(ClosuresNow[Lua!Innermost.func].upvals))]
       /\ p \in DOMAIN Lua!Proto
  <2>1. Len(ClosuresNow[Current.func].upvals) = Len(Upvals)
    <3>1. Depth \in 1 .. Depth
      BY InnermostIs
    <3>2. Current.func \in 1 .. Len(functions)
      BY <3>1, FrameIs DEF Current
    <3> QED
      BY <3>2, ClosuresAre DEF ClosureIs, Upvals
  <2> QED
    BY <1>7, <2>1 DEF Lua!Proto, Proto, Lua!Sources, Sources
<1> QED
  BY <1>7, <1>8, <1>12, <1>13 DEF Implements, Lua!LuaNext, Lua!LuaSteps

-----------------------------------------------------------------------------
(* A range filled, slot by slot.                                           *)
LEMMA FillAt ==
  ASSUME NEW S, NEW v \in Seq(S), NEW from \in Nat, NEW to \in Nat, NEW x, NEW s \in Nat, s < Len(v)
  PROVE  At(Fill(v, from, to, x), s) = IF from <= s /\ s < to THEN x ELSE At(v, s)
<1>1. s + 1 \in 1 .. Len(v)
  OBVIOUS
<1> QED
  BY <1>1 DEF At, Fill

(* A row moved, slot by slot.                                              *)
LEMMA ShiftAt ==
  ASSUME NEW S, NEW v \in Seq(S), NEW from \in Nat, NEW to \in Nat, NEW count \in Nat,
         NEW s \in Nat, s < Len(v)
  PROVE  At(Shift(v, from, to, count), s)
           = IF to <= s /\ s < to + count THEN At(v, s - to + from) ELSE At(v, s)
<1>1. s + 1 \in 1 .. Len(v) /\ s + 1 - to + from = s - to + from + 1
  OBVIOUS
<1> QED
  BY <1>1 DEF At, Shift

(* A list cut or padded, value by value.                                   *)
LEMMA AdjustedIs ==
  ASSUME NEW list, IsList(list), NEW want \in Nat \cup {All}
  PROVE  /\ IsList(Lua!Adjusted(list, want)) /\ Len(Lua!Adjusted(list, want)) = Kept(Len(list), want)
         /\ Kept(Len(list), want) \in Nat
         /\ \A k \in 1 .. Kept(Len(list), want) :
              Lua!Adjusted(list, want)[k] = IF k <= Len(list) THEN list[k] ELSE Nil
<1> DEFINE t == Lua!Adjusted(list, want)
<1>1. Len(list) \in Nat
  BY DEF IsList
<1>2. CASE want = All
  BY <1>1, <1>2 DEF Lua!Adjusted, Kept
<1>3. CASE want # All
  <2>1. want \in Nat /\ t = [k \in 1 .. want |-> t[k]] /\ Kept(Len(list), want) = want
        /\ \A k \in 1 .. want : t[k] = IF k <= Len(list) THEN list[k] ELSE Nil
    BY <1>3 DEF Lua!Adjusted, Kept
  <2> HIDE DEF t
  <2>2. IsList(t) /\ Len(t) = want
    BY <2>1, ListOf
  <2> QED
    BY <2>1, <2>2 DEF t
<1> QED
  BY <1>2, <1>3

(* Results settle as the list they are, cut or padded.                     *)
LEMMA SettledList ==
  ASSUME NEW S, NEW v \in Seq(S), Nil \in S, NEW from \in Nat, NEW to \in Nat,
         NEW produced \in Nat, from + produced <= Len(v), NEW want \in Nat \cup {All}
  PROVE  Lies(SettleValues(v, from, to, produced, want), to, Lua!Adjusted(Between(v, from, produced), want))
<1> DEFINE kept == Kept(produced, want)
           moved == Least(produced, kept)
           grown == Reserve(v, to + kept)
           placed == Shift(grown, from, to, moved)
<1>1. Len(v) \in Nat
  OBVIOUS
<1>2. kept \in Nat /\ moved \in Nat /\ moved <= produced /\ moved <= kept
      /\ (moved = produced \/ moved = kept)
  BY <1>1 DEF Kept, Least
<1>3. grown \in Seq(S) /\ Len(v) <= Len(grown) /\ to + kept <= Len(grown) /\ Len(grown) \in Nat
      /\ \A s \in 0 .. Len(v) - 1 : At(grown, s) = At(v, s)
  <2>1. to + kept \in Nat
    BY <1>2
  <2> HIDE DEF kept
  <2>2. Keeps(v, grown, 0, S) /\ Len(grown) = (IF Len(v) < to + kept THEN to + kept ELSE Len(v))
        /\ \A s \in 0 .. Len(v) - 1 : At(grown, s) = At(v, s)
    BY <2>1, ReserveKeeps
  <2> QED
    BY <1>1, <2>1, <2>2 DEF Keeps
<1>4. placed \in Seq(S) /\ Len(placed) = Len(grown)
  <2>1. from + moved <= Len(grown)
    BY <1>1, <1>2, <1>3
  <2> HIDE DEF grown, moved
  <2> QED
    BY <2>1, <1>2, <1>3, ShiftKeeps DEF Keeps
<1>5. IsList(Between(v, from, produced)) /\ Len(Between(v, from, produced)) = produced
      /\ \A k \in 1 .. produced : Between(v, from, produced)[k] = At(v, from + k - 1)
  BY BetweenIs
<1>6. SUFFICES ASSUME NEW k \in 1 .. kept
               PROVE  At(Fill(placed, to + moved, to + kept, Nil), to + k - 1)
                        = Lua!Adjusted(Between(v, from, produced), want)[k]
  <2>1. Len(Lua!Adjusted(Between(v, from, produced), want)) = kept
    BY <1>5, AdjustedIs
  <2> QED
    BY <2>1 DEF SettleValues, Lies
<1>7. Lua!Adjusted(Between(v, from, produced), want)[k]
        = IF k <= produced THEN At(v, from + k - 1) ELSE Nil
  <2>1. Lua!Adjusted(Between(v, from, produced), want)[k]
          = IF k <= produced THEN Between(v, from, produced)[k] ELSE Nil
    BY <1>5, AdjustedIs
  <2> QED
    BY <1>2, <1>5, <2>1
<1> HIDE DEF kept, moved, grown, placed
<1>8. to + k - 1 \in Nat /\ to + k - 1 < Len(placed) /\ to + moved \in Nat /\ to + kept \in Nat
  BY <1>2, <1>3, <1>4
<1>9. At(Fill(placed, to + moved, to + kept, Nil), to + k - 1)
        = IF to + moved <= to + k - 1 /\ to + k - 1 < to + kept THEN Nil ELSE At(placed, to + k - 1)
  BY <1>4, <1>8, FillAt
<1>10. At(placed, to + k - 1)
         = IF to <= to + k - 1 /\ to + k - 1 < to + moved
           THEN At(grown, to + k - 1 - to + from) ELSE At(grown, to + k - 1)
  <2>1. grown \in Seq(S) /\ to + k - 1 \in Nat /\ to + k - 1 < Len(grown) /\ moved \in Nat
    BY <1>2, <1>3, <1>4, <1>8
  <2>2. At(Shift(grown, from, to, moved), to + k - 1)
          = IF to <= to + k - 1 /\ to + k - 1 < to + moved
            THEN At(grown, to + k - 1 - to + from) ELSE At(grown, to + k - 1)
    BY <2>1, ShiftAt, SMTT(30)
  <2> QED
    BY <2>2 DEF placed
<1>11. CASE k <= moved
  <2>1. k <= produced /\ to <= to + k - 1 /\ to + k - 1 < to + moved /\ ~(to + moved <= to + k - 1)
        /\ to + k - 1 - to + from = from + k - 1 /\ from + k - 1 \in 0 .. Len(v) - 1
    BY <1>1, <1>2, <1>11
  <2>2. At(grown, from + k - 1) = At(v, from + k - 1)
    BY <1>3, <2>1
  <2> QED
    BY <1>7, <1>9, <1>10, <2>1, <2>2
<1>12. CASE ~(k <= moved)
  <2>1. ~(k <= produced) /\ to + moved <= to + k - 1 /\ to + k - 1 < to + kept
    BY <1>2, <1>12
  <2> QED
    BY <1>7, <1>9, <2>1
<1> QED
  BY <1>11, <1>12

(* What a truncated stack keeps.                                           *)
LEMMA TruncateAt ==
  ASSUME NEW S, NEW v \in Seq(S), NEW height \in Nat, NEW s \in Nat, s < height, s < Len(v)
  PROVE  At(Truncate(v, height), s) = At(v, s)
<1>1. Least(height, Len(v)) \in 0 .. Len(v) /\ s + 1 \in 1 .. Least(height, Len(v))
  BY DEF Least
<1> QED
  BY <1>1 DEF At, Truncate

(* A host function's results, settled over it.                             *)
LEMMA NativeList ==
  ASSUME NEW S, NEW v \in Seq(S), Nil \in S, NEW callee \in Nat, callee <= Len(v),
         NEW results \in Seq(S), NEW want \in Nat \cup {All}
  PROVE  Lies(NativeValues(v, callee, results, want), callee, Lua!Adjusted(results, want))
<1> DEFINE mark == Len(v)
           pushed == v \o results
           settled == SettleValues(pushed, mark, callee, Len(results), want)
           kept == Kept(Len(results), want)
           height == Greatest(mark, callee + kept)
<1>1. mark \in Nat /\ Len(results) \in Nat
  OBVIOUS
<1>2. /\ pushed \in Seq(S) /\ Len(pushed) = mark + Len(results)
      /\ \A k \in 1 .. Len(results) : pushed[mark + k] = results[k]
  BY ConcatIs
<1>3. Between(pushed, mark, Len(results)) = results
  <2>1. \A k \in 1 .. Len(results) : Between(pushed, mark, Len(results))[k] = results[k]
    <3> SUFFICES ASSUME NEW k \in 1 .. Len(results)
                 PROVE  Between(pushed, mark, Len(results))[k] = results[k]
      OBVIOUS
    <3>1. mark + k - 1 + 1 = mark + k
      BY <1>1
    <3> HIDE DEF pushed
    <3> QED
      BY <3>1, <1>2 DEF Between, At
  <2>2. IsList(results)
    BY SeqIsList
  <2> HIDE DEF pushed, mark
  <2>3. IsList(Between(pushed, mark, Len(results))) /\ Len(Between(pushed, mark, Len(results))) = Len(results)
    BY <1>1, BetweenIs
  <2> QED
    BY <2>1, <2>2, <2>3, ListsEqual
<1>4. Lies(settled, callee, Lua!Adjusted(results, want))
  <2>1. mark + Len(results) <= Len(pushed)
    BY <1>1, <1>2
  <2> HIDE DEF pushed, mark
  <2>2. Lies(SettleValues(pushed, mark, callee, Len(results), want), callee,
             Lua!Adjusted(Between(pushed, mark, Len(results)), want))
    BY <1>1, <1>2, <2>1, SettledList
  <2> QED
    BY <1>3, <2>2
<1>5. kept \in Nat /\ callee + kept <= Len(settled) /\ settled \in Seq(S)
  <2>1. mark + Len(results) <= Len(pushed)
    BY <1>1, <1>2
  <2>2. /\ settled = SettleValues(pushed, mark, callee, Len(results), want)
        /\ kept = Kept(Len(results), want)
    OBVIOUS
  <2>3. pushed \in Seq(S) /\ mark \in Nat /\ callee <= mark /\ Len(results) \in Nat
    BY <1>1, <1>2
  <2> HIDE DEF pushed, mark, settled, kept
  <2>4. /\ Keeps(pushed, settled, callee, S)
        /\ kept \in Nat /\ callee + kept <= Len(settled)
    BY <2>1, <2>2, <2>3, SettleKeeps
  <2> QED
    BY <2>4 DEF Keeps
<1>6. height \in Nat /\ callee + kept <= height
  BY <1>1, <1>5 DEF Greatest
<1>7. SUFFICES ASSUME NEW k \in 1 .. kept
               PROVE  At(Truncate(settled, height), callee + k - 1) = Lua!Adjusted(results, want)[k]
  <2>1. Len(Lua!Adjusted(results, want)) = kept
    BY AdjustedIs, SeqIsList
  <2> QED
    BY <2>1 DEF NativeValues, Lies
<1> HIDE DEF kept, settled, height
<1>8. callee + k - 1 \in Nat /\ callee + k - 1 < height /\ callee + k - 1 < Len(settled)
  BY <1>5, <1>6
<1>9. At(Truncate(settled, height), callee + k - 1) = At(settled, callee + k - 1)
  BY <1>5, <1>6, <1>8, TruncateAt
<1>10. Len(Lua!Adjusted(results, want)) = kept
  BY AdjustedIs, SeqIsList DEF kept
<1> QED
  BY <1>4, <1>9, <1>10 DEF Lies

-----------------------------------------------------------------------------
(* The caller's row while it waits for the call of its i-th temporary.     *)
LEMMA WaitingRow ==
  ASSUME IInv, Running, NEW i
  PROVE  Rewritten(frames, Waiting(i), Current.base + ProtoOf(Current).registers, Current.vars, i - 1, FALSE)
<1> DEFINE top == Current.base + ProtoOf(Current).registers
           g == Changed(Current, top, Current.vars, i - 1, FALSE)
<1>1. /\ IsFrame(Current, Shapes, Wants) /\ IsList(frames) /\ frames # <<>>
      /\ Current = frames[Len(frames)]
  BY CurrentIs DEF FramesOK, Current, Depth
<1>2. IsRow(Current)
  BY <1>1, ChangedOnly
<1>3. Waiting(i) = WithFrame(frames, g)
  BY <1>2 DEF Waiting, IsRow
<1> HIDE DEF top
<1> QED
  BY <1>1, <1>3, RowWith DEF top

(* The last frame's row is open up to a top, or has that many temporaries. *)
OpenRow(fs, gs, top, temps) == Rewritten(fs, gs, top, fs[Len(fs)].vars, temps, TRUE)
ShutRow(fs, gs, top, temps) == Rewritten(fs, gs, top, fs[Len(fs)].vars, temps, FALSE)

(* It has come to hold n values.                                           *)
RowLeft(fs, gs, n) ==
  \/ \E top, temps : OpenRow(fs, gs, top, temps) /\ n = top - RowStart(fs[Len(fs)], Shapes)
  \/ \E top, temps : ShutRow(fs, gs, top, temps) /\ n = temps

(* A row changed twice is changed.                                         *)
LEMMA RowTwice ==
  ASSUME NEW fs, NEW gs, NEW top, NEW variables, NEW temps, NEW spread,
         Rewritten(fs, gs, top, variables, temps, spread), variables = fs[Len(fs)].vars,
         NEW hs, NEW high, NEW more
  PROVE  /\ OpenRow(gs, hs, high, more) => OpenRow(fs, hs, high, more)
         /\ ShutRow(gs, hs, high, more) => ShutRow(fs, hs, high, more)
BY DEF Rewritten, ChangedTo, OpenRow, ShutRow

(* Results settled over the row of a frame that is not open.               *)
LEMMA SettledLeft ==
  ASSUME NEW wants, NEW fs, IsList(fs), fs # <<>>, Bounded(Shapes),
         IsFrame(fs[Len(fs)], Shapes, wants), ~fs[Len(fs)].spread,
         NEW produced \in Nat, NEW want \in Nat \cup {All}
  PROVE  RowLeft(fs, SettleFrames(fs, Reach(fs[Len(fs)], Shapes), produced, want),
                 fs[Len(fs)].temps + Kept(produced, want))
<1> DEFINE f == fs[Len(fs)]
           to == Reach(f, Shapes)
           gs == SettleFrames(fs, to, produced, want)
<1>1. f.temps \in Nat /\ RowStart(f, Shapes) \in Nat /\ to = RowStart(f, Shapes) + f.temps
  BY RowBounds
<1>2. IF want = All THEN Rewritten(fs, gs, to + produced, f.vars, f.temps, TRUE)
      ELSE Rewritten(fs, gs, f.top, f.vars, f.temps + want, f.spread)
  BY SettledRow
<1> DEFINE n == f.temps + Kept(produced, want)
<1>3. CASE want = All
  <2> DEFINE top == to + produced
  <2>1. n = top - RowStart(f, Shapes)
    BY <1>1, <1>3 DEF Kept
  <2>2. OpenRow(fs, gs, top, f.temps)
    BY <1>2, <1>3 DEF OpenRow
  <2> HIDE DEF gs, to, n, top
  <2>3. RowLeft(fs, gs, n)
    BY <2>1, <2>2 DEF RowLeft
  <2> QED
    BY <2>3 DEF gs, to, n
<1>4. CASE want # All
  <2>1. n = f.temps + want
    BY <1>4 DEF Kept
  <2>2. ShutRow(fs, gs, f.top, f.temps + want)
    <3>1. f.spread = FALSE
      BY DEF IsFrame
    <3> QED
      BY <1>2, <1>4, <3>1 DEF ShutRow
  <2> HIDE DEF gs, to, n
  <2>3. RowLeft(fs, gs, n)
    BY <2>1, <2>2 DEF RowLeft
  <2> QED
    BY <2>3 DEF gs, to, n
<1> QED
  BY <1>3, <1>4

(* Values put after the first of the running call's temporaries.           *)
Follows(m, list) == RowLeft(frames, frames', m + Len(list)) /\ IsList(list)
                    /\ Untouched(values, values', RowStart(Current, Shapes) + m)
                    /\ Lies(values', RowStart(Current, Shapes) + m, list)

(* That is a step of the calls, and of nothing else.                       *)
LEMMA RowFollows ==
  ASSUME IInv, IInv', Linked, Running, UNCHANGED <<cells, owner, functions, outcome, program>>,
         NEW m \in 0 .. Width(Current, Shapes), NEW list, Follows(m, list)
  PROVE  /\ Linked' /\ StoreNow' = StoreNow /\ ClosuresNow' = ClosuresNow
         /\ CallsNow' = Lua!Continue(SubSeq(Lua!Innermost.temps, 1, m) \o list)
<1> DEFINE first == RowStart(Current, Shapes)
           n == m + Len(list)
<1>1. first \in Nat /\ Width(Current, Shapes) \in Nat /\ m \in Nat /\ first + m \in Nat /\ first <= first + m
  <2>1. first \in Nat /\ Width(Current, Shapes) \in Nat
    BY RunningRow
  <2> HIDE DEF first
  <2> QED
    BY <2>1
<1>2. IsList(list) /\ Untouched(values, values', first + m) /\ Lies(values', first + m, list)
      /\ RowLeft(frames, frames', n)
  BY DEF Follows
<1> HIDE DEF n, first
<1>3. frames[Len(frames)] = Current
  BY DEF Current, Depth
<1>4. RowStart(Current, Shapes) <= first + m
  BY <1>1 DEF first
<1>5. ASSUME \E top, temps : OpenRow(frames, frames', top, temps) /\ n = top - RowStart(Current, Shapes)
      PROVE  Linked' /\ RowHolds(n)
  <2>1. PICK top, temps : OpenRow(frames, frames', top, temps) /\ n = top - RowStart(Current, Shapes)
    BY <1>5
  <2>2. Rewritten(frames, frames', top, Current.vars, temps, TRUE)
    BY <1>3, <2>1 DEF OpenRow
  <2>3. Linked'
    BY <2>2, RowLinked
  <2> QED
    BY <1>1, <1>2, <1>4, <2>1, <2>2, <2>3, RowStep
<1>10. ASSUME \E top, temps : ShutRow(frames, frames', top, temps) /\ n = temps
      PROVE  Linked' /\ RowHolds(n)
  <2>1. PICK top, temps : ShutRow(frames, frames', top, temps) /\ n = temps
    BY <1>10
  <2>2. Rewritten(frames, frames', top, Current.vars, temps, FALSE)
    BY <1>3, <2>1 DEF ShutRow
  <2>3. Linked'
    BY <2>2, RowLinked
  <2> QED
    BY <1>1, <1>2, <1>4, <2>1, <2>2, <2>3, RowStep
<1>6. Linked' /\ RowHolds(n)
  BY <1>2, <1>3, <1>5, <1>10 DEF RowLeft
<1>7. Between(values', first, n) = Between(values, first, m) \o list
  <2>3. Between(values', first, m + Len(list)) = Between(values, first, m) \o list
    <3>1. Adjoins(values, values', first, m, first + m, list, m + Len(list))
      BY <1>1, <1>2 DEF Adjoins
    <3> QED
      BY <3>1, BetweenJoined
  <2> QED
    BY <2>3 DEF n
<1>8. SubSeq(Lua!Innermost.temps, 1, m) = Between(values, first, m)
  <2>1. Lua!Innermost.temps = Between(values, first, Width(Current, Shapes))
    BY InnermostIs DEF first
  <2>2. SubSeq(Between(values, first, Width(Current, Shapes)), 1, m) = Between(values, first, m)
    BY <1>1, BetweenFirst
  <2> QED
    BY <2>1, <2>2
<1>9. ClosuresNow' = ClosuresNow
  BY DEF ClosuresNow, VariablesOf
<1> QED
  BY <1>6, <1>7, <1>8, <1>9 DEF RowHolds, first

(* What is kept below a slot of the stack is untouched.                    *)
LEMMA KeptUntouched ==
  ASSUME NEW S, NEW v, NEW w, NEW from \in Nat, from <= Len(v), Keeps(v, w, from, S)
  PROVE  Untouched(v, w, from)
<1>1. Len(v) \in Nat
  BY DEF Keeps
<1> QED
  BY <1>1 DEF Keeps, Untouched

(* An error ends the run, and Lua's with it.                               *)
LEMMA ThrowMaps ==
  ASSUME IInv, Linked, Throw
  PROVE  Linked' /\ Lua!Fail
BY DEF Throw, Lua!Fail, Linked, CallsNow, StoreNow, ClosuresNow, VariablesOf, Ended

(* The i-th temporary is the i-th value, and its arguments those after it. *)
LEMMA CalleeIs ==
  ASSUME IInv, Running, NEW i \in 1 .. Current.temps
  PROVE  /\ i \in 1 .. Len(Lua!Innermost.temps)
         /\ Lua!Innermost.temps[i] = At(values, TempSlot(Current, i))
         /\ SubSeq(Lua!Innermost.temps, 1, i - 1) = Between(values, RowStart(Current, Shapes), i - 1)
         /\ Lua!Rest(Lua!Innermost.temps, i + 1) = Between(values, TempSlot(Current, i) + 1, Args(i))
         /\ TempSlot(Current, i) = RowStart(Current, Shapes) + (i - 1)
         /\ i - 1 \in 0 .. Width(Current, Shapes) /\ i \in 0 .. Width(Current, Shapes)
<1> DEFINE first == RowStart(Current, Shapes)
           n == Width(Current, Shapes)
           callee == TempSlot(Current, i)
<1>1. /\ first \in Nat /\ n \in Nat /\ Current.temps \in Nat /\ Current.temps <= n
      /\ callee = first + i - 1 /\ callee \in Nat /\ Args(i) \in Nat
      /\ Current.spread \in BOOLEAN
      /\ Current.spread => n = Current.top - first
      /\ ~Current.spread => n = Current.temps
  BY RunningRow, CalleeBounds
<1>2. Args(i) = n - i
  <2>1. CASE Current.spread
    <3>1. Args(i) = Current.top - callee - 1
      BY <2>1 DEF Args
    <3>2. Current.top \in Nat
      BY CurrentBounds
    <3> HIDE DEF first, n, callee
    <3> QED
      BY <1>1, <2>1, <3>1, <3>2
  <2>2. CASE ~Current.spread
    BY <1>1, <2>2 DEF Args
  <2> QED
    BY <2>1, <2>2
<1>3. Lua!Innermost.temps = Between(values, first, n)
  BY InnermostIs
<1> HIDE DEF first, n, callee
<1>4. Len(Between(values, first, n)) = n /\ Between(values, first, n)[i] = At(values, first + i - 1)
  BY <1>1, BetweenIs
<1>5. i - 1 \in 0 .. n /\ i \in 0 .. n /\ callee + 1 = first + i /\ callee = first + (i - 1)
  BY <1>1
<1>6. SubSeq(Between(values, first, n), 1, i - 1) = Between(values, first, i - 1)
  BY <1>1, <1>5, BetweenFirst
<1>7. Lua!Rest(Between(values, first, n), i + 1) = Between(values, first + i, n - i)
  BY <1>1, <1>5, BetweenRest
<1> QED
  BY <1>1, <1>2, <1>3, <1>4, <1>5, <1>6, <1>7 DEF first, n, callee

(* What the host answers is something the stack may hold.                  *)
LEMMA ResultsHeld ==
  ASSUME NEW results \in HostResults
  PROVE  results \in Seq(Holds) /\ IsList(results) /\ Len(results) \in Nat
<1>1. results \in Seq(Plain \cup {Native}) /\ Plain \cup {Native} \subseteq Holds
  BY PlainAssumption DEF Holds, Stored
<1>2. results \in Seq(Holds)
  BY <1>1
<1> QED
  BY <1>2, SeqIsList

(* A caller's row with results settled over the callee.                    *)
LEMMA WaitingLeft ==
  ASSUME IInv, Running, NEW i \in 1 .. Current.temps, NEW produced \in Nat, NEW want \in Nat \cup {All}
  PROVE  RowLeft(frames, SettleFrames(Waiting(i), TempSlot(Current, i), produced, want),
                 (i - 1) + Kept(produced, want))
<1> DEFINE gs == Waiting(i)
           g == gs[Len(gs)]
           hs == SettleFrames(gs, TempSlot(Current, i), produced, want)
           n == (i - 1) + Kept(produced, want)
<1>1. Waits(gs, i)
  BY WaitingIs
<1>2. Rewritten(frames, gs, Current.base + ProtoOf(Current).registers, Current.vars, i - 1, FALSE)
  BY WaitingRow
<1>3. Bounded(Shapes) /\ IsList(gs) /\ gs # <<>> /\ IsFrame(g, Shapes, Wants) /\ ~g.spread
      /\ Reach(g, Shapes) = TempSlot(Current, i) /\ g.temps = i - 1
  BY <1>1, CurrentIs DEF Waits, FramesOK
<1>4. g.vars = Current.vars /\ g.base = Current.base /\ g.func = Current.func
      /\ frames[Len(frames)] = Current
  BY <1>2 DEF Rewritten, ChangedTo, Current, Depth
<1>5. RowStart(g, Shapes) = RowStart(frames[Len(frames)], Shapes)
  BY <1>4 DEF RowStart
<1>6. RowLeft(gs, hs, n)
  <2> HIDE DEF gs
  <2>1. RowLeft(gs, SettleFrames(gs, Reach(gs[Len(gs)], Shapes), produced, want),
                gs[Len(gs)].temps + Kept(produced, want))
    BY <1>3, SettledLeft
  <2> QED
    BY <1>3, <2>1
<1> HIDE DEF hs, n, gs
<1>7. ASSUME NEW top, NEW temps, OpenRow(gs, hs, top, temps)
      PROVE  OpenRow(frames, hs, top, temps)
  BY <1>2, <1>4, <1>7, RowTwice
<1>8. ASSUME NEW top, NEW temps, ShutRow(gs, hs, top, temps)
      PROVE  ShutRow(frames, hs, top, temps)
  BY <1>2, <1>4, <1>8, RowTwice
<1>9. RowLeft(frames, hs, n)
  BY <1>5, <1>6, <1>7, <1>8 DEF RowLeft
<1> QED
  BY <1>9 DEF hs, n, gs

(* A host function is called.                                              *)
LEMMA CallNativeMaps ==
  ASSUME IInv, IInv', Linked, Running, NEW i \in 1 .. Current.temps, NEW want \in Wants,
         NEW results \in HostResults, CallNative(i, want, results), UNCHANGED program
  PROVE  Implements
<1> DEFINE callee == TempSlot(Current, i)
           list == Lua!Adjusted(results, want)
           w == NativeValues(values, callee, results, want)
<1>1. /\ i \in 1 .. Len(Lua!Innermost.temps) /\ Lua!Innermost.temps[i] = Native
      /\ callee = RowStart(Current, Shapes) + (i - 1) /\ i - 1 \in 0 .. Width(Current, Shapes)
  BY CalleeIs DEF CallNative
<1>2. Lua!Running /\ Lua!Wants = Wants
  BY RunningMaps DEF Lua!Wants, Wants
<1>3. SUFFICES Linked' /\ Lua!CallHost(i, want, results)
  BY <1>1, <1>2 DEF Implements, Lua!LuaNext, Lua!LuaSteps
<1>4. CASE Throw
  BY <1>1, <1>4, ThrowMaps DEF Lua!CallHost
<1>5. CASE /\ values' = w /\ UNCHANGED <<open, heap, outcome>>
           /\ frames' = SettleFrames(Waiting(i), callee, Len(results), want)
  <2>1. /\ results \in Seq(Holds) /\ IsList(results) /\ Len(results) \in Nat
        /\ want \in Nat \cup {All} /\ values \in Seq(Holds) /\ Nil \in Holds
    BY ResultsHeld, CurrentIs
  <2>2. callee \in Nat /\ callee <= Len(values)
    <3>1. callee \in Nat /\ Args(i) \in Nat /\ callee + 1 + Args(i) <= Len(values) /\ Len(values) \in Nat
      BY CalleeBounds, CurrentBounds
    <3> HIDE DEF callee
    <3> QED
      BY <3>1
  <2>3. IsList(list) /\ Len(list) = Kept(Len(results), want)
    BY <2>1, AdjustedIs
  <2>4. RowLeft(frames, frames', (i - 1) + Len(list))
    BY <1>5, <2>1, <2>3, WaitingLeft
  <2> HIDE DEF callee, w
  <2>5. Untouched(values, w, callee)
    <3>1. Keeps(values, w, callee, Holds)
      BY <2>1, <2>2, NativeKeeps DEF w
    <3> QED
      BY <2>2, <3>1, KeptUntouched
  <2>6. Lies(w, callee, list)
    BY <2>1, <2>2, NativeList DEF w
  <2>7. Follows(i - 1, list)
    BY <1>1, <1>5, <2>3, <2>4, <2>5, <2>6 DEF Follows
  <2>8. UNCHANGED <<cells, owner, functions, outcome, program>> /\ UNCHANGED packs
    BY <1>5 DEF heap
  <2> HIDE DEF list
  <2>9. /\ Linked' /\ StoreNow' = StoreNow /\ ClosuresNow' = ClosuresNow
        /\ CallsNow' = Lua!Continue(SubSeq(Lua!Innermost.temps, 1, i - 1) \o list)
    BY <1>1, <2>7, <2>8, RowFollows
  <2> QED
    BY <1>1, <2>8, <2>9 DEF Lua!CallHost, list
<1> QED
  BY <1>4, <1>5 DEF CallNative

-----------------------------------------------------------------------------
(* The first of a list lies from a slot on, and there is room for as many  *)
(* as are wanted.                                                          *)
Pads(v, to, list, copied, kept, want) ==
  /\ to \in Nat /\ IsList(list) /\ want \in Nat \cup {All} /\ kept = Kept(Len(list), want)
  /\ copied \in Nat /\ copied <= kept /\ copied <= Len(list) /\ (copied = kept \/ copied = Len(list))
  /\ to + kept <= Len(v) /\ \A k \in 1 .. copied : At(v, to + k - 1) = list[k]

(* With nil after it, that is the list cut or padded.                      *)
LEMMA PaddedList ==
  ASSUME NEW S, NEW v \in Seq(S), NEW to, NEW list, NEW copied, NEW kept, NEW want,
         Pads(v, to, list, copied, kept, want)
  PROVE  Lies(Fill(v, to + copied, to + kept, Nil), to, Lua!Adjusted(list, want))
<1> DEFINE t == Lua!Adjusted(list, want)
           w == Fill(v, to + copied, to + kept, Nil)
<1>1. /\ to \in Nat /\ IsList(list) /\ Len(list) \in Nat /\ want \in Nat \cup {All} /\ kept = Kept(Len(list), want)
      /\ copied \in Nat /\ copied <= kept /\ copied <= Len(list) /\ (copied = kept \/ copied = Len(list))
      /\ to + kept <= Len(v) /\ \A k \in 1 .. copied : At(v, to + k - 1) = list[k]
  BY DEF Pads, IsList
<1>2. kept \in Nat /\ Len(t) = kept
      /\ \A k \in 1 .. kept : t[k] = IF k <= Len(list) THEN list[k] ELSE Nil
  BY <1>1, AdjustedIs
<1> HIDE DEF t
<1>3. SUFFICES ASSUME NEW k \in 1 .. kept
               PROVE  At(w, to + k - 1) = t[k]
  BY <1>2 DEF Lies, t
<1>4. /\ to + k - 1 \in Nat /\ to + k - 1 < Len(v) /\ to + copied \in Nat /\ to + kept \in Nat
  BY <1>1, <1>2
<1>5. At(w, to + k - 1)
        = IF to + copied <= to + k - 1 /\ to + k - 1 < to + kept THEN Nil ELSE At(v, to + k - 1)
  BY <1>4, FillAt
<1> HIDE DEF w
<1>6. CASE k <= copied
  <2>1. k \in 1 .. copied /\ k <= Len(list) /\ ~(to + copied <= to + k - 1)
    BY <1>1, <1>2, <1>6
  <2> QED
    BY <1>1, <1>2, <1>5, <2>1
<1>7. CASE ~(k <= copied)
  <2>1. ~(k <= Len(list)) /\ to + copied <= to + k - 1 /\ to + k - 1 < to + kept
    BY <1>1, <1>2, <1>7
  <2> QED
    BY <1>2, <1>5, <2>1
<1> QED
  BY <1>6, <1>7

(* The running function, on Lua's side; the table that names its `...`.    *)
LEMMA NamedMaps ==
  ASSUME IInv, Linked, Running
  PROVE  /\ Lua!Shape(Lua!Innermost.func) = ProtoOf(Current)
         /\ Named => StoreNow[Lua!Innermost.vars[ProtoOf(Current).params + 1]]
                       = At(values, Current.base + ProtoOf(Current).params)
<1>1. Lua!Innermost.func = Current.func /\ Lua!Innermost.vars = Current.vars /\ Depth \in 1 .. Depth
  BY InnermostIs
<1>2. Lua!Shape(Current.func) = ProtoOf(Current)
  <2>1. Current.func \in 1 .. Len(functions) /\ ProtoOf(Current) = Shapes[Current.func]
    BY <1>1, FrameIs DEF Current
  <2> QED
    BY <2>1, ClosuresAre DEF ClosureIs
<1>3. ASSUME Named
      PROVE  StoreNow[Current.vars[ProtoOf(Current).params + 1]]
               = At(values, Current.base + ProtoOf(Current).params)
  <2> DEFINE p == ProtoOf(Current)
  <2>1. p.params \in Nat /\ Len(Current.vars) \in Fixed(p) .. p.slots /\ Current.base \in Nat /\ p.slots \in Nat
        /\ Fixed(p) \in Nat
    BY CurrentBounds
  <2>2. Fixed(p) = p.params + 1
    BY <1>3 DEF Named, Fixed
  <2> HIDE DEF p
  <2>3. p.params + 1 \in 1 .. Len(Current.vars) /\ Current.base + (p.params + 1) - 1 = Current.base + p.params
    BY <2>1, <2>2
  <2>4. StoreNow[Current.vars[p.params + 1]] = At(values, LocalSlot(Current, p.params + 1))
    BY <2>3, LocalValue
  <2>5. LocalSlot(Current, p.params + 1) = Current.base + p.params
    BY <2>3 DEF LocalSlot
  <2> QED
    BY <2>4, <2>5 DEF p
<1> QED
  BY <1>1, <1>2, <1>3

(* The extra arguments, on both sides.                                     *)
PackItem(k) == IF k <= Len(Pack.items) THEN Pack.items[k] ELSE Nil

ExtraAre ==
  /\ IsList(Lua!Extra) /\ Len(Lua!Extra) = Available
  /\ Named => \A k \in 1 .. Available : Lua!Extra[k] = PackItem(k)
  /\ ~Named => Lua!Extra = Between(values, Current.base - Current.varargs, Current.varargs)

(* `...` is the same list on both sides, below the frame's base or in the  *)
(* table that names it.                                                    *)
LEMMA ExtraIs ==
  ASSUME IInv, Linked, Running, ~(Named /\ Pack.n = BadCount)
  PROVE  ExtraAre
<1>1. Lua!Shape(Lua!Innermost.func) = ProtoOf(Current)
      /\ (Named => StoreNow[Lua!Innermost.vars[ProtoOf(Current).params + 1]]
                     = At(values, Current.base + ProtoOf(Current).params))
  BY NamedMaps
<1>2. CASE Named
  <2>1. Lua!Extra = Lua!Adjusted(Pack.items, Pack.n)
    BY <1>1, <1>2 DEF Lua!Extra, Pack, Named
  <2>2. Pack.items \in Seq(Holds) /\ Pack.n \in Nat /\ Pack.n # All
    BY <1>2, PackIs, CountAssumption
  <2>3. IsList(Pack.items)
    BY <2>2, SeqIsList
  <2>4. Kept(Len(Pack.items), Pack.n) = Pack.n /\ Available = Pack.n
    BY <1>2, <2>2 DEF Kept, Available
  <2>5. /\ IsList(Lua!Adjusted(Pack.items, Pack.n)) /\ Len(Lua!Adjusted(Pack.items, Pack.n)) = Pack.n
        /\ \A k \in 1 .. Pack.n : Lua!Adjusted(Pack.items, Pack.n)[k] = PackItem(k)
    BY <2>2, <2>3, <2>4, AdjustedIs DEF PackItem
  <2> QED
    BY <1>2, <2>1, <2>4, <2>5 DEF ExtraAre
<1>3. CASE ~Named
  <2>1. Lua!Extra = Between(values, Current.base - Current.varargs, Current.varargs)
    BY <1>1, <1>3, InnermostIs DEF Lua!Extra, Named
  <2>2. Available = Current.varargs /\ Current.varargs \in Nat
    BY <1>3, CurrentBounds DEF Available
  <2>3. IsList(Between(values, Current.base - Current.varargs, Current.varargs))
        /\ Len(Between(values, Current.base - Current.varargs, Current.varargs)) = Current.varargs
    BY <2>2, BetweenIs
  <2> QED
    BY <1>3, <2>1, <2>2, <2>3 DEF ExtraAre
<1> QED
  BY <1>2, <1>3

(* The extra arguments spread over the temporaries: what is below stays,   *)
(* and they lie there, cut or padded.                                      *)
SpreadOver(grown, to, copied) ==
  IF Named
  THEN [k \in 1 .. Len(grown) |-> IF to < k /\ k <= to + copied THEN PackItem(k - to) ELSE grown[k]]
  ELSE Shift(grown, Current.base - Current.varargs, to, copied)

Spreads(grown, to, copied) ==
  /\ SpreadOver(grown, to, copied) \in Seq(Holds) /\ Len(SpreadOver(grown, to, copied)) = Len(grown)
  /\ Untouched(grown, SpreadOver(grown, to, copied), to)
  /\ \A k \in 1 .. copied : At(SpreadOver(grown, to, copied), to + k - 1) = Lua!Extra[k]

(* Spreading writes from there on only.                                    *)
LEMMA SpreadIs ==
  ASSUME IInv, Linked, Running, ~(Named /\ Pack.n = BadCount),
         NEW grown \in Seq(Holds), NEW to \in Nat, NEW copied \in Nat, copied <= Available,
         to + copied <= Len(grown), Current.base <= to, to <= Len(grown),
         Untouched(values, grown, to)
  PROVE  Spreads(grown, to, copied)
<1> DEFINE w == SpreadOver(grown, to, copied)
           n == Len(grown)
<1>1. n \in Nat /\ ExtraAre /\ Available \in Nat
  BY ExtraIs, AvailableIs
<1>2. CASE Named
  <2>1. \A k \in 1 .. n : to < k /\ k <= to + copied => k - to \in 1 .. copied
    BY <1>1
  <2>2. Nil \in Holds /\ Pack.items \in Seq(Holds)
    BY <1>2, PackIs, CurrentIs
  <2>3. \A k \in 1 .. copied : PackItem(k) \in Holds
    <3> SUFFICES ASSUME NEW k \in 1 .. copied
                 PROVE  PackItem(k) \in Holds
      OBVIOUS
    <3>1. CASE k <= Len(Pack.items)
      <4>1. k \in 1 .. Len(Pack.items)
        BY <2>2, <3>1
      <4>2. Pack.items[k] \in Holds
        BY <2>2, <4>1
      <4> QED
        BY <3>1, <4>2 DEF PackItem
    <3>2. CASE ~(k <= Len(Pack.items))
      BY <2>2, <3>2 DEF PackItem
    <3> QED
      BY <3>1, <3>2
  <2>4. w = [k \in 1 .. n |-> w[k]]
        /\ \A k \in 1 .. n : w[k] = IF to < k /\ k <= to + copied THEN PackItem(k - to) ELSE grown[k]
    BY <1>2 DEF SpreadOver
  <2> HIDE DEF w
  <2>5. \A k \in 1 .. n : w[k] \in Holds
    <3>1. \A k \in 1 .. n : grown[k] \in Holds
      OBVIOUS
    <3> QED
      BY <2>1, <2>3, <2>4, <3>1
  <2>6. w \in Seq(Holds) /\ Len(w) = n
    BY <1>1, <2>4, <2>5, SequenceOf
  <2>7. Untouched(grown, w, to)
    <3> SUFFICES ASSUME NEW s \in Nat, s < to
                 PROVE  At(w, s) = At(grown, s)
      BY DEF Untouched
    <3>1. s + 1 \in 1 .. n /\ ~(to < s + 1)
      BY <1>1
    <3> QED
      BY <2>4, <3>1 DEF At
  <2>8. ASSUME NEW k \in 1 .. copied
        PROVE  At(w, to + k - 1) = Lua!Extra[k]
    <3>1. to + k - 1 + 1 = to + k /\ to + k \in 1 .. n /\ to < to + k /\ to + k <= to + copied
          /\ to + k - to = k /\ k \in 1 .. Available
      BY <1>1
    <3>2. w[to + k] = PackItem(k)
      BY <2>4, <3>1
    <3> QED
      BY <1>1, <1>2, <3>1, <3>2 DEF At, ExtraAre
  <2> QED
    BY <2>6, <2>7, <2>8 DEF Spreads, w
<1>3. CASE ~Named
  <2> DEFINE from == Current.base - Current.varargs
  <2>1. w = Shift(grown, from, to, copied)
    BY <1>3 DEF SpreadOver
  <2>2. Current.base \in Nat /\ Current.varargs \in Nat /\ Current.varargs <= Current.base
        /\ Available = Current.varargs
    BY <1>3, CurrentBounds, AvailableIs
  <2>3. from \in Nat /\ from + copied <= Current.base /\ from + Current.varargs = Current.base
    <3>1. PICK b \in Nat : b = from
      BY <2>2
    <3>2. b + Current.varargs = Current.base
      BY <2>2, <3>1
    <3> QED
      BY <2>2, <3>1, <3>2
  <2> HIDE DEF w, from
  <2>4. Keeps(grown, w, to, Holds) /\ Len(w) = n
    <3>1. from + copied <= Len(grown)
      BY <1>1, <2>2, <2>3
    <3> QED
      BY <2>1, <2>3, <3>1, ShiftKeeps
  <2>5. w \in Seq(Holds) /\ Untouched(grown, w, to)
    BY <2>4, KeptUntouched DEF Keeps
  <2>6. ASSUME NEW k \in 1 .. copied
        PROVE  At(w, to + k - 1) = Lua!Extra[k]
    <3>1. to + k - 1 \in Nat /\ to + k - 1 < n /\ to <= to + k - 1 /\ to + k - 1 < to + copied
          /\ to + k - 1 - to + from = from + k - 1 /\ from + k - 1 \in Nat /\ from + k - 1 < to
          /\ k \in 1 .. Current.varargs
      BY <1>1, <2>2, <2>3
    <3>2. At(w, to + k - 1)
            = IF to <= to + k - 1 /\ to + k - 1 < to + copied
              THEN At(grown, to + k - 1 - to + from) ELSE At(grown, to + k - 1)
      BY <2>1, <2>3, <3>1, ShiftAt
    <3>3. At(grown, from + k - 1) = At(values, from + k - 1)
      BY <3>1 DEF Untouched
    <3>4. Lua!Extra[k] = At(values, from + k - 1)
      <4>1. Between(values, from, Current.varargs)[k] = At(values, from + k - 1)
        BY <2>2, <3>1, BetweenIs
      <4> QED
        BY <1>1, <1>3, <4>1 DEF ExtraAre, from
    <3> QED
      BY <3>1, <3>2, <3>3, <3>4
  <2> QED
    BY <2>4, <2>5, <2>6 DEF Spreads, w
<1> QED
  BY <1>2, <1>3

-----------------------------------------------------------------------------
(* The extra arguments, as many as are wanted of them.                     *)
Spilled(to, wanted, copied) ==
  Fill(SpreadOver(Reserve(values, to + wanted), to, copied), to + copied, to + wanted, Nil)

SpreadLies(w, to, want) ==
  Untouched(values, w, to) /\ Lies(w, to, Lua!Adjusted(Lua!Extra, want))

(* So it lies over the temporaries, cut or padded.                         *)
LEMMA SpilledIs ==
  ASSUME IInv, Linked, Running, ~(Named /\ Pack.n = BadCount), NEW want \in Nat \cup {All},
         NEW to \in Nat, Current.base <= to, to <= Len(values),
         NEW wanted, wanted = Kept(Available, want), NEW copied, copied = Least(wanted, Available)
  PROVE  SpreadLies(Spilled(to, wanted, copied), to, want)
<1> DEFINE grown == Reserve(values, to + wanted)
           over == SpreadOver(grown, to, copied)
           w == Fill(over, to + copied, to + wanted, Nil)
<1>1. values \in Seq(Holds) /\ Nil \in Holds /\ Len(values) \in Nat /\ Available \in Nat /\ ExtraAre
  BY CurrentIs, AvailableIs, ExtraIs
<1>2. wanted \in Nat /\ copied \in Nat /\ copied <= wanted /\ copied <= Available
      /\ (copied = wanted \/ copied = Available)
  BY <1>1 DEF Kept, Least
<1>3. Keeps(values, grown, to, Holds) /\ Len(grown) \in Nat /\ to + wanted <= Len(grown) /\ to <= Len(grown)
  <2>1. to + wanted \in Nat
    BY <1>2
  <2>2. Keeps(values, grown, to, Holds)
        /\ Len(grown) = IF Len(values) < to + wanted THEN to + wanted ELSE Len(values)
    BY <1>1, <2>1, ReserveKeeps
  <2> HIDE DEF grown
  <2> QED
    BY <1>1, <1>2, <2>1, <2>2
<1>4. grown \in Seq(Holds) /\ Untouched(values, grown, to) /\ to + copied <= Len(grown)
  <2> HIDE DEF grown
  <2> QED
    BY <1>2, <1>3, KeptUntouched DEF Keeps
<1>5. Spreads(grown, to, copied)
  <2> HIDE DEF grown
  <2> QED
    BY <1>2, <1>3, <1>4, SpreadIs
<1>6. over \in Seq(Holds) /\ Len(over) = Len(grown) /\ Untouched(grown, over, to)
      /\ \A k \in 1 .. copied : At(over, to + k - 1) = Lua!Extra[k]
  BY <1>5 DEF Spreads
<1> HIDE DEF grown, over
<1>7. Lies(w, to, Lua!Adjusted(Lua!Extra, want))
  <2>1. Pads(over, to, Lua!Extra, copied, wanted, want)
    BY <1>1, <1>2, <1>3, <1>6 DEF Pads, ExtraAre
  <2> QED
    BY <1>6, <2>1, PaddedList
<1>8. Untouched(over, w, to)
  <2>1. to + copied \in Nat /\ to <= to + copied /\ to <= Len(over)
    BY <1>2, <1>3, <1>6
  <2> HIDE DEF w
  <2>2. Keeps(over, w, to + copied, Holds)
    BY <1>1, <1>6, <2>1, FillKeeps DEF w
  <2>3. Keeps(over, w, to, Holds)
    BY <2>1, <2>2, KeepsFewer
  <2> QED
    BY <2>1, <2>3, KeptUntouched
<1>9. Untouched(values, w, to)
  <2> HIDE DEF w
  <2> QED
    BY <1>4, <1>6, <1>8 DEF Untouched
<1> QED
  BY <1>7, <1>9 DEF SpreadLies, Spilled, grown, over

(* The extra arguments are spread.                                         *)
LEMMA VarargMaps ==
  ASSUME IInv, IInv', Linked, Running, NEW want \in Wants, Vararg(want), UNCHANGED program
  PROVE  Implements
<1> DEFINE to == TempSlot(Current, Current.temps + 1)
           wanted == IF want = All THEN Available ELSE want
           copied == Least(wanted, Available)
           w == Spilled(to, wanted, copied)
           list == Lua!Adjusted(Lua!Extra, want)
           width == Width(Current, Shapes)
<1>1. SUFFICES Linked' /\ Lua!Spread(want)
  <2>1. Lua!Running /\ Lua!Wants = Wants
    BY RunningMaps DEF Lua!Wants, Wants
  <2> QED
    BY <2>1 DEF Implements, Lua!LuaNext, Lua!LuaSteps
<1>2. CASE Throw
  BY <1>2, ThrowMaps DEF Lua!Spread
<1>3. CASE /\ ~(Named /\ Pack.n = BadCount) /\ ~Current.spread
           /\ values' = w /\ frames' = SettleFrames(frames, to, wanted, want)
           /\ UNCHANGED <<open, heap, outcome>>
  <2>1. want \in Nat \cup {All} /\ Bounded(Shapes) /\ Available \in Nat /\ ExtraAre
        /\ FramesOK(frames, Shapes, Wants, Len(values)) /\ frames # <<>> /\ Current = frames[Len(frames)]
    BY <1>3, CurrentIs, AvailableIs, ExtraIs DEF Current, Depth
  <2>2. IsList(frames) /\ IsFrame(Current, Shapes, Wants)
    BY <2>1, CurrentIs DEF FramesOK
  <2>3. wanted \in Nat /\ Kept(wanted, want) = wanted /\ wanted = Kept(Available, want)
    BY <2>1 DEF Kept
  <2>4. /\ to \in Nat /\ Current.base <= to /\ to <= Len(values) /\ to = Reach(Current, Shapes)
        /\ to = RowStart(Current, Shapes) + width /\ width = Current.temps /\ width \in Nat
    <3>1. /\ RowStart(Current, Shapes) \in Nat /\ Current.temps \in Nat /\ width = Current.temps
          /\ Current.base \in Nat /\ Current.base <= RowStart(Current, Shapes)
          /\ RowStart(Current, Shapes) + Current.temps <= Len(values) /\ Len(values) \in Nat
          /\ to = RowStart(Current, Shapes) + (Current.temps + 1) - 1
      BY <1>3, RunningRow
    <3>2. Reach(Current, Shapes) = RowStart(Current, Shapes) + Current.temps
      BY <2>1, <2>2, RowBounds
    <3> HIDE DEF to, width
    <3> QED
      BY <3>1, <3>2
  <2>5. IsList(list) /\ Len(list) = wanted
    BY <2>1, <2>3, AdjustedIs DEF ExtraAre
  <2> HIDE DEF to, wanted, copied, list, width
  <2>6. RowLeft(frames, frames', width + Len(list))
    <3>1. RowLeft(frames, SettleFrames(frames, Reach(Current, Shapes), wanted, want),
                  Current.temps + Kept(wanted, want))
      BY <1>3, <2>1, <2>2, <2>3, SettledLeft
    <3> QED
      BY <1>3, <2>3, <2>4, <2>5, <3>1
  <2>7. Untouched(values, w, to) /\ Lies(w, to, list)
    <3>1. copied = Least(wanted, Available)
      BY DEF copied
    <3>2. SpreadLies(Spilled(to, wanted, copied), to, want)
      BY <1>3, <2>1, <2>3, <2>4, <3>1, SpilledIs
    <3> QED
      BY <3>2 DEF SpreadLies, list
  <2>8. Follows(width, list)
    BY <1>3, <2>4, <2>5, <2>6, <2>7 DEF Follows
  <2>9. UNCHANGED <<cells, owner, functions, outcome, program>> /\ UNCHANGED packs
    BY <1>3 DEF heap
  <2>10. width \in 0 .. Width(Current, Shapes) /\ SubSeq(Lua!Innermost.temps, 1, width) = Lua!Innermost.temps
    <3>1. Lua!Innermost.temps = Between(values, RowStart(Current, Shapes), width)
      BY InnermostIs DEF width
    <3>2. RowStart(Current, Shapes) \in Nat /\ width \in 0 .. width /\ width = Width(Current, Shapes)
      BY <2>4, RunningRow DEF width
    <3> QED
      BY <2>4, <3>1, <3>2, BetweenFirst
  <2>11. /\ Linked' /\ StoreNow' = StoreNow /\ ClosuresNow' = ClosuresNow
         /\ CallsNow' = Lua!Continue(Lua!Innermost.temps \o list)
    <3>1. /\ Linked' /\ StoreNow' = StoreNow /\ ClosuresNow' = ClosuresNow
          /\ CallsNow' = Lua!Continue(SubSeq(Lua!Innermost.temps, 1, width) \o list)
      BY <2>8, <2>9, <2>10, RowFollows
    <3> QED
      BY <2>10, <3>1
  <2>12. ~(/\ Lua!Shape(Lua!Innermost.func).vararg = "Table"
           /\ packs[StoreNow[Lua!Innermost.vars[Lua!Shape(Lua!Innermost.func).params + 1]][2]].n = BadCount)
    BY <1>3, NamedMaps DEF Named, Pack
  <2> QED
    BY <2>9, <2>11, <2>12 DEF Lua!Spread, list
<1>4. ~Current.spread /\ (Throw \/ (/\ ~(Named /\ Pack.n = BadCount)
                /\ values' = w /\ frames' = SettleFrames(frames, to, wanted, want)
                /\ UNCHANGED <<open, heap, outcome>>))
  BY DEF Vararg, Spilled, SpreadOver, PackItem
<1> QED
  BY <1>2, <1>3, <1>4

(* A constructor's row goes into its table.                                *)
LEMMA SetListMaps ==
  ASSUME IInv, IInv', Linked, Running, NEW i \in 1 .. Current.temps, SetList(i), UNCHANGED program
  PROVE  Implements
<1> DEFINE callee == TempSlot(Current, i)
           from == TempSlot(Current, i + 1)
           count == IF Current.spread THEN Current.top - from ELSE Current.temps - i
           top == IF Current.spread THEN Current.base + ProtoOf(Current).registers ELSE Current.top
           first == RowStart(Current, Shapes)
<1>1. /\ i \in 1 .. Len(Lua!Innermost.temps) /\ Lua!Innermost.temps[i] = At(values, callee)
      /\ Lua!Rest(Lua!Innermost.temps, i + 1) = Between(values, callee + 1, Args(i))
      /\ i \in 0 .. Width(Current, Shapes)
  BY CalleeIs
<1>2. /\ IsTable(At(values, callee))
      /\ packs' = [packs EXCEPT ![At(values, callee)[2]].items =
                     @ \o [k \in 1 .. count |-> At(values, from + k - 1)]]
      /\ frames' = WithFrame(frames, [Current EXCEPT !.top = top, !.temps = i, !.spread = FALSE])
      /\ UNCHANGED <<values, open, cells, functions, owner, outcome>>
  BY DEF SetList
<1>3. from = callee + 1 /\ count = Args(i)
  <2>1. callee = first + i - 1 /\ from = first + (i + 1) - 1 /\ first \in Nat /\ Current.top \in Nat
    BY RunningRow, CurrentBounds
  <2>2. from = callee + 1
    <3> HIDE DEF first, callee, from
    <3> QED
      BY <2>1
  <2>3. Current.top - from = Current.top - callee - 1
    <3> HIDE DEF first, callee, from
    <3> QED
      BY <2>1
  <2> QED
    BY <2>2, <2>3 DEF Args
<1>4. Rewritten(frames, frames', top, Current.vars, i, FALSE)
  <2>1. /\ IsFrame(Current, Shapes, Wants) /\ IsList(frames) /\ frames # <<>>
        /\ Current = frames[Len(frames)]
    BY CurrentIs DEF FramesOK, Current, Depth
  <2> HIDE DEF top
  <2>2. [Current EXCEPT !.top = top, !.temps = i, !.spread = FALSE] = Changed(Current, top, Current.vars, i, FALSE)
    <3>1. IsRow(Current)
      BY <2>1, ChangedOnly
    <3> QED
      BY <3>1 DEF IsRow
  <2> QED
    BY <1>2, <2>1, <2>2, RowWith
<1>5. Linked'
  BY <1>2, <1>4, RowLinked
<1>6. RowHolds(i)
  <2>1. first \in Nat /\ Untouched(values, values', first) /\ first <= first
    BY <1>2, RunningRow DEF Untouched
  <2> HIDE DEF top
  <2> QED
    BY <1>2, <1>4, <1>5, <2>1, RowStep
<1>7. SubSeq(Lua!Innermost.temps, 1, i) = Between(values', first, i)
  <2>1. Lua!Innermost.temps = Between(values, first, Width(Current, Shapes))
    BY InnermostIs
  <2>2. first \in Nat /\ Width(Current, Shapes) \in Nat
    BY RunningRow
  <2> HIDE DEF first
  <2> QED
    BY <1>1, <1>2, <2>1, <2>2, BetweenFirst
<1>8. ClosuresNow' = ClosuresNow
  BY <1>2 DEF ClosuresNow, VariablesOf
<1>9. Lua!IsTable(Lua!Innermost.temps[i])
  BY <1>1, <1>2 DEF Lua!IsTable, IsTable
<1>10. packs' = [packs EXCEPT ![Lua!Innermost.temps[i][2]].items = @ \o Lua!Rest(Lua!Innermost.temps, i + 1)]
  <2>1. [k \in 1 .. count |-> At(values, from + k - 1)] = Between(values, callee + 1, Args(i))
    BY <1>3 DEF Between
  <2> HIDE DEF count, from, callee
  <2> QED
    BY <1>1, <1>2, <2>1
<1>11. Lua!FillTable(i)
  BY <1>2, <1>6, <1>7, <1>8, <1>9, <1>10 DEF Lua!FillTable, RowHolds
<1> QED
  BY <1>1, <1>5, <1>11, RunningMaps DEF Implements, Lua!LuaNext, Lua!LuaSteps

(* What is mapped stays when nothing it is read from changes.              *)
LEMMA NothingSeen ==
  ASSUME IInv, IInv', Linked, UNCHANGED <<values, frames, cells, functions, owner, outcome, program>>
  PROVE  Linked' /\ CallsNow' = CallsNow /\ StoreNow' = StoreNow /\ ClosuresNow' = ClosuresNow
<1>1. Linked' /\ ClosuresNow' = ClosuresNow /\ Shapes' = Shapes
  BY DEF Linked, ClosuresNow, VariablesOf, Shapes
<1>2. CASE Ended
  BY <1>1, <1>2 DEF Ended, CallsNow, StoreNow
<1>3. CASE ~Ended
  <2>1. ~Ended'
    BY <1>3 DEF Ended
  <2>2. CallsNow' = CallsNow
    BY <1>1, <1>3, <2>1, CallsNowIs, CallsAfter
  <2>3. StoreIs(StoreNow, values', frames', cells', owner')
    BY <1>3, StoreNowIs
  <2> QED
    BY <1>1, <2>1, <2>2, <2>3, StoreAfter
<1> QED
  BY <1>2, <1>3

(* A vararg table's n is stored.                                           *)
LEMMA StoreCountMaps ==
  ASSUME IInv, IInv', Linked, Running, NEW n \in Counts, StoreCount(n), UNCHANGED program
  PROVE  Implements
<1>1. /\ Named /\ UNCHANGED <<values, frames, open, cells, functions, owner, outcome>>
      /\ packs' = [packs EXCEPT ![At(values, Current.base + ProtoOf(Current).params)[2]].n = n]
  BY DEF StoreCount
<1>2. CallsNow' = CallsNow /\ StoreNow' = StoreNow /\ ClosuresNow' = ClosuresNow /\ Linked'
  BY <1>1, NothingSeen
<1>3. Lua!StoreCount(n)
  BY <1>1, <1>2, NamedMaps DEF Lua!StoreCount, Named
<1>4. Lua!Counts = Counts
  BY DEF Lua!Counts, Counts
<1> QED
  BY <1>2, <1>3, <1>4, RunningMaps DEF Implements, Lua!LuaNext, Lua!LuaSteps

(* What is no function is called.                                          *)
LEMMA CallOtherMaps ==
  ASSUME IInv, IInv', Linked, Running, NEW i \in 1 .. Current.temps, CallOther(i), UNCHANGED program
  PROVE  Implements
<1>1. i \in 1 .. Len(Lua!Innermost.temps) /\ Lua!Innermost.temps[i] = At(values, TempSlot(Current, i))
  BY CalleeIs
<1>2. ~Lua!IsFunction(Lua!Innermost.temps[i]) /\ Lua!Innermost.temps[i] # Native /\ Throw
  BY <1>1 DEF CallOther, Lua!IsFunction, IsFunction
<1>3. Linked' /\ Lua!CallWrong(i)
  BY <1>2, ThrowMaps DEF Lua!CallWrong
<1> QED
  BY <1>1, <1>3, RunningMaps DEF Implements, Lua!LuaNext, Lua!LuaSteps

-----------------------------------------------------------------------------
(* A function's arguments where its frame begins: the parameters in its    *)
(* first registers, the rest below them.                                   *)
EnteredRow(v, p, callee, args, w) ==
  LET base == EnterBase(p, callee, args)
      list == Between(v, callee + 1, args)
  IN  /\ Untouched(v, w, base) /\ Lies(w, base, Lua!Adjusted(list, p.params))
      /\ p.vararg # "None" =>
           Between(w, base - EnterVarargs(p, args), EnterVarargs(p, args)) = Lua!Rest(list, p.params + 1)

(* The arguments put in place, the missing ones nil.                       *)
PlacedValues(v, p, callee, args) ==
  LET first == callee + 1
      base == EnterBase(p, callee, args)
      moved == Least(p.params, args)
      grown == Reserve(v, base + Greatest(p.registers, Fixed(p)))
  IN  IF base # first
      THEN Fill(Shift(grown, first, base, moved), base + moved, base + p.params, Nil)
      ELSE Fill(grown, first + moved, base + p.params, Nil)

Placed(S, v, p, callee, args, w) ==
  LET base == EnterBase(p, callee, args)
  IN  /\ w \in Seq(S) /\ Len(w) \in Nat /\ base + Fixed(p) <= Len(w) /\ base <= Len(w)
      /\ base \in Nat /\ Fixed(p) \in Nat /\ p.params \in Nat /\ p.params <= Fixed(p)
      /\ p.vararg = "Table" => p.params < Fixed(p)
      /\ Untouched(v, w, base) /\ Lies(w, base, Lua!Adjusted(Between(v, callee + 1, args), p.params))

(* The arguments lie where the frame begins before a vararg table is put   *)
(* after them.                                                             *)
LEMMA PlacedIs ==
  ASSUME NEW S, NEW v \in Seq(S), Nil \in S, NEW p, IsProto(p),
         NEW callee \in Nat, NEW args \in Nat, callee + 1 + args <= Len(v)
  PROVE  Placed(S, v, p, callee, args, PlacedValues(v, p, callee, args))
<1> DEFINE base == EnterBase(p, callee, args)
           first == callee + 1
           moved == Least(p.params, args)
           height == base + Greatest(p.registers, Fixed(p))
           grown == Reserve(v, height)
           shifted == Shift(grown, first, base, moved)
           list == Between(v, first, args)
           w == PlacedValues(v, p, callee, args)
<1>1. /\ p.params \in Nat /\ p.registers \in Nat /\ Fixed(p) \in Nat /\ p.params <= Fixed(p)
      /\ p.vararg = "Table" => p.params < Fixed(p)
      /\ base \in Nat /\ (base = first \/ base = first + args) /\ Len(v) \in Nat
  <2>1. Len(v) \in Nat
    OBVIOUS
  <2>2. /\ p.params \in Nat /\ p.registers \in Nat /\ Fixed(p) \in Nat /\ p.params <= Fixed(p)
        /\ p.vararg = "Table" => p.params < Fixed(p)
        /\ base \in Nat /\ (base = callee + 1 \/ base = callee + 1 + args)
    BY ProtoBounds
  <2> HIDE DEF base
  <2> QED
    BY <2>1, <2>2
<1>2. /\ moved \in Nat /\ moved <= p.params /\ moved <= args /\ (moved = p.params \/ moved = args)
      /\ height \in Nat /\ base + Fixed(p) <= height
  BY <1>1 DEF Least, Greatest
<1>3. w = IF base # first THEN Fill(shifted, base + moved, base + p.params, Nil)
          ELSE Fill(grown, first + moved, base + p.params, Nil)
  BY DEF PlacedValues
<1>4. IsList(list) /\ Len(list) = args /\ \A k \in 1 .. args : list[k] = At(v, first + k - 1)
  BY BetweenIs
<1> HIDE DEF moved, height, base, list, w
<1>5. first \in Nat /\ first + args <= Len(v) /\ first <= base
  BY <1>1
<1>6. /\ grown \in Seq(S) /\ Len(grown) \in Nat /\ height <= Len(grown) /\ first + args <= Len(grown)
      /\ \A s \in Nat : s < Len(v) => At(grown, s) = At(v, s)
  <2>1. /\ Keeps(v, grown, 0, S) /\ \A s \in 0 .. Len(v) - 1 : At(grown, s) = At(v, s)
        /\ Len(grown) = IF Len(v) < height THEN height ELSE Len(v)
    BY <1>2, ReserveKeeps
  <2> HIDE DEF grown, first
  <2> QED
    BY <1>1, <1>2, <1>5, <2>1 DEF Keeps
<1>7. \A k \in 1 .. args : At(grown, first + k - 1) = list[k]
  <2> SUFFICES ASSUME NEW k \in 1 .. args
               PROVE  At(grown, first + k - 1) = list[k]
    OBVIOUS
  <2> HIDE DEF grown, first
  <2>1. first + k - 1 \in Nat /\ first + k - 1 < Len(v)
    BY <1>1, <1>5
  <2> QED
    BY <1>4, <1>6, <2>1
<1>8. base + Fixed(p) <= Len(grown) /\ base + p.params <= Len(grown) /\ base + moved <= Len(grown)
      /\ base + moved \in Nat /\ base <= Len(grown) /\ base <= Len(v)
  <2> HIDE DEF grown, first
  <2> QED
    BY <1>1, <1>2, <1>5, <1>6
<1> DEFINE over == IF base # first THEN shifted ELSE grown
<1>9. /\ over \in Seq(S) /\ Len(over) = Len(grown) /\ Untouched(grown, over, base)
      /\ \A k \in 1 .. moved : At(over, base + k - 1) = list[k]
  <2>1. CASE base # first
    <3>1. over = shifted /\ first + moved <= Len(grown) /\ first \in Nat
      <4>1. over = shifted
        BY <2>1
      <4> HIDE DEF over, shifted, grown, first
      <4> QED
        BY <1>2, <1>5, <1>6, <4>1
    <3> HIDE DEF over, grown, first
    <3>2. Keeps(grown, shifted, base, S) /\ Len(shifted) = Len(grown)
      BY <1>1, <1>2, <1>6, <3>1, ShiftKeeps
    <3>3. ASSUME NEW k \in 1 .. moved
          PROVE  At(shifted, base + k - 1) = list[k]
      <4>1. base + k - 1 \in Nat /\ base + k - 1 < Len(grown) /\ base <= base + k - 1
            /\ base + k - 1 < base + moved /\ base + k - 1 - base + first = first + k - 1 /\ k \in 1 .. args
        BY <1>1, <1>2, <1>6, <1>8, <3>1
      <4>2. At(shifted, base + k - 1)
              = IF base <= base + k - 1 /\ base + k - 1 < base + moved
                THEN At(grown, base + k - 1 - base + first) ELSE At(grown, base + k - 1)
        BY <1>1, <1>2, <1>6, <3>1, <4>1, ShiftAt, SMTT(30)
      <4> QED
        BY <1>7, <4>1, <4>2
    <3> HIDE DEF shifted
    <3> QED
      BY <1>1, <1>6, <1>8, <3>1, <3>2, <3>3, KeptUntouched DEF Keeps
  <2>2. CASE base = first
    <3>1. over = grown
      BY <2>2
    <3> HIDE DEF over, grown
    <3>2. \A k \in 1 .. moved : At(grown, base + k - 1) = list[k]
      BY <1>2, <1>7, <2>2
    <3> QED
      BY <1>6, <3>1, <3>2 DEF Untouched
  <2> QED
    BY <2>1, <2>2
<1>10. w = Fill(over, base + moved, base + p.params, Nil)
  BY <1>3
<1> HIDE DEF over, grown, shifted, first
<1>11. Kept(Len(list), p.params) = p.params
  <2>1. p.params # All
    BY <1>1, CountAssumption
  <2> QED
    BY <2>1 DEF Kept
<1>12. Lies(w, base, Lua!Adjusted(list, p.params))
  <2>1. Pads(over, base, list, moved, p.params, p.params)
    BY <1>1, <1>2, <1>4, <1>8, <1>9, <1>11 DEF Pads
  <2> QED
    BY <1>9, <1>10, <2>1, PaddedList
<1>13. w \in Seq(S) /\ Len(w) = Len(over) /\ Untouched(over, w, base)
  <2>1. Keeps(over, w, base + moved, S) /\ Len(w) = Len(over)
    BY <1>8, <1>9, <1>10, FillKeeps
  <2>2. base <= base + moved
    BY <1>1, <1>2
  <2>3. Keeps(over, w, base, S)
    BY <1>1, <1>8, <2>1, <2>2, KeepsFewer
  <2>4. base <= Len(over)
    BY <1>8, <1>9
  <2> QED
    BY <1>1, <2>1, <2>3, <2>4, KeptUntouched DEF Keeps
<1>14. Untouched(v, w, base)
  <2> SUFFICES ASSUME NEW s \in Nat, s < base
               PROVE  At(w, s) = At(v, s)
    BY DEF Untouched
  <2>1. s < Len(v)
    BY <1>1, <1>8
  <2> QED
    BY <1>6, <1>9, <1>13, <2>1 DEF Untouched
<1> QED
  BY <1>1, <1>6, <1>8, <1>9, <1>12, <1>13, <1>14 DEF Placed, w, base, list, first

(* The frame laid out: its parameters, and its extra arguments below it.   *)
LEMMA EntersIn ==
  ASSUME NEW S, NEW v \in Seq(S), Nil \in S, NEW p, IsProto(p),
         NEW callee \in Nat, NEW args \in Nat, callee + 1 + args <= Len(v), NEW pack,
         p.vararg = "Table" => pack \in S
  PROVE  EnteredRow(v, p, callee, args, EnterValues(v, p, callee, args, pack))
<1> DEFINE base == EnterBase(p, callee, args)
           first == callee + 1
           many == EnterVarargs(p, args)
           placed == PlacedValues(v, p, callee, args)
           named == IF p.vararg = "Table" THEN Put(placed, base + p.params, pack) ELSE placed
           list == Between(v, first, args)
           w == Fill(named, base + Fixed(p), base + p.registers, Nil)
<1>1. EnterValues(v, p, callee, args, pack) = w
  BY DEF EnterValues, PlacedValues
<1>2. Placed(S, v, p, callee, args, placed)
  BY PlacedIs
<1>3. /\ placed \in Seq(S) /\ Len(placed) \in Nat /\ base + Fixed(p) <= Len(placed) /\ base <= Len(placed)
      /\ base \in Nat /\ Fixed(p) \in Nat /\ p.params \in Nat /\ p.params <= Fixed(p)
      /\ p.vararg = "Table" => p.params < Fixed(p)
      /\ Untouched(v, placed, base) /\ Lies(placed, base, Lua!Adjusted(list, p.params))
  BY <1>2 DEF Placed
<1> HIDE DEF base, placed
<1>4. base + p.params \in Nat /\ base <= base + p.params /\ base + Fixed(p) \in Nat
      /\ base + p.params <= base + Fixed(p) /\ (p.vararg = "Table" => base + p.params < Len(placed))
  BY <1>3
<1>5. /\ named \in Seq(S) /\ Len(named) = Len(placed)
      /\ \A s \in Nat : s < base + p.params => At(named, s) = At(placed, s)
  <2>1. CASE p.vararg = "Table"
    <3> DEFINE x == Put(placed, base + p.params, pack)
    <3>1. named = x
      BY <2>1
    <3>2. Keeps(placed, x, base + p.params, S) /\ Len(x) = Len(placed)
          /\ \A s \in Nat : s # base + p.params => At(x, s) = At(placed, s)
      BY <1>3, <1>4, <2>1, PutKeeps
    <3> HIDE DEF x, named
    <3>3. \A s \in Nat : s < base + p.params => s # base + p.params
      BY <1>4
    <3> QED
      BY <3>1, <3>2, <3>3 DEF Keeps
  <2>2. CASE p.vararg # "Table"
    BY <1>3, <2>2
  <2> QED
    BY <2>1, <2>2
<1> HIDE DEF named
<1>6. \A s \in Nat : s < base + p.params => At(w, s) = At(placed, s)
  <2> SUFFICES ASSUME NEW s \in Nat, s < base + p.params
               PROVE  At(w, s) = At(placed, s)
    OBVIOUS
  <2>1. s < Len(named) /\ ~(base + Fixed(p) <= s)
    BY <1>3, <1>4, <1>5
  <2>2. base + p.registers \in Nat
    <3>1. p.registers \in Nat
      BY DEF IsProto
    <3> QED
      BY <1>3, <3>1
  <2>3. At(w, s) = IF base + Fixed(p) <= s /\ s < base + p.registers THEN Nil ELSE At(named, s)
    BY <1>4, <1>5, <2>1, <2>2, FillAt
  <2> QED
    BY <1>5, <2>1, <2>3
<1> HIDE DEF w
<1>7. Untouched(v, w, base)
  <2> SUFFICES ASSUME NEW s \in Nat, s < base
               PROVE  At(w, s) = At(v, s)
    BY DEF Untouched
  <2>1. s < base + p.params
    BY <1>3, <1>4
  <2> QED
    BY <1>3, <1>6, <2>1 DEF Untouched
<1>8. /\ IsList(list) /\ Len(list) = args /\ first \in Nat
  BY BetweenIs
<1>9. Lies(w, base, Lua!Adjusted(list, p.params))
  <2> DEFINE t == Lua!Adjusted(list, p.params)
  <2>1. Len(t) = p.params
    <3>1. p.params # All
      BY <1>3, CountAssumption
    <3>2. Len(t) = Kept(Len(list), p.params)
      BY <1>3, <1>8, AdjustedIs
    <3> QED
      BY <3>1, <3>2 DEF Kept
  <2> SUFFICES ASSUME NEW k \in 1 .. p.params
               PROVE  At(w, base + k - 1) = t[k]
    BY <2>1 DEF Lies
  <2>2. base + k - 1 \in Nat /\ base + k - 1 < base + p.params
    BY <1>3
  <2>3. At(placed, base + k - 1) = t[k]
    <3> HIDE DEF t
    <3> QED
      BY <1>3, <2>1 DEF Lies, t
  <2> QED
    BY <1>6, <2>2, <2>3
<1>10. ASSUME p.vararg # "None"
       PROVE  Between(w, base - many, many) = Lua!Rest(list, p.params + 1)
  <2>1. base = first + args /\ many = (IF args < p.params THEN 0 ELSE args - p.params)
    BY <1>10 DEF base, EnterBase, EnterVarargs, Monus
  <2> HIDE DEF many
  <2>2. CASE args < p.params
    <3>1. many = 0
      BY <2>1, <2>2
    <3>2. Between(w, base - many, many) = <<>>
      BY <3>1 DEF Between
    <3>3. Lua!Rest(list, p.params + 1) = <<>>
      <4>1. list \in Seq(Listed(list))
        BY <1>8 DEF IsList
      <4> HIDE DEF list
      <4>2. SubSeq(list, p.params + 1, args) = <<>>
        BY <1>3, <2>2, <4>1
      <4> QED
        BY <1>8, <4>2 DEF Lua!Rest
    <3> QED
      BY <3>2, <3>3
  <2>3. CASE ~(args < p.params)
    <3> DEFINE rest == first + p.params
    <3>1. many = args - p.params /\ many \in Nat /\ base - many = rest /\ rest \in Nat
          /\ p.params \in 0 .. args
      BY <1>3, <1>8, <2>1, <2>3, SMTT(30)
    <3>2. Lua!Rest(list, p.params + 1) = Between(v, rest, args - p.params)
      BY <1>8, <3>1, BetweenRest, SMTT(30)
    <3>3. Between(w, rest, many) = Between(v, rest, many)
      <4>1. \A s \in rest .. rest + many - 1 : At(w, s) = At(v, s)
        <5> SUFFICES ASSUME NEW s \in rest .. rest + many - 1
                     PROVE  At(w, s) = At(v, s)
          OBVIOUS
        <5>1. s \in Nat /\ s < base
          BY <1>3, <3>1, SMTT(30)
        <5> QED
          BY <1>7, <5>1 DEF Untouched
      <4> HIDE DEF rest
      <4>2. rest \in Int
        BY <3>1
      <4> QED
        BY <3>1, <4>1, <4>2, BetweenKept
    <3> QED
      BY <3>1, <3>2, <3>3
  <2> QED
    BY <2>2, <2>3
<1> QED
  BY <1>1, <1>7, <1>9, <1>10 DEF EnteredRow, base, many, list, first

-----------------------------------------------------------------------------
(* The variables of a function entered above some frames, and its frame.   *)
NewNames(below, p) == Fresh(Used(below, owner), Fixed(p))
NewFrame(below, f, callee, args, want) ==
  EnteredFrame(f, Shapes[f], callee, args, want, NewNames(below, Shapes[f]))
NextPack == TableValue(Len(packs) + 1)

(* A function is entered over frames that kept what they show.             *)
Begins(v, below, f, callee, args, want) ==
  /\ CanEnter(v, below, Shapes, Wants, Len(functions), f, callee, args, want)
  /\ Enter(v, below, f, Shapes[f], callee, args, want)
  /\ Untouched(values, v, callee) /\ callee <= Len(values)
  /\ Within(frames, below) /\ Len(below) < DEPTH
  /\ Links(below, cells', owner, functions) /\ Len(cells') = Len(cells)
  /\ Shows(StoreNow, values, below, cells', owner)

(* What that leaves.                                                       *)
EnteredTo(v, below, f, callee, args, want) ==
  LET p == Shapes[f]
      g == NewFrame(below, f, callee, args, want)
      base == EnterBase(p, callee, args)
  IN  /\ IsProto(p) /\ f \in DOMAIN Shapes /\ callee \in Nat /\ args \in Nat
      /\ FramesOK(below, Shapes, Wants, Len(v)) /\ Len(below) \in Nat
      /\ Appended(below, g, frames') /\ packs' = PackedBy(p, callee, args, values')
      /\ FrameFor(g, Shapes, Wants, f, p, callee, args, want)
      /\ g.vars = NewNames(below, p) /\ g.varargs = EnterVarargs(p, args)
      /\ g.temps = 0 /\ ~g.spread
      /\ EnteredRow(v, p, callee, args, values')
      /\ p.vararg = "Table" => At(values', base + p.params) = NextPack
      /\ Untouched(values, values', callee)
      /\ UNCHANGED outcome

(* Entering leaves that.                                                   *)
LEMMA EnteredIs ==
  ASSUME NEW v, NEW below, NEW f, NEW callee, NEW args, NEW want,
         Begins(v, below, f, callee, args, want)
  PROVE  EnteredTo(v, below, f, callee, args, want)
<1> DEFINE p == Shapes[f]
           g == NewFrame(below, f, callee, args, want)
           base == EnterBase(p, callee, args)
           w == EnterValues(v, p, callee, args, NextPack)
           S == Holds \cup {NextPack}
<1>1. /\ v \in Seq(Holds) /\ FramesOK(below, Shapes, Wants, Len(v)) /\ Bounded(Shapes)
      /\ f \in DOMAIN Shapes /\ callee \in Nat /\ args \in Nat /\ callee + 1 + args <= Len(v)
      /\ want \in Wants \cup {0} /\ Untouched(values, v, callee) /\ IsList(below)
  BY DEF Begins, CanEnter, Holds, FramesOK
<1>2. IsProto(p) /\ Len(below) \in Nat
  BY <1>1 DEF Bounded, IsList
<1>3. /\ values' = w /\ frames' = Append(below, g) /\ UNCHANGED outcome
      /\ packs' = PackedBy(p, callee, args, w)
  <2>1. Enter(v, below, f, p, callee, args, want)
    BY DEF Begins
  <2>2. InUse(below) = Used(below, owner)
    BY DEF InUse, Used
  <2> HIDE DEF w, p
  <2>3. values' = w /\ frames' = Append(below, EnteredFrame(f, p, callee, args, want, NewNames(below, p)))
        /\ UNCHANGED outcome
    BY <2>1, <2>2 DEF Enter, EnteredFrame, NewNames, w, NextPack
  <2>4. packs' = PackedBy(p, callee, args, w)
    BY <2>1 DEF Enter, PackedBy, w, NextPack
  <2> QED
    BY <2>3, <2>4 DEF NewFrame, p
<1>4. /\ p.params \in Nat /\ Fixed(p) \in Nat /\ base \in Nat /\ callee < base
      /\ p.vararg = "Table" => p.params < Fixed(p)
  <2>1. /\ p.params \in Nat /\ Fixed(p) \in Nat /\ base \in Nat
        /\ p.vararg = "Table" => p.params < Fixed(p)
        /\ base = callee + 1 \/ base = callee + 1 + args
    BY <1>1, <1>2, ProtoBounds
  <2> HIDE DEF p, base
  <2> QED
    BY <1>1, <2>1
<1>5. v \in Seq(S) /\ Nil \in S /\ NextPack \in S
  <2>1. Holds \subseteq S /\ Nil \in S
    BY PlainAssumption DEF Holds, Stored
  <2> HIDE DEF S
  <2>2. v \in Seq(S)
    BY <1>1, <2>1
  <2> QED
    BY <2>1, <2>2 DEF S
<1> HIDE DEF S, p
<1>6. EnteredRow(v, p, callee, args, w)
  BY <1>1, <1>2, <1>5, EntersIn
<1>7. LaidOut(S, v, p, callee, args, NextPack, w)
  BY <1>1, <1>2, <1>5, EnterKeeps
<1> HIDE DEF w
<1>8. p.vararg = "Table" => At(w, base + p.params) = NextPack
  BY <1>7 DEF LaidOut
<1>9. Untouched(values, w, callee)
  <2>1. Untouched(v, w, base)
    BY <1>6 DEF EnteredRow
  <2> HIDE DEF base
  <2>2. \A s \in Nat : s < callee => s < base
    BY <1>1, <1>4
  <2> QED
    BY <1>1, <2>1, <2>2 DEF Untouched
<1>10. /\ FrameFor(g, Shapes, Wants, f, p, callee, args, want) /\ g.vars = NewNames(below, p)
       /\ g.varargs = EnterVarargs(p, args) /\ g.temps = 0 /\ ~g.spread
  <2> DEFINE variables == NewNames(below, p)
  <2>1. IsList(variables) /\ Len(variables) = Fixed(p)
    BY <1>4, FreshIs DEF NewNames
  <2>2. g = EnteredFrame(f, p, callee, args, want, variables) /\ p = Shapes[f]
    BY DEF NewFrame, p
  <2> HIDE DEF variables, g
  <2>3. FrameFor(g, Shapes, Wants, f, p, callee, args, want)
    BY <1>1, <1>2, <2>1, <2>2, EnteredFrameIs
  <2>4. g.vars = variables /\ g.varargs = EnterVarargs(p, args) /\ g.temps = 0 /\ ~g.spread
    BY <2>2 DEF EnteredFrame
  <2> QED
    BY <2>3, <2>4 DEF variables
<1> HIDE DEF g
<1>11. Appended(below, g, frames')
  BY <1>1, <1>3, AppendIs
<1> QED
  BY <1>1, <1>2, <1>3, <1>6, <1>8, <1>9, <1>10, <1>11 DEF EnteredTo, p, g, base

(* The frames after it.                                                    *)
EnteredFrames(below, f, callee, args, want) ==
  LET g == NewFrame(below, f, callee, args, want)
  IN  /\ FramesOK(frames', Shapes, Wants, Len(values')) /\ Bounded(Shapes) /\ IsList(frames')
      /\ Shapes' = Shapes /\ Len(below) \in Nat /\ Len(frames') = Len(below) + 1
      /\ frames'[Len(below) + 1] = g /\ IsFrame(g, Shapes, Wants) /\ g.ret_to = callee
      /\ \A k \in 1 .. Len(below) :
           /\ frames'[k] = below[k] /\ IsFrame(below[k], Shapes, Wants)
           /\ \A s \in Nat : InRows(below[k], Shapes, s) => s < callee
           /\ \A i \in 1 .. Len(below[k].vars) :
                below[k].base + i - 1 \in Nat /\ below[k].base + i - 1 < callee

(* The frames below stand, under what the call may write.                  *)
LEMMA EnteredFramesAre ==
  ASSUME IInv', NEW v, NEW below, NEW f, NEW callee, NEW args, NEW want,
         EnteredTo(v, below, f, callee, args, want), UNCHANGED <<functions, program>>
  PROVE  EnteredFrames(below, f, callee, args, want)
<1> DEFINE g == NewFrame(below, f, callee, args, want)
           fs == frames'
           n == Len(below)
<1>1. /\ FramesOK(fs, Shapes, Wants, Len(values')) /\ Bounded(Shapes) /\ Shapes' = Shapes
  <2>1. Shapes' = Shapes /\ Wants' = Wants
    BY DEF Shapes, Wants
  <2>2. FramesOK(frames', Shapes', Wants', Len(values')) /\ Bounded(Shapes')
    BY ArenaBounds DEF IInv, Sound, Shapes, Wants
  <2> QED
    BY <2>1, <2>2
<1>2. /\ Appended(below, g, fs) /\ FrameFor(g, Shapes, Wants, f, Shapes[f], callee, args, want) /\ callee \in Nat
  BY DEF EnteredTo
<1>3. /\ n \in Nat /\ Len(fs) = n + 1 /\ fs[n + 1] = g /\ IsList(fs)
      /\ \A k \in 1 .. n : fs[k] = below[k]
  BY <1>2 DEF Appended
<1>4. IsFrame(g, Shapes, Wants) /\ g.ret_to = callee
  BY <1>2 DEF FrameFor
<1> HIDE DEF g, fs
<1>5. ASSUME NEW k \in 1 .. n
      PROVE  /\ IsFrame(below[k], Shapes, Wants)
             /\ \A s \in Nat : InRows(below[k], Shapes, s) => s < callee
             /\ \A i \in 1 .. Len(below[k].vars) :
                  below[k].base + i - 1 \in Nat /\ below[k].base + i - 1 < callee
  <2>1. k \in 1 .. Len(fs) /\ n + 1 \in 1 .. Len(fs) /\ k < n + 1 /\ fs[k] = below[k]
    BY <1>3
  <2>2. IsFrame(below[k], Shapes, Wants)
    BY <1>1, <2>1 DEF FramesOK
  <2>3. ASSUME NEW s \in Nat, InRows(below[k], Shapes, s)
        PROVE  s < callee
    <3>1. s < fs[n + 1].ret_to
      BY <1>1, <2>1, <2>3, RowsBelow
    <3> QED
      BY <1>3, <1>4, <3>1
  <2>4. Reach(below[k], Shapes) <= callee
    <3>1. Reach(fs[k], Shapes) <= fs[n + 1].ret_to
      BY <1>1, <2>1 DEF FramesOK
    <3> QED
      BY <1>3, <1>4, <2>1, <3>1
  <2>5. ASSUME NEW i \in 1 .. Len(below[k].vars)
        PROVE  below[k].base + i - 1 \in Nat /\ below[k].base + i - 1 < callee
    <3>1. /\ below[k].base \in Nat /\ Shapes[below[k].func].slots \in Nat /\ Reach(below[k], Shapes) \in Nat
          /\ Len(below[k].vars) \in Nat /\ Len(below[k].vars) <= Shapes[below[k].func].slots
          /\ below[k].base + Shapes[below[k].func].slots <= Reach(below[k], Shapes)
      BY <1>1, <2>2, FrameBounds
    <3> DEFINE b == below[k].base
               slots == Shapes[below[k].func].slots
               reach == Reach(below[k], Shapes)
               m == Len(below[k].vars)
    <3>2. /\ b \in Nat /\ slots \in Nat /\ reach \in Nat /\ m \in Nat /\ m <= slots
          /\ b + slots <= reach /\ reach <= callee /\ callee \in Nat /\ i \in 1 .. m
      BY <1>2, <2>4, <3>1
    <3> HIDE DEF b, slots, reach, m
    <3>3. b + i - 1 \in Nat /\ b + i - 1 < callee
      BY ONLY <3>2
    <3> QED
      BY <3>3 DEF b
  <2> QED
    BY <2>2, <2>3, <2>5
<1> QED
  BY <1>1, <1>3, <1>4, <1>5 DEF EnteredFrames, g, fs

(* The calls after it.                                                     *)
NewCall(v, below, f, callee, args, want) ==
  [func |-> f, vars |-> NewNames(below, Shapes[f]),
   extra |-> IF Shapes[f].vararg = "None" THEN <<>>
             ELSE Lua!Rest(Between(v, callee + 1, args), Shapes[f].params + 1),
   temps |-> <<>>, want |-> want]

(* The calls below stand, and one more is made of the arguments.           *)
LEMMA EnteredCalls ==
  ASSUME IInv', ~Ended', NEW v, NEW below, IsList(below), NEW f, NEW callee, NEW args, NEW want,
         EnteredTo(v, below, f, callee, args, want), UNCHANGED <<functions, program>>
  PROVE  CallsNow' = Append(CallsIn(values, below, Shapes), NewCall(v, below, f, callee, args, want))
<1> DEFINE g == NewFrame(below, f, callee, args, want)
           n == Len(below)
           cs == CallsIn(values, below, Shapes)
           x == NewCall(v, below, f, callee, args, want)
           ds == CallsIn(values', frames', Shapes)
           p == Shapes[f]
           base == EnterBase(p, callee, args)
           many == EnterVarargs(p, args)
<1>1. EnteredFrames(below, f, callee, args, want)
  BY EnteredFramesAre
<1>2. /\ Bounded(Shapes) /\ IsList(frames') /\ Shapes' = Shapes /\ n \in Nat /\ Len(frames') = n + 1
      /\ frames'[n + 1] = g
      /\ \A k \in 1 .. n :
           /\ frames'[k] = below[k] /\ IsFrame(below[k], Shapes, Wants)
           /\ \A s \in Nat : InRows(below[k], Shapes, s) => s < callee
  BY <1>1 DEF EnteredFrames
<1>3. CallsNow' = ds
  BY <1>2, CallsAfter
<1>4. /\ IsList(cs) /\ Len(cs) = n /\ \A k \in 1 .. n : cs[k] = CallOf(values, below[k], Shapes)
  BY CallsAre DEF CallsListed
<1>5. /\ IsList(ds) /\ Len(ds) = n + 1 /\ \A k \in 1 .. n + 1 : ds[k] = CallOf(values', frames'[k], Shapes)
  <2>1. CallsListed(values', frames', Shapes)
    BY <1>2, CallsAre
  <2> QED
    BY <1>2, <2>1 DEF CallsListed
<1> HIDE DEF cs, ds
<1>6. /\ IsProto(p) /\ FrameFor(g, Shapes, Wants, f, p, callee, args, want)
      /\ g.vars = NewNames(below, p) /\ g.varargs = many /\ g.temps = 0 /\ ~g.spread
      /\ EnteredRow(v, p, callee, args, values') /\ Untouched(values, values', callee)
      /\ args \in Nat
  BY DEF EnteredTo
<1> HIDE DEF g
<1>7. CallOf(values', g, Shapes) = x
  <2>1. g.func = f /\ g.base = base /\ g.want = want
    BY <1>6 DEF FrameFor
  <2>2. Width(g, Shapes) = 0
    BY <1>6 DEF Width
  <2>3. Between(values', RowStart(g, Shapes), Width(g, Shapes)) = <<>>
    BY <2>2 DEF Between
  <2>4. Between(values', base - many, many)
          = IF p.vararg = "None" THEN <<>> ELSE Lua!Rest(Between(v, callee + 1, args), p.params + 1)
    <3>1. CASE p.vararg = "None"
      <4>1. many = 0
        BY <3>1 DEF EnterVarargs
      <4> QED
        BY <3>1, <4>1 DEF Between
    <3>2. CASE p.vararg # "None"
      BY <1>6, <3>2 DEF EnteredRow
    <3> QED
      BY <3>1, <3>2
  <2> HIDE DEF base, many
  <2> QED
    BY <1>6, <2>1, <2>3, <2>4 DEF CallOf, NewCall
<1>8. ASSUME NEW k \in 1 .. n
      PROVE  ds[k] = cs[k]
  <2>1. Agree(values, values', below[k], Shapes)
    BY <1>2, <1>6 DEF Agree, Untouched
  <2>2. CallOf(values', below[k], Shapes) = CallOf(values, below[k], Shapes)
    BY <1>2, <2>1, CallKept
  <2>3. k \in 1 .. n + 1
    BY <1>2
  <2> QED
    BY <1>2, <1>4, <1>5, <2>2, <2>3
<1>9. ds[n + 1] = x
  <2>1. n + 1 \in 1 .. n + 1
    BY <1>2
  <2> QED
    BY <1>2, <1>5, <1>7, <2>1
<1>10. ds = Append(cs, x)
  <2>1. Appended(cs, x, Append(cs, x))
    BY <1>4, AppendIs
  <2> DEFINE es == Append(cs, x)
  <2> HIDE DEF x, es
  <2>2. IsList(es) /\ Len(es) = n + 1 /\ es[n + 1] = x /\ \A k \in 1 .. n : es[k] = cs[k]
    BY <1>4, <2>1 DEF Appended, es
  <2>3. \A k \in 1 .. n + 1 : k \in 1 .. n \/ k = n + 1
    BY <1>2
  <2>4. \A k \in 1 .. n + 1 : ds[k] = es[k]
    BY <1>8, <1>9, <2>2, <2>3
  <2>5. ds = es
    BY <1>5, <2>2, <2>4, ListsEqual
  <2> QED
    BY <2>5 DEF es
<1> QED
  BY <1>3, <1>10 DEF cs, x

(* No one has the new variables.                                           *)
LEMMA NamesApart ==
  ASSUME Endless, IInv, NEW below, NEW height, FramesOK(below, Shapes, Wants, height),
         NEW p, IsProto(p), NEW names, names = NewNames(below, p)
  PROVE  /\ Distinct(names, Fixed(p)) /\ Fixed(p) \in Nat
         /\ \A k \in 1 .. Fixed(p) : names[k] \notin Used(below, owner)
<1>1. Fixed(p) \in Nat
  BY DEF IsProto, Fixed
<1>2. IsFiniteSet(Used(below, owner))
  <2>1. IsList(below) /\ \A k \in 1 .. Len(below) : IsList(below[k].vars)
    BY DEF FramesOK, IsFrame
  <2>2. IsList(owner)
    BY ArenaLists
  <2> QED
    BY <2>1, <2>2, UsedFinite
<1> QED
  BY <1>1, <1>2, FreshIs, FreshApart DEF NewNames, Distinct

(* What the new variables hold.                                            *)
NewValues(v, p, callee, args) ==
  LET first == Lua!Adjusted(Between(v, callee + 1, args), p.params)
  IN  IF p.vararg = "Table" THEN Append(first, NextPack) ELSE first

(* They are what its first registers hold.                                 *)
LEMMA NewValuesAre ==
  ASSUME NEW v, NEW p, IsProto(p), NEW callee \in Nat, NEW args \in Nat,
         NEW w, EnteredRow(v, p, callee, args, w), NEW base, base = EnterBase(p, callee, args),
         p.vararg = "Table" => At(w, base + p.params) = NextPack,
         NEW i \in 1 .. Fixed(p)
  PROVE  NewValues(v, p, callee, args)[i] = At(w, base + i - 1)
<1> DEFINE first == Lua!Adjusted(Between(v, callee + 1, args), p.params)
<1>1. p.params \in Nat /\ Lies(w, base, first) /\ base \in Nat
  BY ProtoBounds DEF EnteredRow
<1>2. IsList(first) /\ Len(first) = p.params
  <2>1. IsList(Between(v, callee + 1, args)) /\ p.params # All
    BY <1>1, BetweenIs, CountAssumption
  <2>2. IsList(first) /\ Len(first) = Kept(Len(Between(v, callee + 1, args)), p.params)
    BY <1>1, <2>1, AdjustedIs
  <2> QED
    BY <2>1, <2>2 DEF Kept
<1> HIDE DEF first
<1>3. \A k \in 1 .. p.params : first[k] = At(w, base + k - 1)
  BY <1>1, <1>2 DEF Lies
<1>4. CASE p.vararg = "Table"
  <2>1. Appended(first, NextPack, Append(first, NextPack))
    BY <1>2, AppendIs
  <2>2. Append(first, NextPack)[p.params + 1] = NextPack
        /\ \A k \in 1 .. p.params : Append(first, NextPack)[k] = first[k]
    BY <1>2, <2>1 DEF Appended
  <2>3. i \in 1 .. p.params \/ i = p.params + 1
    BY <1>1, <1>4 DEF Fixed
  <2>4. base + (p.params + 1) - 1 = base + p.params
    BY <1>1
  <2>5. NewValues(v, p, callee, args) = Append(first, NextPack)
    BY <1>4 DEF NewValues, first
  <2>6. CASE i = p.params + 1
    BY <1>4, <2>2, <2>4, <2>5, <2>6
  <2>7. CASE i \in 1 .. p.params
    BY <1>3, <2>2, <2>5, <2>7
  <2> QED
    BY <2>3, <2>6, <2>7
<1>5. CASE p.vararg # "Table"
  <2>1. i \in 1 .. p.params /\ NewValues(v, p, callee, args) = first
    BY <1>5 DEF Fixed, NewValues, first
  <2> QED
    BY <1>3, <2>1
<1> QED
  BY <1>4, <1>5

(* The links, and what the new store shows.                                *)
LEMMA BeginShows ==
  ASSUME Endless, IInv, IInv', Linked, Running, UNCHANGED <<functions, owner, program>>,
         NEW v, NEW below, NEW f, NEW callee, NEW args, NEW want,
         Begins(v, below, f, callee, args, want)
  PROVE  /\ Linked'
         /\ Shows(Lua!With(NewNames(below, Shapes[f]), NewValues(v, Shapes[f], callee, args)),
                  values', frames', cells', owner')
<1> DEFINE p == Shapes[f]
           g == NewFrame(below, f, callee, args, want)
           names == NewNames(below, p)
           list == NewValues(v, p, callee, args)
           n == Len(below)
           st == Lua!With(names, list)
           base == EnterBase(p, callee, args)
<1>1. EnteredTo(v, below, f, callee, args, want)
  BY EnteredIs
<1>2. EnteredFrames(below, f, callee, args, want)
  BY <1>1, EnteredFramesAre
<1>3. /\ IsProto(p) /\ FramesOK(below, Shapes, Wants, Len(v)) /\ callee \in Nat /\ args \in Nat
      /\ FrameFor(g, Shapes, Wants, f, p, callee, args, want) /\ g.vars = names
      /\ EnteredRow(v, p, callee, args, values') /\ Untouched(values, values', callee)
      /\ p.vararg = "Table" => At(values', base + p.params) = NextPack
  BY <1>1 DEF EnteredTo
<1>4. /\ n \in Nat /\ Len(frames') = n + 1 /\ frames'[n + 1] = g
      /\ \A k \in 1 .. n :
           /\ frames'[k] = below[k]
           /\ \A i \in 1 .. Len(below[k].vars) :
                below[k].base + i - 1 \in Nat /\ below[k].base + i - 1 < callee
  BY <1>2 DEF EnteredFrames
<1>5. /\ Within(frames, below) /\ n < DEPTH /\ DEPTH \in Nat
      /\ Links(below, cells', owner, functions) /\ Len(cells') = Len(cells)
      /\ Shows(StoreNow, values, below, cells', owner) /\ Len(owner) = Len(cells)
  BY ArenaLists, CountAssumption DEF Begins
<1>6. g.base = base /\ g.func = f
  BY <1>3 DEF FrameFor
<1> HIDE DEF p, g, base
<1>7. /\ Distinct(names, Fixed(p)) /\ Fixed(p) \in Nat
      /\ \A k \in 1 .. Fixed(p) : names[k] \notin Used(below, owner)
  BY <1>3, NamesApart
<1>8. \A i \in 1 .. Fixed(p) : list[i] = At(values', base + i - 1)
  BY <1>3, NewValuesAre DEF base
<1> HIDE DEF names, list
<1>9. /\ Len(names) = Fixed(p)
      /\ \A j, k \in 1 .. Fixed(p) : names[j] = names[k] => j = k
  BY <1>7 DEF Distinct
<1>10. Linked'
  <2>1. ASSUME NEW k \in 1 .. Len(frames'), NEW i \in 1 .. Len(frames'[k].vars)
        PROVE  \/ k \in 1 .. Len(below) /\ i \in 1 .. Len(below[k].vars) /\ frames'[k].vars[i] = below[k].vars[i]
               \/ k = n + 1 /\ i - 0 \in 1 .. Fixed(p) /\ frames'[k].vars[i] = names[i - 0]
    <3>1. CASE k = n + 1
      <4>1. frames'[k].vars = names /\ i \in 1 .. Fixed(p) /\ i - 0 = i
        BY <1>3, <1>4, <1>9, <2>1, <3>1
      <4> QED
        BY <3>1, <4>1
    <3>2. CASE k # n + 1
      <4>1. k \in 1 .. n
        BY <1>4, <2>1, <3>2
      <4>2. frames'[k] = below[k]
        BY <1>4, <4>1
      <4> QED
        BY <2>1, <4>1, <4>2
    <3> QED
      BY <3>1, <3>2
  <2>2. Anew(below, owner, names, Fixed(p), frames', n + 1, 0)
    BY <1>7, <1>9, <2>1 DEF Anew
  <2>3. Len(frames') <= DEPTH
    BY <1>4, <1>5
  <2>4. Links(frames', cells', owner, functions)
    <3>1. Len(owner) = Len(cells')
      BY <1>5
    <3> HIDE DEF n
    <3> QED
      BY <1>5, <2>2, <2>3, <3>1, LinksMore
  <2> QED
    BY <2>4 DEF Linked
<1>11. /\ \A k \in 1 .. Fixed(p) : st[names[k]] = list[k]
       /\ \A x \in Used(below, owner) : st[x] = StoreNow[x]
  <2>1. Gives(st, StoreNow, names, Fixed(p), list)
    BY <1>7, WithIs
  <2>2. ASSUME NEW x \in Used(below, owner)
        PROVE  x \in DOMAIN StoreNow /\ \A k \in 1 .. Fixed(p) : names[k] # x
    <3>1. DOMAIN StoreNow = Used(frames, owner)
      <4>1. ~Ended
        BY DEF Running, Ended
      <4> QED
        BY <4>1, StoreDomain
    <3>2. x \in Used(frames, owner)
      <4>1. \/ \E k \in 1 .. Len(below) : \E i \in 1 .. Len(below[k].vars) : x = below[k].vars[i]
            \/ \E c \in 1 .. Len(owner) : x = owner[c]
        BY InUseIs
      <4>2. CASE \E c \in 1 .. Len(owner) : x = owner[c]
        BY <4>2, InUseIs
      <4>3. CASE \E k \in 1 .. Len(below) : \E i \in 1 .. Len(below[k].vars) : x = below[k].vars[i]
        <5>1. PICK k \in 1 .. Len(below) : \E i \in 1 .. Len(below[k].vars) : x = below[k].vars[i]
          BY <4>3
        <5>2. PICK i \in 1 .. Len(below[k].vars) : x = below[k].vars[i]
          BY <5>1
        <5>3. k \in 1 .. Len(frames) /\ i \in 1 .. Len(frames[k].vars) /\ x = frames[k].vars[i]
          BY <1>5, <5>2 DEF Within
        <5> QED
          BY <5>3, InUseIs
      <4> QED
        BY <4>1, <4>2, <4>3
    <3> QED
      BY <1>7, <3>1, <3>2
  <2> HIDE DEF st
  <2> QED
    BY <2>1, <2>2 DEF Gives
<1> HIDE DEF st
<1>12. ASSUME NEW k \in 1 .. Len(frames'), NEW i \in 1 .. Len(frames'[k].vars)
       PROVE  st[frames'[k].vars[i]] = At(values', frames'[k].base + i - 1)
  <2>1. CASE k = n + 1
    <3>1. frames'[k].vars = names /\ frames'[k].base = base /\ i \in 1 .. Fixed(p)
      BY <1>3, <1>4, <1>6, <1>9, <1>12, <2>1
    <3> QED
      BY <1>8, <1>11, <3>1
  <2>2. CASE k # n + 1
    <3>1. k \in 1 .. n
      BY <1>4, <1>12, <2>2
    <3>2. frames'[k] = below[k] /\ i \in 1 .. Len(below[k].vars)
      BY <1>4, <1>12, <3>1
    <3>3. below[k].vars[i] \in Used(below, owner)
      BY <3>1, <3>2, InUseIs
    <3>4. StoreNow[below[k].vars[i]] = At(values, below[k].base + i - 1)
      BY <1>5, <3>1, <3>2 DEF Shows
    <3>5. At(values', below[k].base + i - 1) = At(values, below[k].base + i - 1)
      BY <1>3, <1>4, <3>1, <3>2 DEF Untouched
    <3> QED
      BY <1>11, <3>2, <3>3, <3>4, <3>5
  <2> QED
    BY <2>1, <2>2
<1>13. ASSUME NEW c \in 1 .. Len(cells'), cells'[c].kind = "Closed"
       PROVE  st[owner'[c]] = cells'[c].value
  <2>1. c \in 1 .. Len(owner) /\ owner' = owner
    BY <1>5, <1>13
  <2>2. owner[c] \in Used(below, owner)
    BY <2>1, InUseIs
  <2>3. StoreNow[owner[c]] = cells'[c].value
    BY <1>5, <1>13 DEF Shows
  <2> QED
    BY <1>11, <2>1, <2>2, <2>3
<1>14. Shows(st, values', frames', cells', owner')
  BY <1>12, <1>13 DEF Shows
<1> QED
  BY <1>10, <1>14 DEF st, names, list, p

(* The variables of the calls below, and those captured.                   *)
LEMMA ReachedBelow ==
  ASSUME IInv, NEW below, IsList(below), CellsHeld(cells, functions)
  PROVE  Lua!InScope(CallsIn(values, below, Shapes)) \cup Lua!Captured(ClosuresNow) = Used(below, owner)
<1>1. IsList(owner) /\ Len(owner) = Len(cells) /\ IsList(functions) /\ Wired(functions, cells)
  BY ArenaLists, NowWired
<1>2. ClosuresNow = ClosuresIn(functions, owner)
  BY DEF ClosuresNow, VariablesOf, ClosuresIn
<1>3. CellsHeld(owner, functions) /\ Wired(functions, owner)
  BY <1>1 DEF CellsHeld, Wired
<1>4. Lua!InScope(CallsIn(values, below, Shapes)) \cup Lua!Captured(ClosuresIn(functions, owner))
        = Used(below, owner)
  <2>1. CellsHeld(owner, functions) /\ Wired(functions, owner) /\ IsList(below) /\ IsList(functions)
    BY <1>1, <1>3
  <2> QED
    BY ONLY <2>1, ReachedAre
<1> QED
  BY <1>2, <1>4

(* A function is entered: its parameters, its extra arguments and the      *)
(* table that names them are those of Lua's call.                          *)
LEMMA BeginMaps ==
  ASSUME Endless, IInv, IInv', Linked, Running, UNCHANGED <<functions, owner, program>>,
         NEW v, NEW below, NEW f, NEW callee, NEW args, NEW want,
         Begins(v, below, f, callee, args, want)
  PROVE  Linked' /\ Lua!Begin(CallsIn(values, below, Shapes), f, Between(v, callee + 1, args), want)
<1> DEFINE p == Shapes[f]
           cs == CallsIn(values, below, Shapes)
           list == Between(v, callee + 1, args)
           names == NewNames(below, p)
           rest == Lua!Rest(list, p.params + 1)
           many == EnterVarargs(p, args)
           base == EnterBase(p, callee, args)
<1>1. EnteredTo(v, below, f, callee, args, want)
  BY EnteredIs
<1>2. /\ IsProto(p) /\ f \in DOMAIN Shapes /\ IsList(below) /\ callee \in Nat /\ args \in Nat
      /\ packs' = PackedBy(p, callee, args, values') /\ EnteredRow(v, p, callee, args, values')
      /\ UNCHANGED outcome
  BY <1>1 DEF EnteredTo, FramesOK
<1>3. ~Ended /\ ~Ended'
  BY <1>2 DEF Running, Ended
<1>4. Lua!Shape(f) = p
  <2>1. f \in 1 .. Len(functions)
    BY <1>2 DEF Shapes, ShapesOf
  <2> QED
    BY <2>1, ClosuresAre DEF ClosureIs
<1>5. Lua!InScope(cs) \cup Lua!Captured(ClosuresNow) = Used(below, owner)
  BY <1>2, ReachedBelow DEF Linked, Links
<1>6. Lua!Fresh(Lua!InScope(cs) \cup Lua!Captured(ClosuresNow),
                p.params + (IF p.vararg = "Table" THEN 1 ELSE 0)) = names
  <2>1. p.params + (IF p.vararg = "Table" THEN 1 ELSE 0) = Fixed(p)
    BY <1>2 DEF IsProto, Fixed
  <2>2. Lua!Fresh(Used(below, owner), Fixed(p)) = Fresh(Used(below, owner), Fixed(p))
    BY FreshSame
  <2> QED
    BY <1>5, <2>1, <2>2 DEF NewNames
<1>7. CallsNow' = Append(cs, NewCall(v, below, f, callee, args, want))
  BY <1>1, <1>2, <1>3, EnteredCalls
<1>8. Len(cs) = Len(below) /\ Len(below) < DEPTH /\ Len(below) \in Nat /\ DEPTH \in Nat
  <2>1. CallsListed(values, below, Shapes)
    BY <1>2, CallsAre
  <2> QED
    BY <1>1, <2>1, CountAssumption DEF CallsListed, Begins, EnteredTo
<1>9. /\ Linked' /\ ClosuresNow' = ClosuresNow
      /\ StoreNow' = Lua!Settled(Lua!With(names, NewValues(v, p, callee, args)), CallsNow', ClosuresNow')
  <2>1. Linked' /\ Shows(Lua!With(names, NewValues(v, p, callee, args)), values', frames', cells', owner')
    BY BeginShows
  <2>2. ClosuresNow' = ClosuresNow
    BY DEF ClosuresNow, VariablesOf
  <2> QED
    BY <1>3, <2>1, <2>2, SettledAfter
<1>10. packs' = IF p.vararg = "Table" THEN Append(packs, [items |-> rest, n |-> Len(rest)]) ELSE packs
  <2>1. CASE p.vararg = "Table"
    <3>1. Between(values', base - many, many) = rest
      BY <1>2, <2>1 DEF EnteredRow
    <3>2. many \in Nat
      BY <1>2, ProtoBounds
    <3>3. Len(Between(values', base - many, many)) = many
      BY <3>2, BetweenIs
    <3>4. packs' = Append(packs, [items |-> Between(values', base - many, many), n |-> many])
      BY <1>2, <2>1 DEF PackedBy, Between
    <3> HIDE DEF rest, many, base
    <3> QED
      BY <2>1, <3>1, <3>3, <3>4
  <2>2. CASE p.vararg # "Table"
    BY <1>2, <2>2 DEF PackedBy
  <2> QED
    BY <2>1, <2>2
<1> DEFINE extra == IF p.vararg = "None" THEN <<>> ELSE rest
           call == [func |-> f, vars |-> names, extra |-> extra, temps |-> <<>>, want |-> want]
           values_ == NewValues(v, p, callee, args)
<1>11. CallsNow' = Append(cs, call)
  BY <1>7 DEF NewCall
<1>12. values_ = IF p.vararg = "Table" THEN Append(Lua!Adjusted(list, p.params), Lua!TableValue(Len(packs) + 1))
                 ELSE Lua!Adjusted(list, p.params)
  BY DEF NewValues, NextPack, TableValue, Lua!TableValue
<1>13. packs' = IF p.vararg = "Table" THEN Append(packs, [items |-> extra, n |-> Len(extra)]) ELSE packs
  BY <1>10
<1>14. ~(Len(cs) >= DEPTH)
  BY <1>8
<1> HIDE DEF cs, list, rest, names, values_, p
<1> QED
  BY <1>2, <1>4, <1>6, <1>9, <1>11, <1>12, <1>13, <1>14 DEF Lua!Begin, cs, list, rest, values_

-----------------------------------------------------------------------------

(* A caller that waits: its calls are those with what is above the callee  *)
(* gone, and nothing else of it is.                                        *)
WaitsFor(i) ==
  /\ Within(frames, Waiting(i)) /\ Len(Waiting(i)) = Depth /\ IsList(Waiting(i))
  /\ Links(Waiting(i), cells, owner, functions)
  /\ Shows(StoreNow, values, Waiting(i), cells, owner)
  /\ CallsIn(values, Waiting(i), Shapes) = Lua!Continue(SubSeq(Lua!Innermost.temps, 1, i - 1))

(* The caller of any call waits so.                                        *)
LEMMA WaitingFor ==
  ASSUME IInv, Linked, Running, NEW i \in 1 .. Current.temps
  PROVE  WaitsFor(i)
<1> DEFINE gs == Waiting(i)
           top == Current.base + ProtoOf(Current).registers
<1>1. Rewritten(frames, gs, top, Current.vars, i - 1, FALSE)
  BY WaitingRow
<1>2. FramesOK(frames, Shapes, Wants, Len(values)) /\ Bounded(Shapes) /\ Current = frames[Len(frames)]
  BY CurrentIs DEF Current, Depth
<1> HIDE DEF gs, top
<1>3. Within(frames, gs) /\ Len(gs) = Depth /\ IsList(gs)
  <2>1. \A j \in 1 .. Len(Current.vars) :
          j \in 1 .. Len(frames[Len(frames)].vars) /\ Current.vars[j] = frames[Len(frames)].vars[j]
    BY <1>2
  <2>2. Within(frames, gs)
    BY <1>1, <2>1, RewrittenWithin
  <2> QED
    BY <1>1, <2>2 DEF Rewritten, Depth
<1>4. Links(gs, cells, owner, functions)
  <2>1. ScopeOpen(frames, cells, owner) /\ Links(frames, cells, owner, functions) /\ DEPTH \in Nat
    BY CountAssumption DEF Linked, Links
  <2>2. ScopeOpen(gs, cells, owner)
    BY <1>3, <2>1, ScopeKept
  <2> QED
    BY <1>3, <2>1, <2>2, LinksFewer
<1>5. Shows(StoreNow, values, gs, cells, owner)
  <2>1. StoreIs(StoreNow, values, frames, cells, owner)
    BY StoreNowIs DEF Running, Ended
  <2>2. LocalsKept(values, values, frames)
    BY DEF LocalsKept
  <2>3. Len(gs) = Len(frames)
        /\ \A k \in 1 .. Len(frames) : gs[k].vars = frames[k].vars /\ gs[k].base = frames[k].base
    BY <1>1, <1>2, RewrittenLocals
  <2>4. StoreIs(StoreNow, values, gs, cells, owner)
    BY <2>1, <2>2, <2>3, SameStore
  <2> QED
    BY <2>4 DEF StoreIs, Shows
<1>6. CallsIn(values, gs, Shapes) = Lua!Continue(SubSeq(Lua!Innermost.temps, 1, i - 1))
  <2> DEFINE row == Between(values, RowStart(Current, Shapes), i - 1)
  <2>1. Extends(Shapes, Shapes) /\ ExtrasKept(values, values, Current)
        /\ \A k \in 1 .. Len(frames) - 1 : Agree(values, values, frames[k], Shapes)
    BY DEF Extends, ExtrasKept, Agree
  <2>2. ASSUME NEW spread, spread = FALSE, NEW n, n = i - 1
        PROVE  CallsIn(values, gs, Shapes)
                 = Recalled(CallsIn(values, frames, Shapes), Current.vars, Between(values, RowStart(Current, Shapes), n))
    <3>1. Rewritten(frames, gs, top, Current.vars, n, spread)
      BY <1>1, <2>2
    <3>2. n = IF spread THEN top - RowStart(Current, Shapes) ELSE n
      BY <2>2
    <3> QED
      BY <1>2, <2>1, <3>1, <3>2, CallsRewritten
  <2>3. CallsNow = CallsIn(values, frames, Shapes)
    BY InnermostIs
  <2>4. Lua!Continue(row) = Recalled(CallsNow, Current.vars, row)
    BY ContinueIs
  <2>5. SubSeq(Lua!Innermost.temps, 1, i - 1) = row
    BY CalleeIs
  <2>6. CallsIn(values, gs, Shapes) = Recalled(CallsIn(values, frames, Shapes), Current.vars, row)
    BY <2>2, Zenon
  <2> HIDE DEF row
  <2> QED
    BY <2>3, <2>4, <2>5, <2>6
<1> QED
  BY <1>3, <1>4, <1>5, <1>6 DEF WaitsFor, gs

(* A function is called.                                                   *)
LEMMA CallLuaMaps ==
  ASSUME Endless, IInv, IInv', Linked, Running, NEW i \in 1 .. Current.temps, NEW want \in Wants,
         CallLua(i, want), UNCHANGED program
  PROVE  Implements
<1> DEFINE at == TempSlot(Current, i)
           f == At(values, at)[2]
           list == Between(values, at + 1, Args(i))
           cs == CallsIn(values, Waiting(i), Shapes)
<1>1. IsFunction(At(values, at)) /\ Asks(i, want)
  BY DEF CallLua
<1>2. /\ i \in 1 .. Len(Lua!Innermost.temps) /\ Lua!Innermost.temps[i] = At(values, at)
      /\ Lua!Rest(Lua!Innermost.temps, i + 1) = list
  BY CalleeIs
<1>3. Lua!Running /\ Lua!Wants = Wants
  BY RunningMaps DEF Lua!Wants, Wants
<1>4. WaitsFor(i)
  BY WaitingFor
<1>5. SUFFICES Linked' /\ Lua!Begin(cs, f, list, want)
  <2>1. Lua!IsFunction(Lua!Innermost.temps[i]) /\ Lua!Innermost.temps[i][2] = f
    BY <1>1, <1>2 DEF IsFunction, Lua!IsFunction
  <2>2. cs = Lua!Continue(SubSeq(Lua!Innermost.temps, 1, i - 1))
    BY <1>4 DEF WaitsFor
  <2> HIDE DEF cs, f, list
  <2>3. Linked' /\ Lua!CallValue(i, want)
    BY <1>2, <1>5, <2>1, <2>2 DEF Lua!CallValue
  <2> QED
    BY <1>2, <1>3, <2>3 DEF Implements, Lua!LuaNext, Lua!LuaSteps
<1>6. CanEnter(values, Waiting(i), Shapes, Wants, Len(functions), f, at, Args(i), want)
      /\ Proto[functions[f].proto] = Shapes[f]
  BY <1>1, CallCanEnter
<1>7. Depth \in Nat /\ DEPTH \in Nat /\ Len(cs) = Depth
  <2>1. CallsListed(values, Waiting(i), Shapes)
    BY <1>4, CallsAre DEF WaitsFor
  <2> QED
    BY <1>4, <2>1, CurrentIs, CountAssumption DEF CallsListed, WaitsFor
<1>8. CASE Depth >= DEPTH
  <2>1. Throw
    BY <1>8 DEF CallLua
  <2>2. Linked' /\ Lua!Fail
    BY <2>1, ThrowMaps
  <2>3. Len(cs) >= DEPTH
    BY <1>7, <1>8
  <2> QED
    BY <2>2, <2>3 DEF Lua!Begin
<1>9. CASE ~(Depth >= DEPTH)
  <2>1. /\ Enter(values, Waiting(i), f, Shapes[f], at, Args(i), want)
        /\ UNCHANGED <<open, cells, functions, owner>>
    BY <1>6, <1>9 DEF CallLua
  <2>2. Untouched(values, values, at) /\ at <= Len(values)
    <3>1. at \in Nat /\ Args(i) \in Nat /\ at + 1 + Args(i) <= Len(values) /\ Len(values) \in Nat
      BY CalleeBounds, CurrentBounds
    <3> HIDE DEF at
    <3> QED
      BY <3>1 DEF Untouched
  <2>3. Len(Waiting(i)) < DEPTH
    BY <1>4, <1>7, <1>9 DEF WaitsFor
  <2>4. Begins(values, Waiting(i), f, at, Args(i), want)
    BY <1>4, <1>6, <2>1, <2>2, <2>3 DEF Begins, WaitsFor
  <2> QED
    BY <2>1, <2>4, BeginMaps
<1> QED
  BY <1>8, <1>9

(* The frames below one that leaves: its locals closed, the links of the   *)
(* others stay, and so does what they show.                                *)
LeftTo(v, w) ==
  LET ds == ClosedCells(v, Current.base)
  IN  /\ Within(frames, Below) /\ Len(Below) < DEPTH /\ Len(ds) = Len(cells)
      /\ Links(Below, ds, owner, functions) /\ Shows(StoreNow, w, Below, ds, owner)

(* Leaving the running frame leaves that.                                  *)
LEMMA LeftIs ==
  ASSUME IInv, Linked, Running, NEW v, LocalsKept(values, v, frames),
         NEW w, Untouched(values, w, Current.ret_to)
  PROVE  LeftTo(v, w)
<1> DEFINE ds == ClosedCells(v, Current.base)
<1>1. /\ IsList(Below) /\ Len(Below) \in Nat /\ Depth = Len(Below) + 1
      /\ \A k \in 1 .. Len(Below) : Below[k] = frames[k] /\ k \in 1 .. Depth - 1
  BY BelowIs
<1>2. /\ Bounded(Shapes) /\ FramesOK(frames, Shapes, Wants, Len(values)) /\ Len(values) \in Nat
      /\ Current = frames[Len(frames)] /\ Depth = Len(frames)
      /\ Current.base \in Nat /\ Current.ret_to \in Nat /\ Current.ret_to < Current.base
  BY CurrentIs, FrameBounds DEF Current, Depth
<1>3. Links(frames, cells, owner, functions) /\ Len(frames) <= DEPTH /\ DEPTH \in Nat
  BY CountAssumption DEF Linked, Links
<1>4. Within(frames, Below)
  <2>1. Len(Below) <= Len(frames) /\ Len(frames) \in Nat
    BY <1>1, <1>2
  <2> QED
    BY <1>1, <2>1 DEF Within
<1>5. ASSUME NEW k \in 1 .. Len(Below), NEW i \in 1 .. Len(Below[k].vars)
      PROVE  /\ Below[k].base + i - 1 \in Nat /\ Below[k].base = frames[k].base
             /\ Below[k].base + i - 1 < Current.ret_to /\ Below[k].base + i - 1 < Current.base
  <2>1. k \in 1 .. Len(frames) /\ Len(frames) \in 1 .. Len(frames) /\ k < Len(frames)
        /\ Below[k] = frames[k] /\ i \in 1 .. Len(frames[k].vars)
    BY <1>1, <1>2, <1>5
  <2>2. Reach(frames[k], Shapes) <= Current.ret_to
    BY <1>2, <2>1 DEF FramesOK
  <2>3. /\ frames[k].base \in Nat /\ Shapes[frames[k].func].slots \in Nat /\ Reach(frames[k], Shapes) \in Nat
        /\ Len(frames[k].vars) \in Nat /\ Len(frames[k].vars) <= Shapes[frames[k].func].slots
        /\ frames[k].base + Shapes[frames[k].func].slots <= Reach(frames[k], Shapes)
    <3>1. IsFrame(frames[k], Shapes, Wants)
      BY <1>2, <2>1 DEF FramesOK
    <3> QED
      BY <1>2, <3>1, FrameBounds
  <2>4. frames[k].base + i - 1 \in Nat /\ frames[k].base + i - 1 < Current.ret_to
        /\ frames[k].base + i - 1 < Current.base
    <3> DEFINE b == frames[k].base
               n == Len(frames[k].vars)
               slots == Shapes[frames[k].func].slots
               reach == Reach(frames[k], Shapes)
               to == Current.ret_to
    <3>1. /\ b \in Nat /\ n \in Nat /\ slots \in Nat /\ reach \in Nat /\ to \in Nat /\ Current.base \in Nat
          /\ n <= slots /\ b + slots <= reach /\ reach <= to /\ to < Current.base /\ i \in 1 .. n
      BY <1>2, <2>1, <2>2, <2>3
    <3> HIDE DEF b, n, slots, reach, to
    <3>2. b + i - 1 \in Nat /\ b + i - 1 < to /\ b + i - 1 < Current.base
      BY <3>1
    <3> QED
      BY <3>2 DEF b, to
  <2> QED
    BY <2>1, <2>4
<1> HIDE DEF ds
<1>6. Links(Below, ds, owner, functions) /\ Len(ds) = Len(cells)
  <2>1. \A k \in 1 .. Len(Below) : \A i \in 1 .. Len(Below[k].vars) : frames[k].base + i - 1 < Current.base
    BY <1>5
  <2>2. ScopeOpen(Below, ds, owner) /\ Len(ds) = Len(cells)
    BY <1>2, <1>4, <2>1, ScopeClosed DEF ds
  <2> QED
    BY <1>3, <1>4, <2>2, LinksFewer
<1>7. Shows(StoreNow, w, Below, ds, owner)
  <2>1. \A k \in 1 .. Len(Below) : Below[k].base = frames[k].base
    BY <1>1
  <2>2. \A k \in 1 .. Len(Below) : \A i \in 1 .. Len(Below[k].vars) :
          At(w, Below[k].base + i - 1) = At(values, Below[k].base + i - 1)
    BY <1>5 DEF Untouched
  <2> QED
    BY <1>2, <1>4, <2>1, <2>2, ClosedShown DEF ds
<1>8. Len(Below) < DEPTH
  BY <1>1, <1>2, <1>3
<1> QED
  BY <1>4, <1>6, <1>7, <1>8 DEF LeftTo, ds

(* The calls below the innermost one.                                      *)
LEMMA CallersAre ==
  ASSUME IInv, Running
  PROVE  CallsIn(values, Below, Shapes) = Lua!Callers
<1>1. /\ IsList(Below) /\ Len(Below) \in Nat /\ Depth = Len(Below) + 1
      /\ \A k \in 1 .. Len(Below) : Below[k] = frames[k] /\ k \in 1 .. Depth - 1
  BY BelowIs
<1>2. CallsNow = CallsIn(values, frames, Shapes) /\ Len(CallsNow) = Depth /\ IsList(frames) /\ Depth = Len(frames)
  BY InnermostIs DEF Depth
<1>3. CallsListed(values, frames, Shapes) /\ CallsListed(values, Below, Shapes)
  BY <1>1, <1>2, CallsAre
<1> DEFINE cs == CallsIn(values, Below, Shapes)
           ds == CallsNow
           es == SubSeq(ds, 1, Len(ds) - 1)
<1>4. IsList(cs) /\ Len(cs) = Len(Below) /\ \A k \in 1 .. Len(Below) : cs[k] = CallOf(values, Below[k], Shapes)
  BY <1>3 DEF CallsListed
<1>5. IsList(ds) /\ Len(ds) = Depth /\ \A k \in 1 .. Depth : ds[k] = CallOf(values, frames[k], Shapes)
  BY <1>2, <1>3 DEF CallsListed
<1> HIDE DEF cs, ds
<1>6. IsList(es) /\ Len(es) = Len(Below) /\ \A k \in 1 .. Len(Below) : es[k] = ds[k]
  <2>1. Len(ds) - 1 = Len(Below) /\ Len(Below) <= Len(ds)
    BY <1>1, <1>5
  <2>2. IsList(SubSeq(ds, 1, Len(Below))) /\ Len(SubSeq(ds, 1, Len(Below))) = Len(Below)
        /\ \A k \in 1 .. Len(Below) : SubSeq(ds, 1, Len(Below))[k] = ds[k]
    BY <1>1, <1>5, <2>1, PrefixIs
  <2> QED
    BY <2>1, <2>2
<1>7. \A k \in 1 .. Len(Below) : cs[k] = es[k]
  <2>1. \A k \in 1 .. Len(Below) : k \in 1 .. Depth
    BY <1>1
  <2> QED
    BY <1>1, <1>4, <1>5, <1>6, <2>1
<1> HIDE DEF es
<1>8. cs = es
  BY <1>4, <1>6, <1>7, ListsEqual
<1> QED
  BY <1>8 DEF cs, ds, es, Lua!Callers

(* The arguments after they moved with their callee are those there were.  *)
LEMMA MovedList ==
  ASSUME NEW S, NEW v \in Seq(S), NEW from \in Nat, NEW to \in Nat, to <= from,
         NEW n \in Nat, from + 1 + n <= Len(v)
  PROVE  Between(Shift(v, from, to, n + 1), to + 1, n) = Between(v, from + 1, n)
<1> DEFINE w == Shift(v, from, to, n + 1)
<1>1. ASSUME NEW k \in 1 .. n
      PROVE  At(w, to + 1 + k - 1) = At(v, from + 1 + k - 1)
  <2>1. /\ to + 1 + k - 1 \in Nat /\ to + 1 + k - 1 < Len(v) /\ n + 1 \in Nat
        /\ to <= to + 1 + k - 1 /\ to + 1 + k - 1 < to + (n + 1)
        /\ (to + 1 + k - 1) - to + from = from + 1 + k - 1
    <3>1. Len(v) \in Nat
      OBVIOUS
    <3> QED
      BY <3>1
  <2> QED
    BY <2>1, ShiftAt
<1> HIDE DEF w
<1> QED
  BY <1>1 DEF Between, w

(* A function is called in the place of the running one.                   *)
LEMMA TailCallLuaMaps ==
  ASSUME Endless, IInv, IInv', Linked, Running, TailCallLua, UNCHANGED program
  PROVE  Implements
<1> DEFINE from == TempSlot(Current, 1)
           f == At(values, from)[2]
           to == Current.ret_to
           args == Args(1)
           v == Shift(values, from, to, args + 1)
           list == Between(values, from + 1, args)
           cs == CallsIn(values, Below, Shapes)
           want == Current.want
<1>1. /\ Current.temps > 0 /\ IsFunction(At(values, from)) /\ cells' = ClosedCells(values, Current.base)
      /\ Enter(v, Below, f, Proto[functions[f].proto], to, args, want)
      /\ UNCHANGED <<functions, owner>>
  BY DEF TailCallLua
<1>2. /\ CanEnter(v, Below, Shapes, Wants, Len(functions), f, to, args, want)
      /\ Proto[functions[f].proto] = Shapes[f] /\ Keeps(values, v, to, Holds) /\ 1 \in 1 .. Current.temps
  BY <1>1, TailCanEnter
<1>3. /\ 1 \in 1 .. Len(Lua!Innermost.temps) /\ Lua!Innermost.temps[1] = At(values, from)
      /\ Lua!Rest(Lua!Innermost.temps, 1 + 1) = list
  BY <1>2, CalleeIs
<1>4. Lua!Running /\ cs = Lua!Callers /\ Lua!Innermost.want = want
  BY RunningMaps, CallersAre, InnermostIs
<1>5. /\ from \in Nat /\ args \in Nat /\ from + 1 + args <= Len(values) /\ values \in Seq(Holds)
      /\ to \in Nat /\ to <= from /\ Len(values) \in Nat
  BY <1>2, CalleeBounds, CurrentIs, FirstTemporary
<1>6. SUFFICES Linked' /\ Lua!Begin(cs, f, list, want)
  <2>1. Lua!IsFunction(Lua!Innermost.temps[1]) /\ Lua!Innermost.temps[1][2] = f
    BY <1>1, <1>3 DEF IsFunction, Lua!IsFunction
  <2>2. Lua!Rest(Lua!Innermost.temps, 2) = list
    BY <1>3
  <2> HIDE DEF cs, f, list, want
  <2>3. Linked' /\ Lua!TailCallValue
    BY <1>4, <1>6, <2>1, <2>2 DEF Lua!TailCallValue
  <2>4. 1 .. Len(Lua!Innermost.temps) # {}
    BY <1>3
  <2> QED
    BY <1>4, <2>3, <2>4 DEF Implements, Lua!LuaNext, Lua!LuaSteps
<1> HIDE DEF from, f, to, args, v, want
<1>7. Between(v, to + 1, args) = list
  BY <1>5, MovedList DEF v
<1>8. to <= Len(values) /\ Untouched(values, v, to)
  <2>1. to <= Len(values)
    BY <1>5
  <2> QED
    BY <1>2, <1>5, <2>1, KeptUntouched
<1>9. LeftTo(values, values)
  <2>1. LocalsKept(values, values, frames) /\ Untouched(values, values, Current.ret_to)
    BY DEF LocalsKept, Untouched
  <2> QED
    BY <2>1, LeftIs
<1>10. Begins(v, Below, f, to, args, want)
  <2>1. Enter(v, Below, f, Shapes[f], to, args, want)
    BY <1>1, <1>2
  <2> QED
    BY <1>1, <1>2, <1>8, <1>9, <2>1 DEF Begins, LeftTo
<1>11. Linked' /\ Lua!Begin(cs, f, Between(v, to + 1, args), want)
  BY <1>1, <1>10, BeginMaps
<1> QED
  BY <1>7, <1>11

-----------------------------------------------------------------------------
(* Results over the row of a frame that waited for them: where they lie.   *)
Answers(below, gs, v, w, list) ==
  LET g == below[Len(below)]
  IN  /\ below # <<>> /\ FramesOK(below, Shapes, Wants, Len(v)) /\ Bounded(Shapes)
      /\ ~g.spread /\ IsList(list) /\ RowLeft(below, gs, g.temps + Len(list))
      /\ Untouched(v, w, Reach(g, Shapes)) /\ Lies(w, Reach(g, Shapes), list)

(* The calls are the same with the results among the innermost one's       *)
(* temporaries, and no one's locals are others.                            *)
Answered(below, gs, v, w, list) ==
  LET cs == CallsIn(v, below, Shapes)
  IN  /\ Within(below, gs) /\ Len(gs) = Len(below) /\ IsList(gs)
      /\ \A k \in 1 .. Len(below) : gs[k].vars = below[k].vars /\ gs[k].base = below[k].base
      /\ CallsIn(w, gs, Shapes) = Recalled(cs, cs[Len(cs)].vars, cs[Len(cs)].temps \o list)

(* The caller's call goes on with the answers, and no other call changes.  *)
LEMMA AnswersIn ==
  ASSUME NEW below, NEW gs, NEW v, NEW w, NEW list, Answers(below, gs, v, w, list)
  PROVE  Answered(below, gs, v, w, list)
<1> DEFINE g == below[Len(below)]
           last == Len(below)
           first == RowStart(g, Shapes)
           cs == CallsIn(v, below, Shapes)
           to == Reach(g, Shapes)
           n == g.temps + Len(list)
           row == Between(w, first, n)
<1>1. /\ below # <<>> /\ FramesOK(below, Shapes, Wants, Len(v)) /\ Bounded(Shapes) /\ IsList(below)
      /\ ~g.spread /\ IsList(list) /\ RowLeft(below, gs, n)
      /\ Untouched(v, w, to) /\ Lies(w, to, list)
  BY DEF Answers, FramesOK
<1>2. last \in Nat \ {0} /\ last \in 1 .. last
  BY <1>1 DEF IsList
<1>3. IsFrame(g, Shapes, Wants)
  BY <1>1, <1>2 DEF FramesOK
<1>4. /\ first \in Nat /\ g.temps \in Nat /\ to = first + g.temps /\ Width(g, Shapes) = g.temps
      /\ g.base \in Nat /\ g.base <= first
  BY <1>1, <1>3, RowBounds DEF Width
<1>5. ExtrasKept(v, w, g)
  <2>1. \A s \in Nat : s < g.base => s < to
    <3> HIDE DEF first, to, g
    <3> QED
      BY <1>4
  <2> HIDE DEF to, g
  <2> QED
    BY <1>1, <2>1 DEF ExtrasKept, Untouched
<1>6. \A k \in 1 .. last - 1 : Agree(v, w, below[k], Shapes)
  <2>1. ASSUME NEW k \in 1 .. last - 1, NEW s \in Nat, InRows(below[k], Shapes, s)
        PROVE  s < to
    <3>1. k \in 1 .. Len(below) /\ Len(below) \in 1 .. Len(below) /\ k < Len(below)
      BY <1>2
    <3>2. s < g.ret_to /\ g.ret_to \in Nat /\ g.ret_to < g.base - g.varargs /\ g.varargs \in Nat
      BY <1>1, <1>3, <2>1, <3>1, RowsBelow, RowBounds
    <3> HIDE DEF g, first, to
    <3> QED
      BY <1>4, <3>2
  <2> HIDE DEF to, last
  <2> QED
    BY <1>1, <2>1 DEF Agree, Untouched
<1>7. ASSUME NEW top, NEW temps, NEW spread, Rewritten(below, gs, top, g.vars, temps, spread),
             n = IF spread THEN top - first ELSE temps
      PROVE  /\ Within(below, gs) /\ Len(gs) = Len(below) /\ IsList(gs)
             /\ \A k \in 1 .. Len(below) : gs[k].vars = below[k].vars /\ gs[k].base = below[k].base
             /\ CallsIn(w, gs, Shapes) = Recalled(cs, g.vars, row)
  <2>1. Within(below, gs)
    <3>1. \A i \in 1 .. Len(g.vars) :
            i \in 1 .. Len(below[Len(below)].vars) /\ g.vars[i] = below[Len(below)].vars[i]
      OBVIOUS
    <3> QED
      BY <1>7, <3>1, RewrittenWithin
  <2>2. Len(gs) = Len(below) /\ \A k \in 1 .. Len(below) : gs[k].vars = below[k].vars /\ gs[k].base = below[k].base
    BY <1>7, RewrittenLocals
  <2>3. IsList(gs)
    BY <1>7 DEF Rewritten
  <2>4. CallsIn(w, gs, Shapes) = Recalled(cs, g.vars, row)
    <3>1. Extends(Shapes, Shapes)
      BY DEF Extends
    <3> HIDE DEF n
    <3> QED
      BY <1>1, <1>5, <1>6, <1>7, <3>1, CallsRewritten
  <2> QED
    BY <2>1, <2>2, <2>3, <2>4
<1> HIDE DEF n, row, first
<1>8. ASSUME \E top, temps : OpenRow(below, gs, top, temps) /\ n = top - first
      PROVE  /\ Within(below, gs) /\ Len(gs) = Len(below) /\ IsList(gs)
             /\ \A k \in 1 .. Len(below) : gs[k].vars = below[k].vars /\ gs[k].base = below[k].base
             /\ CallsIn(w, gs, Shapes) = Recalled(cs, g.vars, row)
  <2>1. PICK top, temps : OpenRow(below, gs, top, temps) /\ n = top - first
    BY <1>8
  <2>2. Rewritten(below, gs, top, g.vars, temps, TRUE)
    BY <2>1 DEF OpenRow
  <2>3. n = IF TRUE THEN top - first ELSE temps
    BY <2>1
  <2> QED
    BY <1>7, <2>2, <2>3
<1>9. ASSUME \E top, temps : ShutRow(below, gs, top, temps) /\ n = temps
      PROVE  /\ Within(below, gs) /\ Len(gs) = Len(below) /\ IsList(gs)
             /\ \A k \in 1 .. Len(below) : gs[k].vars = below[k].vars /\ gs[k].base = below[k].base
             /\ CallsIn(w, gs, Shapes) = Recalled(cs, g.vars, row)
  <2>1. PICK top, temps : ShutRow(below, gs, top, temps) /\ n = temps
    BY <1>9
  <2>2. Rewritten(below, gs, top, g.vars, temps, FALSE)
    BY <2>1 DEF ShutRow
  <2>3. n = IF FALSE THEN top - first ELSE temps
    BY <2>1
  <2> QED
    BY <1>7, <2>2, <2>3
<1>10. /\ Within(below, gs) /\ Len(gs) = Len(below) /\ IsList(gs)
       /\ \A k \in 1 .. Len(below) : gs[k].vars = below[k].vars /\ gs[k].base = below[k].base
       /\ CallsIn(w, gs, Shapes) = Recalled(cs, g.vars, row)
  <2>1. \/ \E top, temps : OpenRow(below, gs, top, temps) /\ n = top - first
        \/ \E top, temps : ShutRow(below, gs, top, temps) /\ n = temps
    BY <1>1 DEF RowLeft, first
  <2> QED
    BY <1>8, <1>9, <2>1
<1>11. row = Between(v, first, g.temps) \o list
  <2>1. Adjoins(v, w, first, g.temps, to, list, n)
    BY <1>1, <1>4 DEF Adjoins, n
  <2> HIDE DEF g, to
  <2> QED
    BY <2>1, BetweenJoined DEF row
<1>12. cs[Len(cs)].vars = g.vars /\ cs[Len(cs)].temps = Between(v, first, g.temps)
  <2>1. CallsListed(v, below, Shapes)
    BY <1>1, CallsAre
  <2>2. cs[Len(cs)] = CallOf(v, g, Shapes)
    BY <1>2, <2>1 DEF CallsListed
  <2> HIDE DEF cs, g
  <2> QED
    BY <1>4, <2>2 DEF CallOf, first
<1> QED
  BY <1>10, <1>11, <1>12 DEF Answered

(* What the last of a list of calls answers to the one below it.           *)
LEMMA CallerRecalled ==
  ASSUME NEW v, NEW below, IsList(below), below # <<>>, NEW list, NEW cs, cs = CallsIn(v, below, Shapes)
  PROVE  [cs EXCEPT ![Len(cs)].temps = @ \o list] = Recalled(cs, cs[Len(cs)].vars, cs[Len(cs)].temps \o list)
<1> DEFINE n == Len(cs)
<1>1. AreCalls(cs, n)
  <2>1. CallsListed(v, below, Shapes)
    BY CallsAre
  <2>2. /\ n = Len(below) /\ n \in 1 .. n /\ cs = [k \in 1 .. n |-> cs[k]]
        /\ cs[n] = CallOf(v, below[n], Shapes)
    BY <2>1 DEF CallsListed
  <2> HIDE DEF n
  <2> QED
    BY <2>2 DEF AreCalls, CallOf, n
<1>2. Recalls(cs, n)
  <2> HIDE DEF n
  <2> QED
    BY <1>1, RecalledIs
<1> DEFINE t == cs[n].temps \o list
<1>3. [cs EXCEPT ![n].temps = t] = Recalled(cs, cs[n].vars, t)
  <2> HIDE DEF n, t
  <2> QED
    BY <1>2 DEF Recalls
<1> QED
  BY <1>3

(* A call ends: its results are the caller's, cut or padded.               *)
LEMMA FinishMaps ==
  ASSUME IInv, IInv', Linked, Running, UNCHANGED program,
         NEW v, Keeps(values, v, Current.ret_to, Holds), LocalsKept(values, v, frames),
         NEW from \in Nat, NEW produced \in Nat, from + produced <= Len(v), Finish(v, from, produced),
         NEW results, results = Between(v, from, produced)
  PROVE  Linked' /\ Lua!End(CallsNow, results)
<1> DEFINE to == Current.ret_to
           want == Current.want
           ds == ClosedCells(v, Current.base)
           w == SettleValues(v, from, to, produced, want)
           list == Lua!Adjusted(results, want)
           cs == CallsIn(values, Below, Shapes)
           es == CallsIn(values', frames', Shapes)
<1>1. /\ cells' = ds /\ values' = w /\ frames' = SettleFrames(Below, to, produced, want)
      /\ UNCHANGED <<functions, packs, outcome, owner>>
  BY DEF Finish
<1>2. /\ want \in Nat \cup {All} /\ v \in Seq(Holds) /\ Nil \in Holds /\ to \in Nat
      /\ Len(values) \in Nat /\ to <= Len(values) /\ Bounded(Shapes)
  <2>1. to \in Nat /\ from \in Nat /\ want \in Nat \cup {All} /\ Len(values) \in Nat
        /\ Nil \in Holds /\ Bounded(Shapes)
    BY CurrentIs, CurrentBounds
  <2>2. to <= Len(values)
    <3>1. /\ Current.base \in Nat /\ Current.varargs \in Nat /\ ProtoOf(Current).registers \in Nat
          /\ to < Current.base - Current.varargs /\ Current.base + ProtoOf(Current).registers <= Len(values)
      BY CurrentBounds
    <3> QED
      BY <2>1, <3>1
  <2> QED
    BY <2>1, <2>2 DEF Keeps
<1> HIDE DEF to, want, ds, w
<1>3. IsList(list) /\ Len(list) = Kept(produced, want) /\ Lies(w, to, list)
  <2>1. IsList(results) /\ Len(results) = produced
    BY BetweenIs
  <2>2. IsList(list) /\ Len(list) = Kept(produced, want)
    BY <1>2, <2>1, AdjustedIs
  <2>3. Lies(w, to, list)
    BY <1>2, SettledList DEF w
  <2> QED
    BY <2>2, <2>3
<1>4. Untouched(values, w, to)
  <2>1. Keeps(v, w, to, Holds)
    BY <1>2, SettleKeeps DEF w
  <2>2. Keeps(values, w, to, Holds)
    BY <2>1, KeepsOn DEF to
  <2> QED
    BY <1>2, <2>2, KeptUntouched
<1>5. LeftTo(v, w)
  BY <1>4, LeftIs DEF to
<1>6. /\ Within(frames, Below) /\ Len(ds) = Len(cells) /\ Links(Below, ds, owner, functions)
      /\ Shows(StoreNow, w, Below, ds, owner)
  BY <1>5 DEF LeftTo, ds
<1>7. /\ FramesOK(Below, Shapes, Wants, Len(values)) /\ IsList(Below) /\ Len(Below) \in Nat
      /\ (Below # <<>> => Nests(Below[Len(Below)], Current, Shapes))
  BY BelowIs
<1>8. /\ ~Ended' /\ CallsNow' = es /\ ClosuresNow' = ClosuresNow
      /\ Lua!Innermost.want = want /\ cs = Lua!Callers
  <2>1. ~Ended /\ ~Ended'
    BY <1>1 DEF Running, Ended
  <2>2. Shapes' = Shapes
    BY <1>1 DEF Shapes
  <2>3. CallsNow' = CallsIn(values', frames', Shapes')
    BY <2>1, CallsAfter
  <2>4. Lua!Innermost.want = want /\ cs = Lua!Callers
    BY InnermostIs, CallersAre DEF want
  <2>5. ClosuresNow' = ClosuresNow
    BY <1>1 DEF ClosuresNow, VariablesOf
  <2> QED
    BY <2>1, <2>2, <2>3, <2>4, <2>5
<1>9. CallsListed(values, Below, Shapes)
  BY <1>7, CallsAre
<1> HIDE DEF list, es
<1>10. ASSUME Linked', Shows(StoreNow, values', frames', cells', owner'),
              es = IF cs = <<>> THEN <<>> ELSE [cs EXCEPT ![Len(cs)].temps = @ \o list]
       PROVE  Linked' /\ Lua!End(CallsNow, results)
  <2>1. StoreNow' = Lua!Settled(StoreNow, CallsNow', ClosuresNow')
    BY <1>8, <1>10, SettledAfter
  <2>2. /\ CallsNow[Len(CallsNow)].want = want /\ cs = SubSeq(CallsNow, 1, Len(CallsNow) - 1)
    BY <1>8 DEF Lua!Innermost, Lua!Callers
  <2> HIDE DEF cs
  <2> QED
    BY <1>1, <1>8, <1>10, <2>1, <2>2 DEF Lua!End, list
<1>11. CASE Below = <<>>
  <2>1. frames' = Below /\ cs = <<>>
    BY <1>1, <1>9, <1>11 DEF SettleFrames, CallsListed
  <2>2. Linked'
    BY <1>1, <1>6, <2>1 DEF Linked
  <2>3. Shows(StoreNow, values', frames', cells', owner')
    BY <1>1, <1>6, <2>1
  <2>4. es = <<>>
    <3>1. IsList(frames') /\ frames' = <<>>
      BY <1>7, <1>11, <2>1
    <3>2. CallsListed(values', frames', Shapes)
      BY <3>1, CallsAre
    <3> QED
      BY <3>1, <3>2 DEF CallsListed, es
  <2> HIDE DEF cs
  <2> QED
    BY <1>10, <2>1, <2>2, <2>3, <2>4
<1>12. CASE Below # <<>>
  <2> DEFINE g == Below[Len(Below)]
             gs == frames'
  <2>1. to = Reach(g, Shapes) /\ ~g.spread
    BY <1>7, <1>12 DEF Nests, to
  <2>2. IsFrame(g, Shapes, Wants)
    <3>1. Len(Below) \in 1 .. Len(Below)
      BY <1>7, <1>12 DEF IsList
    <3> QED
      BY <1>7, <3>1 DEF FramesOK
  <2>3. RowLeft(Below, gs, g.temps + Len(list))
    <3>1. RowLeft(Below, SettleFrames(Below, Reach(g, Shapes), produced, want), g.temps + Kept(produced, want))
      BY <1>2, <1>7, <1>12, <2>1, <2>2, SettledLeft
    <3> QED
      BY <1>1, <1>3, <2>1, <3>1
  <2>4. Answers(Below, gs, values, w, list)
    BY <1>2, <1>3, <1>4, <1>7, <1>12, <2>1, <2>3 DEF Answers
  <2> HIDE DEF gs, g
  <2>5. Answered(Below, gs, values, w, list)
    BY <2>4, AnswersIn
  <2>6. /\ Within(Below, gs) /\ Len(gs) = Len(Below)
        /\ \A k \in 1 .. Len(Below) : gs[k].vars = Below[k].vars /\ gs[k].base = Below[k].base
        /\ CallsIn(w, gs, Shapes) = Recalled(cs, cs[Len(cs)].vars, cs[Len(cs)].temps \o list)
    BY <2>5 DEF Answered
  <2>7. Linked'
    <3>1. ScopeOpen(Below, ds, owner) /\ DEPTH \in Nat
      BY <1>6, CountAssumption DEF Links
    <3>2. ScopeOpen(gs, ds, owner)
      BY <2>6, <3>1, ScopeKept
    <3>3. Links(gs, ds, owner, functions)
      BY <1>6, <2>6, <3>1, <3>2, LinksFewer
    <3> QED
      BY <1>1, <3>3 DEF Linked, gs
  <2>8. Shows(StoreNow, w, gs, ds, owner)
    BY <1>6, <2>6 DEF Shows
  <2>9. Shows(StoreNow, values', frames', cells', owner')
    BY <1>1, <2>8 DEF gs
  <2>10. es = [cs EXCEPT ![Len(cs)].temps = @ \o list] /\ cs # <<>>
    <3>1. [cs EXCEPT ![Len(cs)].temps = @ \o list] = Recalled(cs, cs[Len(cs)].vars, cs[Len(cs)].temps \o list)
      BY <1>7, <1>12, CallerRecalled
    <3>2. es = CallsIn(w, gs, Shapes)
      BY <1>1 DEF es, gs
    <3>3. cs # <<>>
      BY <1>9, <1>12 DEF CallsListed
    <3> HIDE DEF cs
    <3> QED
      BY <2>6, <3>1, <3>2, <3>3
  <2> HIDE DEF cs
  <2> QED
    BY <1>10, <2>7, <2>9, <2>10
<1> QED
  BY <1>11, <1>12

(* A function returns.                                                     *)
LEMMA ReturnMaps ==
  ASSUME IInv, IInv', Linked, Running, Return, UNCHANGED program
  PROVE  Implements
<1> DEFINE from == TempSlot(Current, 1)
           produced == IF Current.spread THEN Current.top - from ELSE Current.temps
<1>1. /\ from \in Nat /\ produced \in Nat /\ from + produced <= Len(values)
      /\ Current.ret_to \in Nat
  BY FirstTemporary
<1>2. Finish(values, from, produced)
  BY DEF Return
<1>3. from = RowStart(Current, Shapes) /\ produced = Width(Current, Shapes)
  <2>1. RowStart(Current, Shapes) \in Nat /\ from = RowStart(Current, Shapes) + 1 - 1
    BY RunningRow
  <2>2. from = RowStart(Current, Shapes)
    <3> HIDE DEF from
    <3> QED
      BY <2>1
  <2> QED
    BY <2>2 DEF Width
<1> HIDE DEF from, produced
<1>4. Keeps(values, values, Current.ret_to, Holds) /\ LocalsKept(values, values, frames)
  BY CurrentIs DEF Keeps, LocalsKept
<1>5. Lua!Innermost.temps = Between(values, from, produced)
  BY <1>3, InnermostIs
<1>6. Linked' /\ Lua!End(CallsNow, Lua!Innermost.temps)
  BY <1>1, <1>2, <1>4, <1>5, FinishMaps
<1>7. Lua!Running
  BY RunningMaps
<1> QED
  BY <1>6, <1>7 DEF Implements, Lua!LuaNext, Lua!LuaSteps, Lua!ReturnValues

(* A host function is called in the place of the running one.              *)
LEMMA TailCallNativeMaps ==
  ASSUME IInv, IInv', Linked, Running, NEW results \in HostResults, TailCallNative(results),
         UNCHANGED program
  PROVE  Implements
<1> DEFINE from == TempSlot(Current, 1)
           v == NativeValues(values, from, results, All)
           n == Len(results)
<1>1. 1 \in 1 .. Current.temps
  BY CurrentBounds DEF TailCallNative
<1>2. /\ 1 \in 1 .. Len(Lua!Innermost.temps) /\ Lua!Innermost.temps[1] = Native
  BY <1>1, CalleeIs DEF TailCallNative
<1>3. Lua!Running
  BY RunningMaps
<1>4. SUFFICES Linked' /\ Lua!TailCallHost(results)
  <2>1. 1 .. Len(Lua!Innermost.temps) # {}
    BY <1>2
  <2> QED
    BY <1>3, <2>1 DEF Implements, Lua!LuaNext, Lua!LuaSteps
<1>5. CASE Throw
  BY <1>2, <1>5, ThrowMaps DEF Lua!TailCallHost
<1>6. CASE Finish(v, from, n)
  <2>1. /\ results \in Seq(Holds) /\ IsList(results) /\ n \in Nat
        /\ All \in Nat \cup {All} /\ values \in Seq(Holds) /\ Nil \in Holds /\ Len(values) \in Nat
    BY ResultsHeld, CurrentIs
  <2>2. /\ from \in Nat /\ from <= Len(values) /\ Current.ret_to \in Nat /\ Current.ret_to <= from
        /\ RowStart(Current, Shapes) \in Nat /\ RowStart(Current, Shapes) <= from
    <3>1. from \in Nat /\ Args(1) \in Nat /\ from + 1 + Args(1) <= Len(values)
          /\ Current.ret_to \in Nat /\ Current.ret_to <= from
      BY <1>1, CalleeBounds, FirstTemporary
    <3>2. from = RowStart(Current, Shapes) + (1 - 1) /\ RowStart(Current, Shapes) \in Nat
      BY <1>1, CalleeIs, RunningRow
    <3> HIDE DEF from
    <3> QED
      BY <2>1, <3>1, <3>2
  <2> HIDE DEF from, v, n
  <2>3. /\ Keeps(values, v, from, Holds) /\ Kept(n, All) \in Nat /\ from + Kept(n, All) <= Len(v)
    BY <2>1, <2>2, NativeKeeps DEF v, n
  <2>4. Keeps(values, v, Current.ret_to, Holds)
    BY <2>2, <2>3, KeepsFewer
  <2>5. LocalsKept(values, v, frames)
    <3>1. Untouched(values, v, from)
      BY <2>2, <2>3, KeptUntouched
    <3> QED
      BY <2>2, <3>1, AboveLocals
  <2>6. from + n <= Len(v)
    BY <2>3 DEF Kept
  <2>7. results = Between(v, from, n)
    <3>1. Lies(v, from, Lua!Adjusted(results, All))
      BY <2>1, <2>2, NativeList DEF v
    <3>2. \A k \in 1 .. n : At(v, from + k - 1) = results[k]
      BY <3>1 DEF Lies, Lua!Adjusted, n
    <3>3. IsList(Between(v, from, n)) /\ Len(Between(v, from, n)) = n
          /\ \A k \in 1 .. n : Between(v, from, n)[k] = At(v, from + k - 1)
      BY <2>1, BetweenIs
    <3> QED
      BY <2>1, <3>2, <3>3, ListsEqual DEF n
  <2>8. Linked' /\ Lua!End(CallsNow, results)
    BY <1>6, <2>1, <2>2, <2>4, <2>5, <2>6, <2>7, FinishMaps
  <2> QED
    BY <1>2, <2>8 DEF Lua!TailCallHost
<1> QED
  BY <1>5, <1>6 DEF TailCallNative

-----------------------------------------------------------------------------
(* The frame a chunk gets: its function takes no arguments.                *)
ChunkFrame(g, n) ==
  /\ g.func = n /\ g.vars = <<>> /\ g.varargs = 0 /\ g.temps = 0 /\ ~g.spread /\ g.want = 0

(* Vm::run enters such a frame, the only one.                              *)
LEMMA ChunkEnters ==
  ASSUME IInv, Run, UNCHANGED program
  PROVE  /\ IsList(frames') /\ Len(frames') = 1 /\ ChunkFrame(frames'[1], Len(functions) + 1)
         /\ UNCHANGED <<packs, outcome>>
<1> DEFINE p == Proto[Main]
           f == Len(functions) + 1
           v == Put(Reserve(values, Len(values) + 1), Len(values), FunctionValue(f))
           none == InUse(<<>>)
<1>1. Enter(v, <<>>, f, p, Len(values), 0, 0)
  BY DEF Run
<1>2. p.params = 0 /\ p.vararg = "Anonymous"
  <2>1. program \in Programs
    BY ArenaLists
  <2> QED
    BY <2>1, ProgramAssumption DEF Proto
<1>3. Fixed(p) = 0 /\ EnterVarargs(p, 0) = 0
  BY <1>2 DEF Fixed, EnterVarargs, Monus
<1>4. Fresh(none, 0) = <<>>
  <2> HIDE DEF none
  <2> QED
    BY DEF Fresh
<1> HIDE DEF v, p, f
<1> DEFINE g == EnteredFrame(f, p, Len(values), 0, 0, Fresh(none, Fixed(p)))
<1>5. frames' = Append(<<>>, g)
  BY <1>1 DEF Enter, EnteredFrame
<1>6. UNCHANGED <<packs, outcome>>
  BY <1>1, <1>2 DEF Enter
<1>7. ChunkFrame(g, f)
  BY <1>3, <1>4 DEF ChunkFrame, EnteredFrame
<1> HIDE DEF g, none
<1>8. Appended(<<>>, g, frames')
  <2>1. IsList(<<>>)
    BY NoFrames DEF FramesOK
  <2> QED
    BY <1>5, <2>1, AppendIs
<1> QED
  BY <1>6, <1>7, <1>8 DEF Appended, f

(* The variable that holds a chunk's globals, and what a chunk adds to the *)
(* arenas: its function and one closed cell.                               *)
ChunkNames == Fresh(Used(frames, owner), 1)
ChunkFunction == [proto |-> Main, upvals |-> <<Len(cells) + 1>>]

(* The chunk's variable is new to both sides.                              *)
LEMMA ChunkMakes ==
  ASSUME Endless, IInv, Linked, Run
  PROVE  /\ Lua!Fresh(DOMAIN StoreNow, 1) = ChunkNames /\ Distinct(ChunkNames, 1) /\ IsList(ChunkNames)
         /\ ChunkNames[1] \notin Used(frames, owner)
         /\ Appended(functions, ChunkFunction, functions') /\ Appended(cells, Closed(Globals), cells')
         /\ Appended(owner, ChunkNames[1], owner')
<1> DEFINE one == ChunkNames
           used == Used(frames, owner)
<1>1. ~Ended
  BY DEF Run, Ended
<1>2. DOMAIN StoreNow = used /\ InUse(frames) = used
  BY <1>1, StoreDomain
<1>3. IsFiniteSet(used)
  BY InUseFinite
<1> HIDE DEF used
<1>4. Lua!Fresh(DOMAIN StoreNow, 1) = Fresh(used, 1)
  BY <1>2, FreshSame
<1>5. IsList(Fresh(used, 1)) /\ Len(Fresh(used, 1)) = 1
  BY FreshIs
<1>6. /\ \A k \in 1 .. 1 : Fresh(used, 1)[k] \notin used
      /\ \A j, k \in 1 .. 1 : Fresh(used, 1)[j] = Fresh(used, 1)[k] => j = k
  BY <1>3, FreshApart
<1>7. one = Fresh(used, 1)
  BY DEF ChunkNames, used
<1>8. owner' = owner \o one /\ functions' = Append(functions, ChunkFunction)
      /\ cells' = Append(cells, Closed(Globals))
  BY <1>2, <1>7 DEF Run, ChunkFunction
<1> HIDE DEF one
<1>9. IsList(one) /\ Len(one) = 1 /\ one[1] \notin used /\ Distinct(one, 1)
  <2>1. 1 \in 1 .. 1 /\ 1 \in Nat
    OBVIOUS
  <2>2. IsList(one) /\ Len(one) = 1
    BY <1>5, <1>7
  <2>3. one[1] \notin used
    BY <1>6, <1>7, <2>1
  <2>4. \A j, k \in 1 .. 1 : one[j] = one[k] => j = k
    BY <1>6, <1>7
  <2> QED
    BY <2>1, <2>2, <2>3, <2>4 DEF Distinct
<1>10. Joined(owner, one, owner')
  BY <1>8, <1>9, ArenaLists, JoinIs
<1>11. Appended(owner, one[1], owner')
  <2>1. 1 \in 1 .. Len(one)
    BY <1>9
  <2> QED
    BY <1>9, <1>10, <2>1 DEF Appended, Joined
<1>12. Appended(functions, ChunkFunction, functions') /\ Appended(cells, Closed(Globals), cells')
  <2>1. IsList(functions) /\ IsList(cells)
    BY ArenaLists
  <2> DEFINE x == ChunkFunction
             c == Closed(Globals)
  <2> HIDE DEF x, c
  <2>2. Appended(functions, x, Append(functions, x)) /\ Appended(cells, c, Append(cells, c))
    BY <2>1, AppendIs
  <2> QED
    BY <1>8, <2>2 DEF x, c
<1> QED
  BY <1>4, <1>7, <1>9, <1>11, <1>12 DEF one, used

(* The links, with the chunk's function and cell.                          *)
LEMMA ChunkLinked ==
  ASSUME Endless, IInv, Linked, Run, UNCHANGED program
  PROVE  Linked'
<1> DEFINE one == ChunkNames
<1>1. /\ one[1] \notin Used(frames, owner)
      /\ Appended(functions, ChunkFunction, functions') /\ Appended(cells, Closed(Globals), cells')
      /\ Appended(owner, one[1], owner')
  BY ChunkMakes
<1>2. IsList(frames') /\ Len(frames') = 1 /\ frames'[1].vars = <<>>
  BY ChunkEnters DEF ChunkFrame
<1>3. Len(owner) = Len(cells) /\ Len(cells) \in Nat /\ Len(functions) \in Nat
  BY ArenaLists
<1>4. \A k \in 1 .. Len(frames') : Len(frames'[k].vars) = 0
  <2>1. \A k \in 1 .. Len(frames') : k = 1
    BY <1>2
  <2> QED
    BY <1>2, <2>1
<1>5. VarsOnce(frames') /\ ScopeOpen(frames', cells', owner')
  <2>1. \A k \in 1 .. Len(frames') : 1 .. Len(frames'[k].vars) = {}
    BY <1>4
  <2> QED
    BY <2>1 DEF VarsOnce, ScopeOpen
<1> HIDE DEF one
<1>6. CellsOnce(owner')
  <2>1. CellsOnce(owner) /\ \A c \in 1 .. Len(owner) : one[1] # owner[c]
    BY <1>1, InUseIs DEF Linked, Links
  <2>2. /\ \A c \in 1 .. Len(owner') : c \in 1 .. Len(owner) \/ c = Len(owner) + 1
        /\ owner'[Len(owner) + 1] = one[1] /\ \A c \in 1 .. Len(owner) : owner'[c] = owner[c]
    BY <1>1 DEF Appended
  <2> QED
    BY <2>1, <2>2 DEF CellsOnce
<1>7. CellsHeld(cells', functions')
  <2> SUFFICES ASSUME NEW c \in 1 .. Len(cells')
               PROVE  \E f \in 1 .. Len(functions') : c \in Listed(functions'[f].upvals)
    BY DEF CellsHeld
  <2>1. /\ c \in 1 .. Len(cells) \/ c = Len(cells) + 1
        /\ Len(functions) + 1 \in 1 .. Len(functions')
        /\ functions'[Len(functions) + 1] = ChunkFunction
        /\ \A f \in 1 .. Len(functions) : f \in 1 .. Len(functions') /\ functions'[f] = functions[f]
    BY <1>1, <1>3 DEF Appended
  <2>2. CASE c \in 1 .. Len(cells)
    <3>1. PICK f \in 1 .. Len(functions) : c \in Listed(functions[f].upvals)
      BY <2>2 DEF Linked, Links, CellsHeld
    <3> QED
      BY <2>1, <3>1
  <2>3. CASE c = Len(cells) + 1
    <3>1. c \in Listed(ChunkFunction.upvals)
      <4>1. ChunkFunction.upvals = <<c>>
        BY <2>3 DEF ChunkFunction
      <4>2. Len(<<c>>) = 1 /\ <<c>>[1] = c /\ 1 \in 1 .. 1
        OBVIOUS
      <4> QED
        BY <4>1, <4>2 DEF Listed
    <3> QED
      BY <2>1, <3>1
  <2> QED
    BY <2>1, <2>2, <2>3
<1>8. Len(frames') <= DEPTH
  BY <1>2, CountAssumption
<1> QED
  BY <1>5, <1>6, <1>7, <1>8 DEF Linked, Links

(* The chunk's call, on Lua's side.                                        *)
ChunkCall == [func |-> Len(functions) + 1, vars |-> <<>>, extra |-> <<>>, temps |-> <<>>, want |-> 0]

(* Before there is no call, after only the chunk's.                        *)
LEMMA ChunkCalled ==
  ASSUME IInv, IInv', Run, UNCHANGED program
  PROVE  CallsNow = <<>> /\ CallsNow' = <<ChunkCall>>
<1> DEFINE fs == frames'
           g == frames'[1]
           w == values'
           shapes == Shapes'
           x == ChunkCall
<1>1. ~Ended /\ ~Ended' /\ frames = <<>>
  BY ChunkEnters DEF Run, Ended
<1>2. CallsNow = <<>>
  <2>1. IsList(frames)
    BY DEF IInv, Sound, FramesOK
  <2>2. CallsListed(values, frames, Shapes)
    BY <2>1, CallsAre
  <2> QED
    BY <1>1, <2>2, CallsNowIs DEF CallsListed
<1>3. CallsNow' = CallsIn(w, fs, shapes)
  BY <1>1, CallsAfter
<1>4. IsList(fs) /\ Len(fs) = 1 /\ ChunkFrame(g, Len(functions) + 1)
  BY ChunkEnters
<1>5. CallsListed(w, fs, shapes)
  BY <1>4, CallsAre
<1> DEFINE cs == CallsIn(w, fs, shapes)
<1>6. IsList(cs) /\ Len(cs) = 1 /\ cs[1] = CallOf(w, g, shapes)
  <2>1. 1 \in 1 .. 1
    OBVIOUS
  <2> QED
    BY <1>4, <1>5, <2>1 DEF CallsListed
<1>7. CallOf(w, g, shapes) = x
  <2> HIDE DEF w, g, shapes
  <2>1. Width(g, shapes) = 0
    BY <1>4 DEF Width, ChunkFrame
  <2>2. Between(w, RowStart(g, shapes), Width(g, shapes)) = <<>>
    BY <2>1 DEF Between
  <2>3. Between(w, g.base - g.varargs, g.varargs) = <<>>
    <3>1. g.varargs = 0
      BY <1>4 DEF ChunkFrame
    <3> QED
      BY <3>1 DEF Between
  <2> QED
    BY <1>4, <2>2, <2>3 DEF CallOf, ChunkFrame, ChunkCall
<1> HIDE DEF cs, x, fs, w, g, shapes
<1>8. cs = <<x>>
  <2>1. IsList(<<x>>) /\ Len(<<x>>) = 1 /\ <<x>>[1] = x
    BY DEF IsList, Listed
  <2> QED
    BY <1>6, <1>7, <2>1 DEF IsList
<1> QED
  BY <1>2, <1>3, <1>8 DEF cs, x

(* The chunk's function captured its globals, and nobody else did.         *)
LEMMA ChunkShown ==
  ASSUME Endless, IInv, Linked, Run, UNCHANGED program
  PROVE  /\ Shows(Lua!With(ChunkNames, <<Globals>>), values', frames', cells', owner')
         /\ ClosuresNow' = Append(ClosuresNow, [proto |-> Main, upvals |-> ChunkNames])
<1> DEFINE one == ChunkNames
           x == ChunkFunction
           st == Lua!With(one, <<Globals>>)
<1>1. /\ Distinct(one, 1) /\ IsList(one) /\ one[1] \notin Used(frames, owner)
      /\ Appended(functions, x, functions') /\ Appended(cells, Closed(Globals), cells')
      /\ Appended(owner, one[1], owner')
  BY ChunkMakes
<1>2. Gives(st, StoreNow, one, 1, <<Globals>>)
  <2> HIDE DEF one
  <2> QED
    BY <1>1, WithIs
<1>3. ~Ended
  BY DEF Run, Ended
<1>4. IsList(functions) /\ Wired(functions, owner) /\ Len(owner) = Len(cells) /\ Len(cells) \in Nat
  BY ArenaLists, NowWired DEF Wired
<1> HIDE DEF st, one, x
<1>5. Shows(st, values', frames', cells', owner')
  <2>1. \A k \in 1 .. Len(frames') : 1 .. Len(frames'[k].vars) = {}
    <3>1. Len(frames') = 1 /\ frames'[1].vars = <<>>
      BY ChunkEnters DEF ChunkFrame
    <3>2. \A k \in 1 .. Len(frames') : k = 1
      BY <3>1
    <3> QED
      BY <3>1, <3>2
  <2>2. ASSUME NEW c \in 1 .. Len(cells'), cells'[c].kind = "Closed"
        PROVE  st[owner'[c]] = cells'[c].value
    <3>1. /\ c \in 1 .. Len(cells) \/ c = Len(cells) + 1
          /\ cells'[Len(cells) + 1] = Closed(Globals) /\ owner'[Len(cells) + 1] = one[1]
          /\ \A d \in 1 .. Len(cells) : d \in 1 .. Len(owner) /\ cells'[d] = cells[d] /\ owner'[d] = owner[d]
      BY <1>1, <1>4 DEF Appended
    <3>2. CASE c \in 1 .. Len(cells)
      <4>1. StoreIs(StoreNow, values, frames, cells, owner)
        BY <1>3, StoreNowIs
      <4>2. StoreNow[owner[c]] = cells[c].value
        BY <2>2, <3>1, <3>2, <4>1 DEF StoreIs
      <4>3. owner[c] \in Used(frames, owner)
        BY <3>1, <3>2, InUseIs
      <4>4. owner[c] \in DOMAIN StoreNow
        BY <1>3, <4>3, StoreDomain
      <4>5. one[1] # owner[c]
        BY <1>1, <4>3
      <4>6. \A k \in 1 .. 1 : one[k] # owner[c]
        BY <4>5
      <4> HIDE DEF StoreNow
      <4>7. st[owner[c]] = StoreNow[owner[c]]
        BY <1>2, <4>4, <4>6 DEF Gives
      <4> QED
        BY <3>1, <3>2, <4>2, <4>7
    <3>3. CASE c = Len(cells) + 1
      <4>1. st[one[1]] = Globals
        <5>1. 1 \in 1 .. 1
          OBVIOUS
        <5> QED
          BY <1>2, <5>1 DEF Gives
      <4> QED
        BY <3>1, <3>3, <4>1 DEF Closed
    <3> QED
      BY <3>1, <3>2, <3>3
  <2> QED
    BY <2>1, <2>2 DEF Shows
<1>6. ClosuresNow' = Append(ClosuresNow, [proto |-> Main, upvals |-> one])
  <2>1. ClosuresNow = ClosuresIn(functions, owner) /\ ClosuresNow' = ClosuresIn(functions', owner')
    BY DEF ClosuresNow, VariablesOf, ClosuresIn
  <2>2. HeldAlso(owner, owner')
    BY <1>1 DEF HeldAlso, Appended
  <2>3. x.proto = Main /\ x.upvals = <<Len(cells) + 1>>
    BY DEF x, ChunkFunction
  <2>4. UpsHeld(one, x.upvals, owner')
    <3>1. owner'[Len(cells) + 1] = one[1]
      BY <1>1, <1>4 DEF Appended
    <3>2. Len(one) = 1 /\ Len(x.upvals) = 1 /\ x.upvals[1] = Len(cells) + 1
      BY <1>1, <2>3 DEF Distinct
    <3>3. \A j \in 1 .. Len(one) : j = 1
      BY <3>2
    <3> QED
      BY <1>1, <3>1, <3>2, <3>3 DEF UpsHeld
  <2>5. ClosuresIn(functions', owner') = Append(ClosuresIn(functions, owner), [proto |-> x.proto, upvals |-> one])
    BY <1>1, <1>4, <2>2, <2>4, ClosuresMore
  <2> QED
    BY <2>1, <2>3, <2>5
<1> QED
  BY <1>5, <1>6 DEF st, one

(* A chunk is run.                                                         *)
LEMMA RunMaps ==
  ASSUME Endless, IInv, IInv', Linked, Run, UNCHANGED program
  PROVE  Implements
<1> DEFINE env == Lua!Fresh(DOMAIN StoreNow, 1)
           fs == Append(ClosuresNow, [proto |-> Main, upvals |-> env])
           call == [func |-> Len(fs), vars |-> <<>>, extra |-> <<>>, temps |-> <<>>, want |-> 0]
           st == Lua!With(env, <<Globals>>)
<1>1. Linked'
  BY ChunkLinked
<1>2. CallsNow = <<>> /\ CallsNow' = <<ChunkCall>>
  BY ChunkCalled
<1>3. env = ChunkNames
  BY ChunkMakes
<1>4. Shows(st, values', frames', cells', owner') /\ ClosuresNow' = fs
  BY <1>3, ChunkShown
<1>5. UNCHANGED <<packs, outcome>> /\ outcome = "running" /\ ~Ended'
  BY ChunkEnters DEF Run, Ended
<1> HIDE DEF st, env
<1>6. Len(fs) = Len(functions) + 1
  <2>1. IsList(ClosuresNow) /\ Len(ClosuresNow) = Len(functions)
    BY ClosuresAre
  <2> DEFINE x == [proto |-> Main, upvals |-> env]
  <2> HIDE DEF x
  <2>2. Appended(ClosuresNow, x, Append(ClosuresNow, x))
    BY <2>1, AppendIs
  <2> QED
    BY <2>1, <2>2 DEF Appended, x
<1> HIDE DEF fs
<1>7. CallsNow' = <<call>>
  BY <1>2, <1>6 DEF ChunkCall
<1>8. StoreNow' = Lua!Settled(st, CallsNow', fs)
  <2>1. StoreNow' = Lua!Settled(st, CallsNow', ClosuresNow')
    BY <1>1, <1>4, <1>5, SettledAfter
  <2> QED
    BY <1>4, <2>1
<1> HIDE DEF call
<1>9. Lua!RunChunk
  BY <1>2, <1>4, <1>5, <1>7, <1>8 DEF Lua!RunChunk, call, fs, env, st
<1> QED
  BY <1>1, <1>9 DEF Implements, Lua!LuaNext, Lua!LuaSteps

-----------------------------------------------------------------------------
(* A machine that has run nothing has made no calls.                       *)
LEMMA InitMaps ==
  ASSUME Init
  PROVE  Linked /\ Lua!LuaInit
<1>1. /\ frames = <<>> /\ cells = <<>> /\ owner = <<>> /\ functions = <<>> /\ packs = <<>>
      /\ outcome = "running" /\ program \in Programs
  BY DEF Init
<1>2. Len(frames) = 0 /\ Len(cells) = 0 /\ Len(owner) = 0 /\ Len(functions) = 0
  BY <1>1
<1>3. 1 .. Len(frames) = {} /\ 1 .. Len(cells) = {} /\ 1 .. Len(owner) = {} /\ 1 .. Len(functions) = {}
  BY <1>2
<1>4. Linked
  <2>1. Len(frames) <= DEPTH
    BY <1>2, CountAssumption
  <2> QED
    BY <1>3, <2>1 DEF Linked, Links, VarsOnce, CellsOnce, ScopeOpen, CellsHeld
<1>5. CallsNow = <<>>
  BY <1>1, <1>2 DEF CallsNow, CallsOf, Ended, Depth
<1>6. StoreNow = [x \in {} |-> Nil]
  <2>1. InUse(frames) = {}
    BY <1>3 DEF InUse, Listed
  <2> QED
    BY <1>1, <2>1 DEF StoreNow, Ended
<1>7. ClosuresNow = <<>>
  BY <1>2 DEF ClosuresNow
<1> QED
  BY <1>1, <1>4, <1>5, <1>6, <1>7 DEF Lua!LuaInit

(* An instruction is a step of Lua's.                                      *)
LEMMA StepMaps ==
  ASSUME Endless, IInv, IInv', Linked, Running, Step, UNCHANGED program
  PROVE  Implements
<1>1. ASSUME NEW v \in Loads, Load(v) PROVE Implements
  BY <1>1, LoadMaps
<1>2. ASSUME NEW k \in 1 .. Len(Current.vars), MoveFromLocal(k) PROVE Implements
  BY <1>2, MoveFromLocalMaps
<1>3. ASSUME NEW k \in 1 .. Len(Current.vars), MoveToLocal(k) PROVE Implements
  BY <1>3, MoveToLocalMaps
<1>4. CASE Declare
  BY <1>4, DeclareMaps
<1>5. ASSUME NEW kept \in 0 .. Len(Current.vars) - 1, LeaveScope(kept) PROVE Implements
  BY <1>5, LeaveScopeMaps
<1>6. ASSUME NEW j \in 1 .. Len(Upvals), GetUpval(j) PROVE Implements
  BY <1>6, GetUpvalMaps
<1>7. ASSUME NEW j \in 1 .. Len(Upvals), SetUpval(j) PROVE Implements
  BY <1>7, SetUpvalMaps
<1>8. ASSUME NEW p \in DOMAIN Proto \ {Main},
             NEW sources \in [1 .. Proto[p].upvals -> Sources(Len(Current.vars), Len(Upvals))],
             Closure(p, sources)
      PROVE  Implements
  <2>1. p \in DOMAIN Proto
    OBVIOUS
  <2> QED
    BY <1>8, <2>1, ClosureMaps
<1>9. ASSUME NEW i \in 1 .. Current.temps, NEW want \in Wants, CallLua(i, want) PROVE Implements
  BY <1>9, CallLuaMaps
<1>10. ASSUME NEW i \in 1 .. Current.temps, NEW want \in Wants, NEW results \in HostResults,
              CallNative(i, want, results)
       PROVE  Implements
  BY <1>10, CallNativeMaps
<1>11. ASSUME NEW i \in 1 .. Current.temps, CallOther(i) PROVE Implements
  BY <1>11, CallOtherMaps
<1>12. CASE TailCallLua
  BY <1>12, TailCallLuaMaps
<1>13. ASSUME NEW results \in HostResults, TailCallNative(results) PROVE Implements
  BY <1>13, TailCallNativeMaps
<1>14. CASE Return
  BY <1>14, ReturnMaps
<1>15. ASSUME NEW want \in Wants, Vararg(want) PROVE Implements
  BY <1>15, VarargMaps
<1>16. CASE NewTable
  BY <1>16, NewTableMaps
<1>17. ASSUME NEW i \in 1 .. Current.temps, SetList(i) PROVE Implements
  BY <1>17, SetListMaps
<1>18. ASSUME NEW n \in Counts, StoreCount(n) PROVE Implements
  BY <1>18, StoreCountMaps
<1> QED
  BY <1>1, <1>2, <1>3, <1>4, <1>5, <1>6, <1>7, <1>8, <1>9, <1>10, <1>11, <1>12, <1>13, <1>14, <1>15,
     <1>16, <1>17, <1>18 DEF Step

(* Every step of the machine is one of Lua's, or none: what a call takes,  *)
(* captures and answers does not depend on where the one stack, its        *)
(* frames and the cells that point into it hold it.  Lua's variables have  *)
(* identities, as many as are asked for.                                   *)
THEOREM ImplementsLuaCallsTheorem ==
  ASSUME Endless
  PROVE  Spec => ImplementsLuaCalls
<1>1. Init => Linked /\ Lua!LuaInit
  BY InitMaps
<1>2. IInv /\ IInv' /\ Linked /\ [Next]_vars => Linked' /\ [Lua!LuaNext]_(Lua!callVars)
  <2> SUFFICES ASSUME IInv, IInv', Linked, [Next]_vars
               PROVE  Linked' /\ [Lua!LuaNext]_(Lua!callVars)
    OBVIOUS
  <2>1. CASE UNCHANGED vars
    <3>1. UNCHANGED <<values, frames, cells, functions, owner, outcome, packs, program>>
      BY <2>1 DEF vars
    <3>2. Linked' /\ CallsNow' = CallsNow /\ StoreNow' = StoreNow /\ ClosuresNow' = ClosuresNow
      BY <3>1, NothingSeen
    <3> QED
      BY <3>1, <3>2 DEF Lua!callVars
  <2>2. CASE Run /\ UNCHANGED program
    BY <2>2, RunMaps DEF Implements
  <2>3. CASE Running /\ Step /\ UNCHANGED program
    BY <2>3, StepMaps DEF Implements
  <2> QED
    BY <2>1, <2>2, <2>3 DEF Next
<1> QED
  BY <1>1, <1>2, IInvTheorem, PTL DEF Spec, ImplementsLuaCalls, Lua!LuaSpec

==============================================================================
