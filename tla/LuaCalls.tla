------------------------------ MODULE LuaCalls ------------------------------
(***************************************************************************)
(* What a call promises, with no stack in sight.  A call takes a list of   *)
(* values and answers a list of values; a local is a variable with an      *)
(* identity of its own, and a closure holds the identities it captured.    *)
(***************************************************************************)
EXTENDS Naturals, Sequences, FiniteSets

CONSTANTS
  Programs,    (* [protos, wants, counts]: its prototypes, how many results  *)
               (* its calls ask for, what it stores in a vararg table's n    *)
  Main,        (* the prototype of a chunk                                   *)
  Plain,       (* values that are neither functions nor tables               *)
  Nil,         (* one of Plain                                               *)
  Globals,     (* what a chunk's first upvalue holds, one of Plain           *)
  Native,      (* a function the host wrote                                  *)
  All,         (* a call that takes however many results there are           *)
  BadCount,    (* a vararg table's n once it is no proper integer            *)
  DEPTH,       (* how many frames may be live                                *)
  HostResults, (* the lists a host function may answer                       *)
  Names        (* bound: the identities of variables                         *)

VARIABLES
  calls,       (* the live calls, innermost last                             *)
  store,       (* a variable someone can still reach -> its value            *)
  closures,    (* every function made: its prototype and captured variables  *)
  packs,       (* every table made: its positional items and its n           *)
  program,     (* the program that runs                                      *)
  outcome      (* "running", or "error" once an error ended the run          *)

callVars == <<calls, store, closures, packs, outcome, program>>

Proto == program.protos
Wants == program.wants
Counts == program.counts

FunctionValue(f) == <<"function", f>>
TableValue(t) == <<"table", t>>

IsFunction(v) == v \notin Plain \cup {Native} /\ v[1] = "function"
IsTable(v) == v \notin Plain \cup {Native} /\ v[1] = "table"

(* The n lowest identities not in use: which ones does not matter.         *)
Fresh(used, n) ==
  LET free == Names \ used
      rank(x) == Cardinality({y \in free : y < x})
  IN  [k \in 1 .. n |-> CHOOSE x \in free : rank(x) = k - 1]

Listed(s) == {s[k] : k \in 1 .. Len(s)}

(* A list cut or padded with nil to what was asked for.                    *)
Adjusted(list, want) ==
  IF want = All THEN list
  ELSE [k \in 1 .. want |-> IF k <= Len(list) THEN list[k] ELSE Nil]

Rest(list, from) == SubSeq(list, from, Len(list))

Innermost == calls[Len(calls)]
Callers == SubSeq(calls, 1, Len(calls) - 1)
Shape(f) == Proto[closures[f].proto]
Running == outcome = "running" /\ calls # <<>>

Captured(fs) == UNION {Listed(fs[f].upvals) : f \in 1 .. Len(fs)}
InScope(cs) == UNION {Listed(cs[k].vars) : k \in 1 .. Len(cs)}

(* The variables of `new` get their values, and what nobody reaches goes.  *)
Settled(values, cs, fs) ==
  [x \in InScope(cs) \cup Captured(fs) |-> values[x]]

With(names, list) ==
  [x \in DOMAIN store \cup Listed(names) |->
     IF x \in Listed(names)
     THEN list[CHOOSE k \in 1 .. Len(names) : names[k] = x]
     ELSE store[x]]

(* An error nothing catches ends the run, and its calls with it.           *)
Fail ==
  /\ outcome' = "error"
  /\ calls' = <<>>
  /\ store' = [x \in {} |-> Nil]
  /\ UNCHANGED <<closures, packs>>

Continue(temps) == [calls EXCEPT ![Len(calls)].temps = temps]

-----------------------------------------------------------------------------
(* A function entered above `below`: parameters from the list, the rest    *)
(* kept for `...`, in a table when the function names it.                  *)
Begin(below, f, args, want) ==
  LET p == Shape(f)
      extra == IF p.vararg = "None" THEN <<>> ELSE Rest(args, p.params + 1)
      packed == p.vararg = "Table"
      names == Fresh(InScope(below) \cup Captured(closures),
                     p.params + IF packed THEN 1 ELSE 0)
      first == Adjusted(args, p.params)
      list == IF packed THEN Append(first, TableValue(Len(packs) + 1)) ELSE first
      frame == [func |-> f, vars |-> names, extra |-> extra, temps |-> <<>>,
                want |-> want]
  IN  IF Len(below) >= DEPTH
      THEN Fail
      ELSE /\ calls' = Append(below, frame)
           /\ store' = Settled(With(names, list), calls', closures)
           /\ packs' = IF packed
                       THEN Append(packs, [items |-> extra, n |-> Len(extra)])
                       ELSE packs
           /\ UNCHANGED <<closures, outcome>>

(* The innermost call of `live` answers `results` to the one below it.     *)
End(live, results) ==
  LET ended == live[Len(live)]
      below == SubSeq(live, 1, Len(live) - 1)
  IN  /\ calls' = IF below = <<>> THEN <<>>
                  ELSE [below EXCEPT ![Len(below)].temps =
                          @ \o Adjusted(results, ended.want)]
      /\ store' = Settled(store, calls', closures)
      /\ UNCHANGED <<closures, packs, outcome>>

-----------------------------------------------------------------------------
LuaInit ==
  /\ program \in Programs
  /\ calls = <<>> /\ store = [x \in {} |-> Nil]
  /\ closures = <<>> /\ packs = <<>>
  /\ outcome = "running"

RunChunk ==
  /\ outcome = "running" /\ calls = <<>>
  /\ LET env == Fresh(DOMAIN store, 1)
         fs == Append(closures, [proto |-> Main, upvals |-> env])
         frame == [func |-> Len(fs), vars |-> <<>>, extra |-> <<>>,
                   temps |-> <<>>, want |-> 0]
     IN  /\ closures' = fs
         /\ calls' = <<frame>>
         /\ store' = Settled(With(env, <<Globals>>), calls', fs)
  /\ UNCHANGED <<packs, outcome>>

Evaluate(v) ==
  /\ calls' = Continue(Append(Innermost.temps, v))
  /\ UNCHANGED <<store, closures, packs, outcome>>

ReadLocal(k) ==
  k \in 1 .. Len(Innermost.vars) /\ Evaluate(store[Innermost.vars[k]])

ReadCaptured(j) ==
  LET up == closures[Innermost.func].upvals
  IN  j \in 1 .. Len(up) /\ Evaluate(store[up[j]])

(* The last value evaluated goes to a variable.                            *)
Assign(x) ==
  LET temps == Innermost.temps
  IN  /\ temps # <<>>
      /\ store' = [store EXCEPT ![x] = temps[Len(temps)]]
      /\ calls' = Continue(SubSeq(temps, 1, Len(temps) - 1))
      /\ UNCHANGED <<closures, packs, outcome>>

WriteLocal(k) == k \in 1 .. Len(Innermost.vars) /\ Assign(Innermost.vars[k])

WriteCaptured(j) ==
  LET up == closures[Innermost.func].upvals
  IN  j \in 1 .. Len(up) /\ Assign(up[j])

(* A declaration makes a variable no one else has.                         *)
DeclareLocal ==
  LET temps == Innermost.temps
      name == Fresh(DOMAIN store, 1)
  IN  /\ temps # <<>>
      /\ calls' = [calls EXCEPT
           ![Len(calls)] = [Innermost EXCEPT !.vars = @ \o name,
                                             !.temps = SubSeq(temps, 1, Len(temps) - 1)]]
      /\ store' = With(name, <<temps[Len(temps)]>>)
      /\ UNCHANGED <<closures, packs, outcome>>

(* Leaving a block takes its variables out of scope; a closure keeps what  *)
(* it captured.                                                            *)
LeaveBlock(kept) ==
  /\ calls' = [calls EXCEPT ![Len(calls)].vars = SubSeq(@, 1, kept)]
  /\ store' = Settled(store, calls', closures)
  /\ UNCHANGED <<closures, packs, outcome>>

(* A closure captures the variables themselves, not their values.          *)
MakeFunction(p, sources) ==
  LET up == [j \in 1 .. Len(sources) |->
               IF sources[j][1] = "ParentLocal"
               THEN Innermost.vars[sources[j][2]]
               ELSE closures[Innermost.func].upvals[sources[j][2]]]
  IN  /\ closures' = Append(closures, [proto |-> p, upvals |-> up])
      /\ calls' = Continue(Append(Innermost.temps, FunctionValue(Len(closures'))))
      /\ UNCHANGED <<store, packs, outcome>>

(* The i-th value called with every value after it.                        *)
CallValue(i, want) ==
  LET temps == Innermost.temps
      f == temps[i]
      args == Rest(temps, i + 1)
      waiting == Continue(SubSeq(temps, 1, i - 1))
  IN  IsFunction(f) /\ Begin(waiting, f[2], args, want)

(* What is no function cannot be called, in a tail call or any other.      *)
CallWrong(i) ==
  LET f == Innermost.temps[i]
  IN  ~IsFunction(f) /\ f # Native /\ Fail

(* The host answers whatever it likes, or raises an error.                 *)
CallHost(i, want, results) ==
  LET temps == Innermost.temps
  IN  /\ temps[i] = Native
      /\ \/ /\ calls' = Continue(SubSeq(temps, 1, i - 1) \o Adjusted(results, want))
            /\ UNCHANGED <<store, closures, packs, outcome>>
         \/ Fail

(* A tail call answers for the call it replaces.                           *)
TailCallValue ==
  LET temps == Innermost.temps
      f == temps[1]
  IN  IsFunction(f) /\ Begin(Callers, f[2], Rest(temps, 2), Innermost.want)

TailCallHost(results) ==
  /\ Innermost.temps[1] = Native
  /\ End(calls, results) \/ Fail

ReturnValues == End(calls, Innermost.temps)

(* `...`: the extra arguments, or what the table that names them holds.    *)
Extra ==
  LET p == Shape(Innermost.func)
  IN  IF p.vararg # "Table" THEN Innermost.extra
      ELSE LET pack == packs[store[Innermost.vars[p.params + 1]][2]]
           IN  Adjusted(pack.items, pack.n)

(* It fails on a bad n, and may for want of room.                          *)
Spread(want) ==
  LET p == Shape(Innermost.func)
      bad == /\ p.vararg = "Table"
             /\ packs[store[Innermost.vars[p.params + 1]][2]].n = BadCount
  IN  \/ Fail
      \/ ~bad /\ calls' = Continue(Innermost.temps \o Adjusted(Extra, want))
              /\ UNCHANGED <<store, closures, packs, outcome>>

MakeTable ==
  /\ packs' = Append(packs, [items |-> <<>>, n |-> BadCount])
  /\ calls' = Continue(Append(Innermost.temps, TableValue(Len(packs'))))
  /\ UNCHANGED <<store, closures, outcome>>

(* A constructor's positional values go to the table just below them.      *)
FillTable(i) ==
  LET temps == Innermost.temps
  IN  /\ IsTable(temps[i])
      /\ packs' = [packs EXCEPT ![temps[i][2]].items = @ \o Rest(temps, i + 1)]
      /\ calls' = Continue(SubSeq(temps, 1, i))
      /\ UNCHANGED <<store, closures, outcome>>

StoreCount(n) ==
  LET p == Shape(Innermost.func)
  IN  /\ p.vararg = "Table"
      /\ packs' = [packs EXCEPT ![store[Innermost.vars[p.params + 1]][2]].n = n]
      /\ UNCHANGED <<calls, store, closures, outcome>>

Sources(vars, ups) ==
  ({"ParentLocal"} \X (1 .. vars)) \cup ({"ParentUpval"} \X (1 .. ups))

LuaSteps ==
  \/ RunChunk
  \/ /\ Running
     /\ LET vars == 1 .. Len(Innermost.vars)
            temps == 1 .. Len(Innermost.temps)
            ups == 1 .. Len(closures[Innermost.func].upvals)
        IN  \/ \E v \in Plain \cup {Native} : Evaluate(v)
            \/ \E k \in vars : ReadLocal(k) \/ WriteLocal(k)
            \/ \E j \in ups : ReadCaptured(j) \/ WriteCaptured(j)
            \/ DeclareLocal
            \/ \E kept \in 0 .. Len(Innermost.vars) : LeaveBlock(kept)
            \/ \E p \in DOMAIN Proto :
                 \E sources \in [1 .. Proto[p].upvals ->
                                 Sources(Len(Innermost.vars), Len(closures[Innermost.func].upvals))] :
                   MakeFunction(p, sources)
            \/ \E i \in temps, want \in Wants : CallValue(i, want)
            \/ \E i \in temps : CallWrong(i)
            \/ \E i \in temps, want \in Wants, results \in HostResults :
                 CallHost(i, want, results)
            \/ temps # {} /\ TailCallValue
            \/ \E results \in HostResults : temps # {} /\ TailCallHost(results)
            \/ ReturnValues
            \/ \E want \in Wants : Spread(want)
            \/ MakeTable
            \/ \E i \in temps : FillTable(i)
            \/ \E n \in Counts : StoreCount(n)

LuaNext == LuaSteps /\ UNCHANGED program

LuaSpec == LuaInit /\ [][LuaNext]_callVars
==============================================================================
